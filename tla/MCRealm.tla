------------------------------- MODULE MCRealm -------------------------------
(* Instances of Realm for TLC.                                             *)
EXTENDS Realm

\* One user in the table, the other one not yet.
OneStored == <<"ann">>

NoneStored == <<>>

AWorld == CHOOSE w \in Worlds : TRUE

\* A limit of one and a world, a limit that is no number, and the world 0 of the seed.
ThreeSettings ==
    {[max |-> 1, world |-> AWorld], [max |-> Nothing, world |-> AWorld], [max |-> 1, world |-> ANY]}

OneSetting == {[max |-> 1, world |-> AWorld]}

\* Ann's character ada is in the other world, where she may also be played; in this one she
\* is still to be created.
SomePlayers ==
    [w \in Worlds |->
        {[name |-> "byron", user |-> 2, loaded |-> FALSE]}
            \cup IF w = AWorld THEN {} ELSE {[name |-> "ada", user |-> 1, loaded |-> TRUE]}]

=============================================================================

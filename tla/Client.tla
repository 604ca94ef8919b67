------------------------------- MODULE Client --------------------------------
(***************************************************************************)
(* The two programs of the client: client/src/main.cpp, which draws sprites*)
(* out of one texture_atlas, and client/extra/sdl_main.cpp, which draws one*)
(* quad.  Both acquire SDL, a window, OpenGL and objects of OpenGL call by *)
(* call, each of which can fail, run a loop and release what they hold.    *)
(* What a call draws, the matrices and the log are left out.               *)
(***************************************************************************)
EXTENDS Timer, Sequences, FiniteSets

CONSTANTS
    SpriteCount, \* sprites main makes, 200001 in the code
    Capacities,  \* capacities the atlas may be constructed with, {200002} in the code
    ClipColumns, \* columns of 32 pixels that main clips sprites from, 10 in the code
    Interval,    \* ticks after which the frame rate is logged, 1500 in the code
    MaxTime      \* bound: the clock stops here

ASSUME ClientAssumption ==
    /\ SpriteCount \in Nat \ {0} /\ Capacities \subseteq Nat \ {0}
    /\ ClipColumns \in Nat \ {0} /\ Interval \in Nat /\ MaxTime \in Nat

VARIABLES
    program,  \* the program that runs
    pc,       \* where its main is
    calls,    \* the calls ahead, while it starts or closes
    up,       \* what it has acquired
    width,    \* columns of 32 pixels of the image, read after SDL_FreeSurface: any number
    firstCapacity, \* history: the capacity main asked for
    atlas,    \* the texture_atlas main holds
    sprites,  \* the slot of each sprite, in the order they were made
    refs,     \* _reference_count of the texture, 0 when it is not in texture_cache
    quit,     \* main's local variable
    quad,     \* gRenderQuad
    time,     \* milliseconds since SDL_Init
    timers,   \* fps_timer, and a timer that any other caller uses
    ran       \* history: how long each timer ran since it was started

programVars == <<program, pc, calls, up, width, firstCapacity>>
atlasVars == <<atlas, sprites, refs>>
loopVars == <<quit, quad>>
timeVars == <<time, timers, ran>>
vars == <<programVars, atlasVars, loopVars, timeVars>>

GlObjects == {"texture", "program", "vertex", "fragment", "buffer", "vertex_array"}
Resources == GlObjects \cup {"sdl", "window", "context", "glew", "image", "surface"}

-----------------------------------------------------------------------------
(* The calls of the programs in their order: what a call acquires, what it *)
(* releases, whether it goes through a pointer glewInit fills, and what    *)
(* main does when it fails.                                                *)

Call(makes, fail) == [makes |-> makes, drops |-> {}, gl |-> FALSE, fail |-> fail]
GlCall(makes, fail) == [Call(makes, fail) EXCEPT !.gl = TRUE]
Free(drops) == [Call({}, "never") EXCEPT !.drops = drops]
GlFree(drops) == [Free(drops) EXCEPT !.gl = TRUE]

InitSdl == <<Call({"sdl"}, "exit"), Call({"window"}, "exit"), Call({"context"}, "exit"),
             Call({"glew"}, "exit"), Call({}, "exit"), Call({}, "exit")>>

SetWorkingDir == <<Call({}, "exit")>>

InitSdlImage == <<Call({"image"}, "exit")>>

\* IMG_Load and the bytes per pixel fail with LOG(FATAL), which aborts.  Last, the width and
\* the height are read from the surface that was freed: that may crash.
CreateTexture == <<Call({"surface"}, "abort"), Call({}, "abort"), GlCall({"texture"}, "never"),
                   Free({"surface"}), Call({}, "crash")>>

\* The file may be missing, the source may not compile.
LoadShader(shader) == <<Call({}, "abort"), GlCall({shader}, "abort")>>

\* The program is linked last, and the shaders are deleted before the result is read.
CreateShaderProgram ==
    <<GlCall({"program"}, "never")>> \o LoadShader("vertex") \o LoadShader("fragment")
        \o <<GlFree({"vertex", "fragment"}), GlCall({}, "abort")>>

\* Last the locations of projection and textureUnit in the program.
TextureAtlas ==
    CreateTexture \o CreateShaderProgram
        \o <<GlCall({"buffer", "vertex_array"}, "never"), GlCall({}, "abort"), GlCall({}, "abort")>>

\* A failure of glewInit or of the swap interval is printed and ignored.
SdlInit == <<Call({"sdl"}, "close"), Call({"window"}, "close"), Call({"context"}, "close"),
             Call({"glew"}, "ignore"), Call({}, "ignore")>>

SdlInitGL == <<GlCall({"program"}, "never"), GlCall({"vertex"}, "close"),
               GlCall({"fragment"}, "close"), GlCall({}, "close"), GlCall({}, "close"),
               GlCall({"buffer"}, "never")>>

Startup(p) == IF p = "client" THEN InitSdl \o SetWorkingDir \o InitSdlImage \o TextureAtlas
                              ELSE SdlInit \o SdlInitGL

\* After the sprites and the atlas.  Neither program deletes its context.
CloseClient == <<Free({"window"}), Free({"image"}), Free({"sdl"})>>

CloseSdl == <<GlFree({"program"}), Free({"window"}), Free({"sdl"})>>

\* Without a window, or without what glewInit loads, a call of OpenGL is a crash.
GlWorks == {"window", "context", "glew"} \subseteq up

-----------------------------------------------------------------------------
(* texture_atlas.  A row is Empty until something is put into it; a slot of *)
(* the buffer is Undefined until it is uploaded.                           *)

Empty == 0
Undefined == 0

\* _allocated_at_least_one is not initialized.
NewAtlas(capacity, garbage) ==
    [capacity |-> capacity, highest |-> 0, allocated |-> garbage,
     rows |-> [i \in 0 .. capacity - 1 |-> Empty],
     gpu |-> [i \in 0 .. capacity - 1 |-> Undefined]]

\* Nothing ever fills _vertex_data_unused, so the next slot is a new one.
NextSlot(a) == a.highest + 1

\* A mutation: the rows are uploaded up to the one before the last.
ReuploadedTooFew(a, i) == [j \in 0 .. 2 * a.capacity - 1 |-> IF j < i - 1 THEN a.rows[j] ELSE Undefined]

\* The buffer is allocated anew, twice as large, and the rows are uploaded again.
Reuploaded(a, i) == [j \in 0 .. 2 * a.capacity - 1 |-> IF j < i THEN a.rows[j] ELSE Undefined]

Grown(a, i) ==
    [a EXCEPT !.capacity = 2 * @,
              !.rows = [j \in 0 .. 2 * a.capacity - 1 |-> IF j < a.capacity THEN @[j] ELSE Empty],
              !.gpu = Reuploaded(a, i)]

Stored(a, i, data) ==
    [a EXCEPT !.rows[i] = data, !.gpu[i] = data, !.allocated = TRUE,
              !.highest = IF i > @ THEN i ELSE @]

\* Mutations: the buffer grows when a slot outside of it was taken, or one slot early.
GrowsLate(a) == NextSlot(a) > a.capacity
GrowsEarly(a) == NextSlot(a) >= a.capacity - 1

Grows(a) == NextSlot(a) = a.capacity

AddDataObject(a, data) ==
    LET i == NextSlot(a) IN Stored(IF Grows(a) THEN Grown(a, i) ELSE a, i, data)

\* A growth uploads 64 bytes from data() of every row below, of empty rows also.
ReadsNull(a) == Grows(a) /\ \E j \in 0 .. NextSlot(a) - 1 : a.rows[j] = Empty

\* What glDrawArrays draws.
Drawn(a) == IF a.allocated THEN {a.gpu[i] : i \in 0 .. a.highest} ELSE {}

-----------------------------------------------------------------------------
Init ==
    /\ program \in {"client", "sdl_main"}
    /\ pc = "starting"
    /\ calls = Startup(program)
    /\ up = {}
    /\ width \in 0 .. ClipColumns
    /\ firstCapacity \in Capacities
    /\ \E garbage \in BOOLEAN : atlas = NewAtlas(firstCapacity, garbage)
    /\ sprites = <<>>
    /\ refs = 0
    /\ quit = FALSE
    /\ quad = TRUE
    /\ time = 0
    /\ timers = [t \in {"fps", "other"} |-> NewTimer]
    /\ ran = [t \in {"fps", "other"} |-> 0]

Now == time % Wrap

(* create_texture_from_image: the first texture of an image has one        *)
(* reference.                                                              *)
Counted(c) == IF "texture" \in c.makes THEN refs' = 1 ELSE UNCHANGED refs

CallSucceeds ==
    /\ pc \in {"starting", "closing"} /\ calls # <<>>
    /\ LET c == Head(calls) IN
        /\ c.gl => GlWorks
        /\ up' = (up \cup c.makes) \ c.drops
        /\ Counted(c)
    /\ calls' = Tail(calls)
    /\ UNCHANGED <<program, pc, width, firstCapacity, atlas, sprites, loopVars, timeVars>>

CallCrashes ==
    /\ pc \in {"starting", "closing"} /\ calls # <<>>
    /\ Head(calls).gl /\ ~GlWorks
    /\ pc' = "crashed"
    /\ UNCHANGED <<program, calls, up, width, firstCapacity, atlasVars, loopVars, timeVars>>

(* sdl_main closes whatever it has, main of the client exits or aborts and *)
(* leaves the rest to the system.                                          *)
CallFails ==
    /\ pc = "starting" /\ calls # <<>>
    /\ LET c == Head(calls) IN
        /\ c.gl => GlWorks
        /\ \/ c.fail = "exit" /\ pc' = "exit(1)" /\ UNCHANGED calls
           \/ c.fail = "abort" /\ pc' = "aborted" /\ UNCHANGED calls
           \/ c.fail = "crash" /\ pc' = "crashed" /\ UNCHANGED calls
           \/ c.fail = "close" /\ pc' = "closing" /\ calls' = CloseSdl
           \/ c.fail = "ignore" /\ UNCHANGED pc /\ calls' = Tail(calls)
    /\ UNCHANGED <<program, up, width, firstCapacity, atlasVars, loopVars, timeVars>>

StartupDone ==
    /\ pc = "starting" /\ calls = <<>>
    /\ pc' = IF program = "client" THEN "sprites" ELSE "loop"
    /\ UNCHANGED <<program, calls, up, width, firstCapacity, atlasVars, loopVars, timeVars>>

(* The last sprite has no clip.  Only the corner of a clip is checked.     *)
ClipInImage(k) == k < SpriteCount => k % ClipColumns <= width

NewSprite ==
    LET k == Len(sprites) + 1 IN
    /\ pc = "sprites" /\ k <= SpriteCount
    /\ \/ /\ ClipInImage(k)
          /\ atlas' = AddDataObject(atlas, k)
          /\ sprites' = Append(sprites, NextSlot(atlas))
          /\ UNCHANGED pc
       \/ /\ ClipInImage(k) /\ ReadsNull(atlas)
          /\ pc' = "crashed" /\ UNCHANGED <<atlas, sprites>>
       \/ /\ ~ClipInImage(k)
          /\ pc' = "aborted" /\ UNCHANGED <<atlas, sprites>>
    /\ UNCHANGED <<program, calls, up, width, firstCapacity, refs, loopVars, timeVars>>

FpsTimerStart ==
    /\ timers' = [timers EXCEPT !["fps"] = Started(@, Now)]
    /\ ran' = [ran EXCEPT !["fps"] = 0]
    /\ UNCHANGED time

LoopStarts ==
    /\ pc = "sprites" /\ Len(sprites) = SpriteCount
    /\ pc' = "loop"
    /\ FpsTimerStart
    /\ UNCHANGED <<program, calls, up, width, firstCapacity, atlasVars, loopVars>>

-----------------------------------------------------------------------------
(* The loop.                                                               *)

PollQuit ==
    /\ pc = "loop"
    /\ quit' = TRUE
    /\ UNCHANGED <<programVars, atlasVars, quad, timeVars>>

\* handleKeys: the key q shows the quad and hides it.
HandleKeys ==
    /\ pc = "loop" /\ program = "sdl_main"
    /\ quad' = ~quad
    /\ UNCHANGED <<programVars, atlasVars, quit, timeVars>>

FrameRate ==
    IF program = "client" /\ GetTicks(timers["fps"], Now) > Interval THEN FpsTimerStart
    ELSE UNCHANGED timeVars

\* No event is left: render, the frame rate, and the condition of the loop.
Frame ==
    /\ pc = "loop"
    /\ FrameRate
    /\ pc' = IF ~quit THEN "loop" ELSE IF program = "client" THEN "deleting" ELSE "closing"
    /\ calls' = IF quit /\ program = "sdl_main" THEN CloseSdl ELSE calls
    /\ UNCHANGED <<program, up, width, firstCapacity, atlasVars, loopVars>>

\* delete tex: remove_data_object checks the position and keeps the slot.
DeleteSprite ==
    /\ pc = "deleting" /\ sprites # <<>>
    /\ IF Head(sprites) > atlas.capacity THEN pc' = "aborted" /\ UNCHANGED sprites
       ELSE sprites' = Tail(sprites) /\ UNCHANGED pc
    /\ UNCHANGED <<program, calls, up, width, firstCapacity, atlas, refs, loopVars, timeVars>>

\* A mutation: the count is compared before it is decremented.
TextureReleasedLate == IF refs = 0 THEN {"texture"} ELSE {}

\* delete_texture.
TextureReleased == IF refs = 1 THEN {"texture"} ELSE {}

(* atlas = nullptr: every sprite had a share of the atlas, so here the last*)
(* one goes and the destructor runs.                                       *)
ReleaseAtlas ==
    /\ pc = "deleting" /\ sprites = <<>>
    /\ pc' = IF GlWorks THEN "closing" ELSE "crashed"
    /\ up' = up \ ({"buffer", "vertex_array", "program"} \cup TextureReleased)
    /\ refs' = refs - 1
    /\ calls' = CloseClient
    /\ UNCHANGED <<program, width, firstCapacity, atlas, sprites, loopVars, timeVars>>

Ended ==
    /\ pc = "closing" /\ calls = <<>>
    /\ pc' = "ended"
    /\ UNCHANGED <<program, calls, up, width, firstCapacity, atlasVars, loopVars, timeVars>>

-----------------------------------------------------------------------------
ClockTicks ==
    /\ pc = "loop" /\ time < MaxTime
    /\ time' = time + 1
    /\ ran' = [t \in DOMAIN ran |-> IF Running(timers[t]) THEN ran[t] + 1 ELSE ran[t]]
    /\ UNCHANGED <<programVars, atlasVars, loopVars, timers>>

(* The other operations of timer, which main does not use.                 *)
Other(t, elapsed) ==
    /\ pc = "loop"
    /\ timers' = [timers EXCEPT !["other"] = t]
    /\ ran' = [ran EXCEPT !["other"] = elapsed]
    /\ UNCHANGED <<programVars, atlasVars, loopVars, time>>

OtherTimer ==
    LET t == timers["other"] IN
    \/ Other(Started(t, Now), 0)
    \/ Other(Stopped(t, Now), 0)
    \/ Other(Paused(t, Now), ran["other"])
    \/ Other(Unpaused(t, Now), ran["other"])

Next ==
    \/ CallSucceeds \/ CallCrashes \/ CallFails \/ StartupDone
    \/ NewSprite \/ LoopStarts
    \/ PollQuit \/ HandleKeys \/ Frame
    \/ DeleteSprite \/ ReleaseAtlas \/ Ended
    \/ ClockTicks \/ OtherTimer

Spec == Init /\ [][Next]_vars

-----------------------------------------------------------------------------
(* Variables range over these sets; rows and the buffer have a place for   *)
(* every slot below the capacity.                                          *)
TypeOK ==
    /\ program \in {"client", "sdl_main"}
    /\ pc \in {"starting", "sprites", "loop", "deleting", "closing", "ended", "exit(1)",
               "aborted", "crashed"}
    /\ up \subseteq Resources
    /\ width \in 0 .. ClipColumns /\ firstCapacity \in Capacities
    /\ atlas.capacity \in Nat \ {0} /\ atlas.highest \in 0 .. atlas.capacity - 1
    /\ atlas.allocated \in BOOLEAN
    /\ atlas.rows \in [0 .. atlas.capacity - 1 -> 0 .. SpriteCount]
    /\ atlas.gpu \in [0 .. atlas.capacity - 1 -> 0 .. SpriteCount]
    /\ sprites \in Seq(1 .. SpriteCount) /\ Len(sprites) <= SpriteCount
    /\ refs \in Nat /\ quit \in BOOLEAN /\ quad \in BOOLEAN /\ time \in 0 .. MaxTime
    /\ timers \in [{"fps", "other"} -> Timer] /\ ran \in [{"fps", "other"} -> Nat]

(* Every sprite has a slot of its own, and while the loop runs one call of *)
(* glDrawArrays over the slots up to _highest_allocated draws each sprite, *)
(* however often the buffer was allocated anew on the way.                 *)
EverySpriteIsDrawn ==
    /\ \A j, k \in 1 .. Len(sprites) : sprites[j] = sprites[k] => j = k
    /\ pc \in {"sprites", "loop"} =>
        /\ \A k \in 1 .. Len(sprites) : atlas.gpu[sprites[k]] = k
        /\ 1 .. Len(sprites) \subseteq Drawn(atlas)

(* The capacity main asks for is one slot more than its sprites, because   *)
(* slot 0 stays empty: then the buffer is never allocated anew and the     *)
(* client does not read through the null pointer of an empty row.  Besides *)
(* that it crashes only where it reads the surface it has freed, and only  *)
(* sdl_main calls OpenGL without a window or without glewInit.             *)
CrashesAreExplained ==
    pc = "crashed" =>
        \/ program = "client" /\ firstCapacity <= SpriteCount
        \/ calls # <<>> /\ Head(calls).fail = "crash"
        \/ program = "sdl_main" /\ ~GlWorks

(* The client deletes its objects of OpenGL, the texture, which is counted,*)
(* and the atlas, which is shared with the sprites, included, while it has *)
(* the window it made them in.  What is left when main returns is the      *)
(* context, which the code never deletes, and what glewInit loaded.        *)
ObjectsGoBeforeTheWindow ==
    program = "client" =>
        /\ "window" \notin up => up \cap GlObjects = {}
        /\ pc = "ended" => up \subseteq {"context", "glew"} /\ refs = 0

(* get_ticks is the time the timer ran, without its pauses, modulo the     *)
(* width of the ticks: the clock may wrap while the timer runs or pauses.  *)
TicksAreElapsedTime == \A t \in DOMAIN timers : GetTicks(timers[t], Now) = ran[t] % Wrap
==============================================================================

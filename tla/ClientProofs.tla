---------------------------- MODULE ClientProofs -----------------------------
(***************************************************************************)
(* For any number of sprites, capacity of the atlas and width of the ticks:*)
(* the client draws its sprites, and its timers tell the time.             *)
(***************************************************************************)
EXTENDS Client, Modulo, SequenceTheorems, TLAPS

-----------------------------------------------------------------------------
(* Timers.  What a timer holds in terms of the time r that it ran.         *)

TimerRight(tm, r, now) ==
    /\ tm \in Timer /\ r \in Nat
    /\ ~tm.started => ~tm.paused /\ r = 0
    /\ tm.started /\ tm.paused => tm.paused_ticks = r % Wrap
    /\ tm.started /\ ~tm.paused => (now - tm.start_ticks) % Wrap = r % Wrap

LEMMA TickTyped ==
    ASSUME NEW x \in Int
    PROVE  x % Wrap \in Tick /\ x % Wrap \in Int
  BY TimerAssumption, Division DEF Tick

LEMMA TickDifference ==
    ASSUME NEW x \in Int, NEW y \in Int
    PROVE  Minus(x % Wrap, y) = (x - y) % Wrap /\ Minus(x, y % Wrap) = (x - y) % Wrap
<1>1. Wrap \in Nat \ {0}
  BY TimerAssumption
<1>2. QED
  BY <1>1, RemainderInDifference DEF Minus

LEMMA NewTimerRight ==
    ASSUME NEW now \in Nat
    PROVE  TimerRight(NewTimer, 0, now)
  BY TimerAssumption DEF TimerRight, NewTimer, Timer, Tick

LEMMA StartedRight ==
    ASSUME NEW now \in Nat, NEW tm
    PROVE  TimerRight(Started(tm, now % Wrap), 0, now)
<1> DEFINE s == now % Wrap
<1>1. s \in Tick /\ 0 \in Tick
  BY TimerAssumption, TickTyped DEF Tick
<1>2. (now - s) % Wrap = 0 % Wrap
  <2>1. s \in Int /\ now - s \in Int /\ 0 \in Int /\ now \in Int /\ Wrap \in Nat \ {0}
    BY TimerAssumption, TickTyped
  <2>2. now - s = Wrap * (now \div Wrap) /\ now \div Wrap \in Int
    BY <2>1, Division
  <2>3. (now - s) % Wrap = 0
    BY <2>1, <2>2, MultiplesLeaveNothing
  <2>4. 0 % Wrap = 0
    BY <2>1
  <2>5. QED
    BY <2>3, <2>4
<1> HIDE DEF s
<1>3. NewTimer \in Timer
  BY <1>1 DEF NewTimer, Timer
<1>4. /\ Started(tm, s) \in Timer /\ Started(tm, s).started = TRUE
      /\ Started(tm, s).paused = NewTimer.paused /\ Started(tm, s).start_ticks = s
  BY <1>1, <1>3 DEF Started, Timer
<1>5. ~NewTimer.paused
  BY DEF NewTimer
<1>6. TimerRight(Started(tm, s), 0, now)
  BY <1>2, <1>4, <1>5 DEF TimerRight
<1>7. QED
  BY <1>6 DEF s

(* A pause keeps the ticks so far, although the clock that is asked has    *)
(* wrapped since the start.                                                *)
LEMMA PausedRight ==
    ASSUME NEW now \in Nat, NEW tm, NEW r, TimerRight(tm, r, now)
    PROVE  TimerRight(Paused(tm, now % Wrap), r, now)
<1> DEFINE s == now % Wrap
<1>0. s \in Int /\ tm.start_ticks \in Int /\ tm \in Timer
  BY TimerAssumption, TickTyped DEF TimerRight, Timer, Tick
<1>1. CASE tm.started /\ ~tm.paused
  <2> DEFINE p == Minus(s, tm.start_ticks)
  <2>1. p = (now - tm.start_ticks) % Wrap
    <3>1. \A y \in Int : Minus(now % Wrap, y) = (now - y) % Wrap
      BY TickDifference
    <3>2. QED
      BY <1>0, <3>1
  <2>2. p \in Tick /\ 0 \in Tick
    BY <1>0, <2>1, TickTyped, TimerAssumption DEF Tick
  <2>3. p = r % Wrap
    BY <1>1, <2>1 DEF TimerRight
  <2>4. Paused(tm, s) = [tm EXCEPT !.paused = TRUE, !.start_ticks = 0, !.paused_ticks = p]
    BY <1>1 DEF Paused
  <2> HIDE DEF p
  <2>5. /\ Paused(tm, s) \in Timer /\ Paused(tm, s).started = tm.started
        /\ Paused(tm, s).paused = TRUE /\ Paused(tm, s).paused_ticks = p
    BY <1>0, <2>2, <2>4 DEF Timer
  <2>6. QED
    BY <1>1, <2>3, <2>5 DEF TimerRight
<1>2. CASE ~(tm.started /\ ~tm.paused)
  BY <1>2 DEF Paused
<1>3. QED
  BY <1>1, <1>2

LEMMA UnpausedRight ==
    ASSUME NEW now \in Nat, NEW tm, NEW r, TimerRight(tm, r, now)
    PROVE  TimerRight(Unpaused(tm, now % Wrap), r, now)
<1> DEFINE s == now % Wrap
<1>0. s \in Int /\ tm \in Timer /\ r \in Nat
  BY TimerAssumption, TickTyped DEF TimerRight, Timer, Tick
<1>1. CASE tm.started /\ tm.paused
  <2> DEFINE q == r % Wrap
             u == Minus(s, tm.paused_ticks)
  <2>1. q \in Int /\ tm.paused_ticks = q
    BY <1>0, <1>1, TickTyped DEF TimerRight
  <2>2. u = (s - q) % Wrap
    BY <2>1 DEF Minus
  <2>3. u \in Tick /\ 0 \in Tick
    BY <1>0, <2>1, <2>2, TickTyped, TimerAssumption DEF Tick
  <2>4. (s - q) % Wrap = (now - q) % Wrap /\ (now - q) % Wrap = (now - r) % Wrap
    <3>1. Wrap \in Nat \ {0} /\ now \in Int /\ r \in Int
      BY <1>0, TimerAssumption
    <3> HIDE DEF q, u
    <3>2. (s - q) % Wrap = (now - q) % Wrap
      BY <2>1, <3>1, RemainderInDifference
    <3>3. (now - (r % Wrap)) % Wrap = (now - r) % Wrap
      BY <3>1, RemainderInDifference
    <3>4. QED
      BY <3>2, <3>3 DEF q
  <2>5. (now - u) % Wrap = (now - (now - r)) % Wrap
    <3>1. u = (now - r) % Wrap
      BY <2>2, <2>4
    <3>2. now - r \in Int
      BY <1>0
    <3> HIDE DEF u, q, s
    <3>3. QED
      BY <3>1, <3>2, TimerAssumption, RemainderInDifference
  <2>6. now - (now - r) = r
    BY <1>0
  <2>7. (now - u) % Wrap = r % Wrap
    BY <2>5, <2>6
  <2>8. Unpaused(tm, s) = [tm EXCEPT !.paused = FALSE, !.paused_ticks = 0, !.start_ticks = u]
    BY <1>1 DEF Unpaused
  <2> HIDE DEF u, s, q
  <2>9. /\ Unpaused(tm, s) \in Timer /\ Unpaused(tm, s).started = tm.started
        /\ Unpaused(tm, s).paused = FALSE /\ Unpaused(tm, s).start_ticks = u
    BY <1>0, <2>3, <2>8 DEF Timer
  <2>10. QED
    BY <1>0, <1>1, <2>7, <2>9 DEF TimerRight, s
<1>2. CASE ~(tm.started /\ tm.paused)
  BY <1>2 DEF Unpaused
<1>3. QED
  BY <1>1, <1>2

\* A millisecond, which the timer runs or not.
LEMMA TickRight ==
    ASSUME NEW now \in Nat, NEW tm, NEW r, TimerRight(tm, r, now)
    PROVE  TimerRight(tm, IF Running(tm) THEN r + 1 ELSE r, now + 1)
<1>0. tm.start_ticks \in Int /\ r \in Nat
  BY TimerAssumption DEF TimerRight, Timer, Tick
<1>1. CASE Running(tm)
  <2> DEFINE s == tm.start_ticks
  <2>1. tm.started /\ ~tm.paused /\ (now - s) % Wrap = r % Wrap
    BY <1>1 DEF Running, TimerRight
  <2>2. now - s \in Int /\ (now + 1) - s \in Int /\ r \in Int /\ r + 1 \in Int
    BY <1>0
  <2>3. ((now - s) - r) % Wrap = 0
    BY <2>1, <2>2, TimerAssumption, SameRemainder
  <2>4. ((now + 1) - s) - (r + 1) = (now - s) - r
    BY <1>0
  <2>5. ((now + 1) - s) % Wrap = (r + 1) % Wrap
    BY <2>2, <2>3, <2>4, TimerAssumption, SameRemainder
  <2>6. r + 1 \in Nat
    BY <1>0
  <2>7. QED
    BY <1>1, <2>1, <2>5, <2>6 DEF TimerRight
<1>2. CASE ~Running(tm)
  BY <1>0, <1>2 DEF Running, TimerRight
<1>3. QED
  BY <1>1, <1>2

LEMMA TicksOfRight ==
    ASSUME NEW now \in Nat, NEW tm, NEW r, TimerRight(tm, r, now)
    PROVE  GetTicks(tm, now % Wrap) = r % Wrap
<1> DEFINE s == now % Wrap
<1>1. s \in Int /\ tm.start_ticks \in Int
  BY TimerAssumption, TickTyped DEF TimerRight, Timer, Tick
<1>2. Minus(s, tm.start_ticks) = (now - tm.start_ticks) % Wrap
  <2>1. \A y \in Int : Minus(now % Wrap, y) = (now - y) % Wrap
    BY TickDifference
  <2>2. QED
    BY <1>1, <2>1
<1>3. 0 % Wrap = 0
  BY TimerAssumption
<1> HIDE DEF s
<1>4. CASE ~tm.started
  BY <1>3, <1>4 DEF GetTicks, TimerRight
<1>5. CASE tm.started /\ tm.paused
  BY <1>5 DEF GetTicks, TimerRight
<1>6. CASE tm.started /\ ~tm.paused
  BY <1>2, <1>6 DEF GetTicks, TimerRight, s
<1>7. QED
  BY <1>4, <1>5, <1>6 DEF s

-----------------------------------------------------------------------------
(* The atlas after n sprites.                                              *)

Contents == UNION {[0 .. c - 1 -> 0 .. SpriteCount] : c \in Nat}

AtlasTyped(a) ==
    /\ a \in [capacity : Nat \ {0}, highest : Nat, allocated : BOOLEAN,
              rows : Contents, gpu : Contents]
    /\ a.highest < a.capacity
    /\ a.rows \in [0 .. a.capacity - 1 -> 0 .. SpriteCount]
    /\ a.gpu \in [0 .. a.capacity - 1 -> 0 .. SpriteCount]

\* The n-th sprite is in slot n, of the rows as well as of the buffer.
AtlasRight(a, n) ==
    /\ a.highest = n
    /\ \A k \in 1 .. n : a.rows[k] = k /\ a.gpu[k] = k
    /\ n > 0 => a.allocated

LEMMA NewAtlasRight ==
    ASSUME NEW c \in Nat \ {0}, NEW garbage \in BOOLEAN
    PROVE  AtlasTyped(NewAtlas(c, garbage)) /\ AtlasRight(NewAtlas(c, garbage), 0)
<1> DEFINE zeros == [i \in 0 .. c - 1 |-> 0]
<1>1. zeros \in [0 .. c - 1 -> 0 .. SpriteCount]
  BY ClientAssumption
<1>2. zeros \in Contents
  BY <1>1 DEF Contents
<1>3. NewAtlas(c, garbage) = [capacity |-> c, highest |-> 0, allocated |-> garbage,
                              rows |-> zeros, gpu |-> zeros]
  BY DEF NewAtlas, Empty, Undefined
<1> HIDE DEF zeros
<1>4. QED
  BY <1>1, <1>2, <1>3 DEF AtlasTyped, AtlasRight

(* A slot outside of the buffer doubles it; what is uploaded again are the *)
(* rows of all sprites so far.                                             *)
LEMMA GrownRight ==
    ASSUME NEW a, NEW n \in Nat, AtlasTyped(a), AtlasRight(a, n), n + 1 = a.capacity
    PROVE  LET g == Grown(a, n + 1) IN
           /\ AtlasTyped(g) /\ AtlasRight(g, n)
           /\ g.capacity = 2 * a.capacity
<1> DEFINE c == a.capacity
           rows == [j \in 0 .. 2 * c - 1 |-> IF j < c THEN a.rows[j] ELSE Empty]
           g == Grown(a, n + 1)
<1>0. c \in Nat \ {0} /\ 2 * c \in Nat \ {0} /\ SpriteCount \in Nat
  BY ClientAssumption DEF AtlasTyped
<1>1. rows \in [0 .. 2 * c - 1 -> 0 .. SpriteCount]
  BY <1>0, SMTT(20) DEF AtlasTyped, Empty
<1>2. Reuploaded(a, n + 1) \in [0 .. 2 * c - 1 -> 0 .. SpriteCount]
  BY <1>0 DEF AtlasTyped, Reuploaded, Undefined
<1>3. \A k \in 1 .. n : rows[k] = k /\ Reuploaded(a, n + 1)[k] = k
  BY <1>0 DEF AtlasRight, Reuploaded
<1>4. rows \in Contents /\ Reuploaded(a, n + 1) \in Contents
  BY <1>0, <1>1, <1>2 DEF Contents
<1>5. g = [a EXCEPT !.capacity = 2 * c, !.rows = rows, !.gpu = Reuploaded(a, n + 1)]
  BY DEF Grown, AtlasTyped
<1>6. /\ g \in [capacity : Nat \ {0}, highest : Nat, allocated : BOOLEAN,
                rows : Contents, gpu : Contents]
      /\ g.capacity = 2 * c /\ g.rows = rows /\ g.gpu = Reuploaded(a, n + 1)
      /\ g.highest = a.highest /\ g.allocated = a.allocated
  <2> HIDE DEF c, rows, g
  <2>1. QED
    BY <1>0, <1>4, <1>5 DEF AtlasTyped
<1>7. g.highest < g.capacity
  BY <1>0, <1>6 DEF AtlasTyped
<1> HIDE DEF c, rows, g
<1>8. AtlasTyped(g)
  BY <1>1, <1>2, <1>6, <1>7 DEF AtlasTyped
<1>9. AtlasRight(g, n)
  BY <1>3, <1>6 DEF AtlasRight
<1>10. QED
  BY <1>6, <1>8, <1>9 DEF g, c

LEMMA StoredTyped ==
    ASSUME NEW B, NEW C,
           NEW a \in [capacity : Nat \ {0}, highest : Nat, allocated : B, rows : C, gpu : C],
           NEW rows \in C, NEW gpu \in C, NEW b \in B, NEW h \in Nat
    PROVE  [a EXCEPT !.rows = rows, !.gpu = gpu, !.allocated = b, !.highest = h]
              \in [capacity : Nat \ {0}, highest : Nat, allocated : B, rows : C, gpu : C]
  OBVIOUS

LEMMA StoredRight ==
    ASSUME NEW a, NEW n \in 0 .. SpriteCount - 1, AtlasTyped(a), AtlasRight(a, n),
           n + 1 < a.capacity
    PROVE  LET s == Stored(a, n + 1, n + 1) IN
           /\ AtlasTyped(s) /\ AtlasRight(s, n + 1)
           /\ s.capacity = a.capacity
<1> DEFINE c == a.capacity
           rows == [a.rows EXCEPT ![n + 1] = n + 1]
           gpu == [a.gpu EXCEPT ![n + 1] = n + 1]
           s == Stored(a, n + 1, n + 1)
<1>0. c \in Nat \ {0} /\ n \in Nat /\ n + 1 \in 0 .. c - 1 /\ n + 1 \in 0 .. SpriteCount
  BY ClientAssumption DEF AtlasTyped
<1>1. rows \in [0 .. c - 1 -> 0 .. SpriteCount] /\ gpu \in [0 .. c - 1 -> 0 .. SpriteCount]
  BY <1>0 DEF AtlasTyped
<1>2. rows \in Contents /\ gpu \in Contents
  BY <1>0, <1>1 DEF Contents
<1>3. \A k \in 1 .. n + 1 : rows[k] = k /\ gpu[k] = k
  BY <1>0 DEF AtlasTyped, AtlasRight
<1>4. s = [a EXCEPT !.rows = rows, !.gpu = gpu, !.allocated = TRUE, !.highest = n + 1]
  <2>1. n + 1 > a.highest
    BY <1>0 DEF AtlasRight
  <2>2. QED
    BY <2>1 DEF Stored, AtlasTyped
<1>5. /\ s \in [capacity : Nat \ {0}, highest : Nat, allocated : BOOLEAN,
                rows : Contents, gpu : Contents]
      /\ s.capacity = c /\ s.rows = rows /\ s.gpu = gpu
      /\ s.highest = n + 1 /\ s.allocated = TRUE
  <2> HIDE DEF rows, gpu, s
  <2>1. s \in [capacity : Nat \ {0}, highest : Nat, allocated : BOOLEAN,
                rows : Contents, gpu : Contents]
    <3>1. n + 1 \in Nat /\ TRUE \in BOOLEAN
      BY <1>0
    <3>2. QED
      BY <1>2, <1>4, <3>1, StoredTyped, Zenon DEF AtlasTyped
  <2>2. s.capacity = c /\ s.rows = rows /\ s.gpu = gpu /\ s.highest = n + 1
    BY <1>0, <1>2, <1>4 DEF AtlasTyped
  <2>3. s.allocated = TRUE
    BY <1>4 DEF AtlasTyped
  <2>4. QED
    BY <2>1, <2>2, <2>3
<1> HIDE DEF rows, gpu, s
<1>6. AtlasTyped(s)
  BY <1>0, <1>1, <1>5 DEF AtlasTyped
<1>7. AtlasRight(s, n + 1)
  BY <1>3, <1>5 DEF AtlasRight
<1>8. QED
  BY <1>5, <1>6, <1>7 DEF s

LEMMA AddedRight ==
    ASSUME NEW a, NEW n \in 0 .. SpriteCount - 1, AtlasTyped(a), AtlasRight(a, n)
    PROVE  LET s == AddDataObject(a, n + 1) IN
           /\ AtlasTyped(s) /\ AtlasRight(s, n + 1)
           /\ s.capacity >= a.capacity
<1>0. n \in Nat /\ NextSlot(a) = n + 1 /\ a.capacity \in Nat \ {0} /\ n + 1 <= a.capacity
  BY ClientAssumption DEF NextSlot, AtlasRight, AtlasTyped
<1>1. CASE Grows(a)
  <2>1. n + 1 = a.capacity
    BY <1>0, <1>1 DEF Grows
  <2> DEFINE g == Grown(a, n + 1)
  <2>2. AtlasTyped(g) /\ AtlasRight(g, n) /\ g.capacity = 2 * a.capacity
    BY <1>0, <2>1, GrownRight
  <2>3. AddDataObject(a, n + 1) = Stored(g, n + 1, n + 1)
    BY <1>0, <1>1 DEF AddDataObject
  <2> HIDE DEF g
  <2>4. n + 1 < g.capacity
    BY <1>0, <2>1, <2>2
  <2>5. g.capacity >= a.capacity
    BY <1>0, <2>2
  <2>6. QED
    BY <2>2, <2>3, <2>4, <2>5, StoredRight
<1>2. CASE ~Grows(a)
  <2>1. n + 1 < a.capacity
    BY <1>0, <1>2 DEF Grows
  <2>2. AddDataObject(a, n + 1) = Stored(a, n + 1, n + 1)
    BY <1>0, <1>2 DEF AddDataObject
  <2>3. QED
    BY <1>0, <2>1, <2>2, StoredRight
<1>3. QED
  BY <1>1, <1>2

-----------------------------------------------------------------------------
(* The calls ahead of the client.                                          *)

\* What OpenGL needs, and no call of Startup drops.
Lasting == {"window", "context", "glew"}

\* Objects of OpenGL are made by calls of OpenGL.
ClientCall ==
    {c \in [makes : SUBSET Resources, drops : SUBSET (Resources \ Lasting),
            gl : BOOLEAN, fail : {"exit", "abort", "never", "crash"}] :
        ~c.gl => c.makes \cap GlObjects = {}}

\* Before a call of OpenGL there are a window, a context and what glewInit loads.
Ready(s, have) ==
    /\ s \in Seq(ClientCall)
    /\ \A r \in Lasting :
          /\ r \in have \/ \E j \in 1 .. Len(s) : r \in s[j].makes
          /\ \A k \in 1 .. Len(s) :
                s[k].gl => r \in have \/ \E j \in 1 .. k - 1 : r \in s[j].makes

\* Startup begins with the calls of InitSdl, of which none is of OpenGL.
BeginsWithSdl(s) ==
    /\ s \in Seq(ClientCall) /\ Len(s) >= 6
    /\ "window" \in s[2].makes /\ "context" \in s[3].makes /\ "glew" \in s[4].makes
    /\ \A k \in 1 .. 4 : ~s[k].gl

LEMMA CallTyped ==
    ASSUME NEW M \in SUBSET Resources, NEW f \in {"exit", "abort", "never", "crash"}
    PROVE  /\ M \cap GlObjects = {} => Call(M, f) \in ClientCall
           /\ GlCall(M, f) \in ClientCall
  BY DEF Call, GlCall, ClientCall

LEMMA FreeTyped ==
    ASSUME NEW D \in SUBSET (Resources \ Lasting)
    PROVE  Free(D) \in ClientCall /\ GlFree(D) \in ClientCall
<1>1. Call({}, "never") \in ClientCall
  BY CallTyped
<1>2. Free(D) \in ClientCall
  BY <1>1 DEF Free, ClientCall
<1>3. QED
  BY <1>2 DEF GlFree, ClientCall

LEMMA StartupReady == Ready(Startup("client"), {})
<1>1. InitSdl \in Seq(ClientCall) /\ BeginsWithSdl(InitSdl)
  <2>1. /\ Call({"sdl"}, "exit") \in ClientCall /\ Call({"window"}, "exit") \in ClientCall
        /\ Call({"context"}, "exit") \in ClientCall /\ Call({"glew"}, "exit") \in ClientCall
        /\ Call({}, "exit") \in ClientCall
    BY CallTyped DEF Resources, GlObjects
  <2>2. InitSdl \in Seq(ClientCall)
    BY <2>1 DEF InitSdl
  <2>3. /\ InitSdl[1] = Call({"sdl"}, "exit") /\ InitSdl[2] = Call({"window"}, "exit")
        /\ InitSdl[3] = Call({"context"}, "exit") /\ InitSdl[4] = Call({"glew"}, "exit")
        /\ Len(InitSdl) = 6
    BY DEF InitSdl
  <2>4. \A M, f : Call(M, f).makes = M /\ ~Call(M, f).gl
    BY DEF Call
  <2>5. QED
    BY <2>2, <2>3, <2>4 DEF BeginsWithSdl
<1>2. SetWorkingDir \in Seq(ClientCall) /\ InitSdlImage \in Seq(ClientCall)
  <2>1. Call({}, "exit") \in ClientCall /\ Call({"image"}, "exit") \in ClientCall
    BY CallTyped DEF Resources, GlObjects
  <2>2. QED
    BY <2>1 DEF SetWorkingDir, InitSdlImage
<1>3. TextureAtlas \in Seq(ClientCall)
  <2>1. CreateTexture \in Seq(ClientCall)
    <3>1. /\ Call({"surface"}, "abort") \in ClientCall /\ Call({}, "abort") \in ClientCall
          /\ GlCall({"texture"}, "never") \in ClientCall /\ Free({"surface"}) \in ClientCall
          /\ Call({}, "crash") \in ClientCall
      BY CallTyped, FreeTyped DEF Resources, GlObjects, Lasting
    <3>2. QED
      BY <3>1 DEF CreateTexture
  <2>2. ASSUME NEW shader \in Resources PROVE LoadShader(shader) \in Seq(ClientCall)
    <3>1. Call({}, "abort") \in ClientCall /\ GlCall({shader}, "abort") \in ClientCall
      BY CallTyped
    <3>2. QED
      BY <3>1 DEF LoadShader
  <2>3. CreateShaderProgram \in Seq(ClientCall)
    <3>1. /\ GlCall({"program"}, "never") \in ClientCall
          /\ GlFree({"vertex", "fragment"}) \in ClientCall /\ GlCall({}, "abort") \in ClientCall
      BY CallTyped, FreeTyped DEF Resources, GlObjects, Lasting
    <3>2. LoadShader("vertex") \in Seq(ClientCall) /\ LoadShader("fragment") \in Seq(ClientCall)
      BY <2>2 DEF Resources, GlObjects
    <3>3. QED
      BY <3>1, <3>2 DEF CreateShaderProgram
  <2>4. GlCall({"buffer", "vertex_array"}, "never") \in ClientCall
        /\ GlCall({}, "abort") \in ClientCall
    BY CallTyped DEF Resources, GlObjects
  <2>5. QED
    BY <2>1, <2>3, <2>4 DEF TextureAtlas
<1>4. ASSUME NEW s, NEW t \in Seq(ClientCall), BeginsWithSdl(s) PROVE BeginsWithSdl(s \o t)
  <2>1. /\ s \o t \in Seq(ClientCall) /\ Len(s \o t) = Len(s) + Len(t)
        /\ \A k \in 1 .. Len(s) : (s \o t)[k] = s[k]
    BY <1>4, ConcatProperties DEF BeginsWithSdl
  <2>2. Len(s) \in Nat /\ Len(t) \in Nat
    BY <1>4 DEF BeginsWithSdl
  <2>3. QED
    BY <1>4, <2>1, <2>2 DEF BeginsWithSdl
<1>5. BeginsWithSdl(Startup("client"))
  BY <1>1, <1>2, <1>3, <1>4 DEF Startup
<1>6. QED
  <2> DEFINE s == Startup("client")
  <2> HIDE DEF s
  <2>1. ASSUME BeginsWithSdl(s) PROVE Ready(s, {})
    BY <2>1 DEF BeginsWithSdl, Ready, Lasting
  <2>2. QED
    BY <1>5, <2>1 DEF s

\* The next call is made.
LEMMA ReadyNext ==
    ASSUME NEW s, NEW have, Ready(s, have), s # <<>>
    PROVE  /\ Head(s).gl => Lasting \subseteq have
           /\ Head(s) \in ClientCall
           /\ Ready(Tail(s), (have \cup Head(s).makes) \ Head(s).drops)
<1> DEFINE now == (have \cup Head(s).makes) \ Head(s).drops
<1>1. /\ s \in Seq(ClientCall) /\ Len(s) \in Nat \ {0} /\ Head(s) = s[1]
      /\ Tail(s) \in Seq(ClientCall) /\ Len(Tail(s)) = Len(s) - 1
      /\ \A k \in 1 .. Len(s) - 1 : Tail(s)[k] = s[k + 1]
  BY DEF Ready
<1>2. s[1] \in ClientCall
  BY <1>1
<1>3. ASSUME NEW r \in Lasting
      PROVE  r \notin s[1].drops
  BY <1>2 DEF ClientCall
<1>4. ASSUME NEW r \in Lasting, NEW j \in 1 .. Len(s), r \in s[j].makes
      PROVE  r \in now \/ (j - 1 \in 1 .. Len(Tail(s)) /\ r \in Tail(s)[j - 1].makes)
  <2>1. CASE j = 1
    BY <1>1, <1>3, <1>4, <2>1
  <2>2. CASE j # 1
    BY <1>1, <1>4, <2>2
  <2>3. QED
    BY <2>1, <2>2
<1>5. ASSUME NEW r \in Lasting
      PROVE  r \in now \/ \E j \in 1 .. Len(Tail(s)) : r \in Tail(s)[j].makes
  BY <1>1, <1>3, <1>4 DEF Ready
<1>6. ASSUME NEW r \in Lasting, NEW k \in 1 .. Len(Tail(s)), Tail(s)[k].gl
      PROVE  r \in now \/ \E j \in 1 .. k - 1 : r \in Tail(s)[j].makes
  <2>1. k + 1 \in 1 .. Len(s) /\ s[k + 1].gl
    BY <1>1, <1>6
  <2>2. CASE r \in have
    BY <1>1, <1>3, <2>2
  <2>3. CASE \E j \in 1 .. k : r \in s[j].makes
    <3>1. PICK j \in 1 .. k : r \in s[j].makes
      BY <2>3
    <3>2. j \in 1 .. Len(s)
      BY <1>1
    <3>3. r \in now \/ (j - 1 \in 1 .. Len(Tail(s)) /\ r \in Tail(s)[j - 1].makes)
      BY <1>4, <3>1, <3>2
    <3>4. QED
      BY <3>3
  <2>4. QED
    BY <2>1, <2>2, <2>3 DEF Ready
<1>7. Head(s).gl => Lasting \subseteq have
  BY <1>1 DEF Ready
<1> HIDE DEF now
<1>8. Ready(Tail(s), now)
  BY <1>1, <1>5, <1>6 DEF Ready
<1>9. QED
  BY <1>1, <1>2, <1>7, <1>8 DEF now

-----------------------------------------------------------------------------
(* The client between its steps.                                           *)

SpritesRight ==
    /\ sprites \in Seq(1 .. SpriteCount) /\ Len(sprites) <= SpriteCount
    /\ \A j, k \in 1 .. Len(sprites) : sprites[j] = sprites[k] => j = k
    /\ AtlasTyped(atlas) /\ firstCapacity \in Nat /\ atlas.capacity >= firstCapacity
    /\ pc \in {"starting", "sprites", "loop"} =>
        /\ AtlasRight(atlas, Len(sprites))
        /\ \A k \in 1 .. Len(sprites) : sprites[k] = k

CallsRight ==
    /\ program \in {"client", "sdl_main"}
    /\ pc \in {"starting", "sprites", "loop", "deleting", "closing", "ended", "exit(1)",
               "aborted", "crashed"}
    /\ program = "sdl_main" => pc \notin {"sprites", "deleting"}
    /\ program = "client" =>
        /\ pc = "starting" => Ready(calls, up)
        /\ pc \in {"sprites", "loop", "deleting"} => GlWorks
        /\ pc = "closing" => calls \in Seq({c \in {Free(D) : D \in SUBSET Resources} : ~c.gl})

TimersRight ==
    /\ time \in Nat
    /\ timers \in [{"fps", "other"} -> Timer] /\ ran \in [{"fps", "other"} -> Nat]
    /\ \A t \in {"fps", "other"} : TimerRight(timers[t], ran[t], time)

IInv == SpritesRight /\ CallsRight /\ TimersRight /\ CrashesAreExplained

LEMMA InitIInv == Init => IInv
<1> SUFFICES ASSUME Init PROVE IInv
  OBVIOUS
<1>1. SpritesRight
  <2>1. PICK garbage \in BOOLEAN : atlas = NewAtlas(firstCapacity, garbage)
    BY DEF Init
  <2>2. firstCapacity \in Nat \ {0} /\ sprites = <<>>
    BY ClientAssumption DEF Init
  <2>3. AtlasTyped(atlas) /\ AtlasRight(atlas, 0)
    BY <2>1, <2>2, NewAtlasRight
  <2>4. atlas.capacity = firstCapacity
    BY <2>1 DEF NewAtlas
  <2>5. QED
    BY <2>2, <2>3, <2>4, ClientAssumption DEF SpritesRight
<1>2. CallsRight
  BY StartupReady DEF Init, CallsRight
<1>3. TimersRight
  <2>1. time = 0 /\ timers = [t \in {"fps", "other"} |-> NewTimer]
        /\ ran = [t \in {"fps", "other"} |-> 0]
    BY DEF Init
  <2>2. TimerRight(NewTimer, 0, 0) /\ NewTimer \in Timer
    BY NewTimerRight DEF TimerRight
  <2>3. QED
    BY <2>1, <2>2 DEF TimersRight
<1>4. CrashesAreExplained
  BY DEF Init, CrashesAreExplained
<1>5. QED
  BY <1>1, <1>2, <1>3, <1>4 DEF IInv

-----------------------------------------------------------------------------
(* Steps.                                                                  *)

\* Where the sprites and the atlas stay, and the slots are known no better.
LEMMA SpritesStay ==
    ASSUME SpritesRight, UNCHANGED <<sprites, atlas, firstCapacity>>,
           pc' \in {"starting", "sprites", "loop"} => pc \in {"starting", "sprites", "loop"}
    PROVE  SpritesRight'
  BY DEF SpritesRight

LEMMA NewSpriteKeeps ==
    ASSUME SpritesRight, NewSprite
    PROVE  SpritesRight'
<1> DEFINE n == Len(sprites)
           k == n + 1
<1>1. /\ n \in 0 .. SpriteCount - 1 /\ sprites \in Seq(1 .. SpriteCount) /\ pc = "sprites"
      /\ k \in 1 .. SpriteCount
  BY ClientAssumption DEF NewSprite, SpritesRight
<1>2. AtlasTyped(atlas) /\ AtlasRight(atlas, n) /\ firstCapacity' = firstCapacity
  BY <1>1 DEF SpritesRight, NewSprite
<1>3. CASE UNCHANGED <<atlas, sprites>>
  BY <1>1, <1>2, <1>3, SpritesStay
<1>4. CASE atlas' = AddDataObject(atlas, k) /\ sprites' = Append(sprites, NextSlot(atlas))
  <2>1. NextSlot(atlas) = k
    BY <1>2 DEF NextSlot, AtlasRight
  <2>2. /\ AtlasTyped(atlas') /\ AtlasRight(atlas', k)
        /\ atlas'.capacity >= atlas.capacity
    <3> HIDE DEF n
    <3>1. QED
      BY <1>1, <1>2, <1>4, AddedRight
  <2>3. atlas'.capacity >= firstCapacity
    <3>1. /\ atlas.capacity \in Nat /\ atlas'.capacity \in Nat
          /\ atlas.capacity >= firstCapacity
      BY <1>2, <2>2 DEF AtlasTyped, SpritesRight
    <3>2. firstCapacity \in Int
      BY DEF SpritesRight
    <3>3. QED
      BY <2>2, <3>1, <3>2
  <2>4. /\ sprites' \in Seq(1 .. SpriteCount) /\ Len(sprites') = k
        /\ \A j \in 1 .. n : sprites'[j] = sprites[j]
        /\ sprites'[k] = k
    BY <1>1, <1>4, <2>1
  <2>5. \A j \in 1 .. Len(sprites') : sprites'[j] = j
    BY <1>1, <2>4 DEF SpritesRight
  <2>6. QED
    BY <1>1, <1>2, <2>2, <2>3, <2>4, <2>5 DEF SpritesRight
<1>5. QED
  BY <1>3, <1>4 DEF NewSprite

LEMMA DeleteSpriteKeeps ==
    ASSUME SpritesRight, DeleteSprite
    PROVE  SpritesRight'
<1>1. pc = "deleting" /\ pc' \in {"deleting", "aborted"} /\ UNCHANGED <<atlas, firstCapacity>>
  BY DEF DeleteSprite
<1>2. CASE sprites' = sprites
  BY <1>1, <1>2, SpritesStay
<1>3. CASE sprites' = Tail(sprites) /\ sprites # <<>>
  <2>1. /\ sprites' \in Seq(1 .. SpriteCount) /\ Len(sprites') = Len(sprites) - 1
        /\ \A j \in 1 .. Len(sprites) - 1 : sprites'[j] = sprites[j + 1]
        /\ Len(sprites) \in Nat
    BY <1>3 DEF SpritesRight
  <2>2. Len(sprites') <= SpriteCount
    BY <2>1, ClientAssumption DEF SpritesRight
  <2>3. ASSUME NEW i \in 1 .. Len(sprites'), NEW j \in 1 .. Len(sprites'),
               sprites'[i] = sprites'[j]
        PROVE  i = j
    <3>1. i + 1 \in 1 .. Len(sprites) /\ j + 1 \in 1 .. Len(sprites)
      BY <2>1
    <3>2. sprites[i + 1] = sprites[j + 1]
      BY <2>1, <2>3
    <3>3. i + 1 = j + 1
      BY <3>1, <3>2 DEF SpritesRight
    <3>4. QED
      BY <3>3, <2>1
  <2>4. QED
    BY <1>1, <2>1, <2>2, <2>3 DEF SpritesRight
<1>4. QED
  BY <1>2, <1>3 DEF DeleteSprite

LEMMA SpritesStep == SpritesRight /\ [Next]_vars => SpritesRight'
<1> SUFFICES ASSUME SpritesRight, [Next]_vars PROVE SpritesRight'
  OBVIOUS
<1>1. CASE NewSprite
  BY <1>1, NewSpriteKeeps
<1>2. CASE DeleteSprite
  BY <1>2, DeleteSpriteKeeps
<1>3. CASE Next /\ ~NewSprite /\ ~DeleteSprite
  <2>1. UNCHANGED <<sprites, atlas, firstCapacity>>
    BY <1>3, Zenon DEF Next, CallSucceeds, CallCrashes, CallFails, StartupDone, LoopStarts,
       PollQuit, HandleKeys, Frame, ReleaseAtlas, Ended, ClockTicks, OtherTimer, Other,
       programVars, atlasVars
  <2>2. pc' \in {"starting", "sprites", "loop"} => pc \in {"starting", "sprites", "loop"}
    BY <1>3 DEF Next, CallSucceeds, CallCrashes, CallFails, StartupDone, LoopStarts,
       PollQuit, HandleKeys, Frame, ReleaseAtlas, Ended, ClockTicks, OtherTimer, Other,
       programVars, atlasVars
  <2>3. QED
    BY <2>1, <2>2, SpritesStay
<1>4. CASE UNCHANGED vars
  BY <1>4, SpritesStay DEF vars, programVars, atlasVars
<1>5. QED
  BY <1>1, <1>2, <1>3, <1>4

\* Of the calls that the client makes when it closes none is of OpenGL.
LEMMA CloseClientPlain ==
    CloseClient \in Seq({c \in {Free(D) : D \in SUBSET Resources} : ~c.gl})
<1>1. \A D \in SUBSET Resources : ~Free(D).gl
  BY DEF Free, Call
<1>2. /\ Free({"window"}) \in {c \in {Free(D) : D \in SUBSET Resources} : ~c.gl}
      /\ Free({"image"}) \in {c \in {Free(D) : D \in SUBSET Resources} : ~c.gl}
      /\ Free({"sdl"}) \in {c \in {Free(D) : D \in SUBSET Resources} : ~c.gl}
  BY <1>1 DEF Resources
<1>3. QED
  BY <1>2 DEF CloseClient

LEMMA CallsStep == CallsRight /\ [Next]_vars => CallsRight'
<1> SUFFICES ASSUME CallsRight, [Next]_vars PROVE CallsRight'
  OBVIOUS
<1> DEFINE Plain == {c \in {Free(D) : D \in SUBSET Resources} : ~c.gl}
<1>1. CASE CallSucceeds
  <2> DEFINE c == Head(calls)
  <2>1. /\ pc \in {"starting", "closing"} /\ calls # <<>> /\ UNCHANGED <<program, pc>>
        /\ up' = (up \cup c.makes) \ c.drops /\ calls' = Tail(calls)
    BY <1>1 DEF CallSucceeds
  <2>2. ASSUME program = "client", pc = "starting" PROVE Ready(calls', up')
    <3>1. Ready(calls, up)
      BY <2>2 DEF CallsRight
    <3>2. QED
      BY <2>1, <3>1, ReadyNext
  <2>3. ASSUME program = "client", pc = "closing" PROVE calls' \in Seq(Plain)
    <3>1. calls \in Seq(Plain)
      BY <2>3 DEF CallsRight
    <3> HIDE DEF Plain
    <3>2. Tail(calls) \in Seq(Plain)
      BY <2>1, <3>1
    <3>3. QED
      BY <2>1, <3>2
  <2> HIDE DEF c, Plain
  <2>4. QED
    BY <2>1, <2>2, <2>3 DEF CallsRight, Plain
<1>2. CASE CallCrashes \/ CallFails
  <2> DEFINE c == Head(calls)
  <2>1. /\ calls # <<>> /\ UNCHANGED <<program, up>>
        /\ \/ pc' \in {"crashed", "exit(1)", "aborted"}
           \/ pc = "starting" /\ c.fail \in {"close", "ignore"} /\ pc' \in {"closing", "starting"}
    BY <1>2 DEF CallCrashes, CallFails
  <2>2. ASSUME program = "client", pc = "starting"
        PROVE  c.fail \in {"exit", "abort", "never", "crash"}
    <3>1. Ready(calls, up)
      BY <2>2 DEF CallsRight
    <3>2. c \in ClientCall
      BY <2>1, <3>1, ReadyNext
    <3>3. QED
      BY <3>2 DEF ClientCall
  <2> HIDE DEF c
  <2>3. QED
    BY <2>1, <2>2 DEF CallsRight
<1>3. CASE StartupDone
  <2>1. /\ pc = "starting" /\ calls = <<>> /\ UNCHANGED <<program, up>>
        /\ program = "client" => pc' = "sprites"
        /\ program # "client" => pc' = "loop"
    BY <1>3 DEF StartupDone
  <2>2. ASSUME program = "client" PROVE GlWorks
    BY <2>1, <2>2 DEF CallsRight, Ready, GlWorks, Lasting
  <2>3. QED
    BY <2>1, <2>2 DEF CallsRight, GlWorks
<1>4. CASE NewSprite
  <2>1. pc = "sprites" /\ pc' \in {"sprites", "crashed", "aborted"} /\ UNCHANGED <<program, up>>
    BY <1>4 DEF NewSprite
  <2>2. QED
    BY <2>1 DEF CallsRight, GlWorks
<1>5. CASE LoopStarts
  <2>1. pc = "sprites" /\ pc' = "loop" /\ UNCHANGED <<program, up>>
    BY <1>5 DEF LoopStarts
  <2>2. QED
    BY <2>1 DEF CallsRight, GlWorks
<1>6. CASE Frame
  <2>1. /\ pc = "loop" /\ UNCHANGED <<program, up>>
        /\ program = "client" => pc' \in {"loop", "deleting"}
        /\ program # "client" => pc' \in {"loop", "closing"}
    BY <1>6 DEF Frame
  <2>2. QED
    BY <2>1 DEF CallsRight, GlWorks
<1>7. CASE DeleteSprite
  <2>1. pc = "deleting" /\ pc' \in {"deleting", "aborted"} /\ UNCHANGED <<program, up>>
    BY <1>7 DEF DeleteSprite
  <2>2. QED
    BY <2>1 DEF CallsRight, GlWorks
<1>8. CASE ReleaseAtlas
  <2>1. pc = "deleting" /\ pc' \in {"closing", "crashed"} /\ program' = program
        /\ calls' = CloseClient
    BY <1>8 DEF ReleaseAtlas
  <2> HIDE DEF Plain
  <2>2. QED
    BY <2>1, CloseClientPlain DEF CallsRight
<1>9. CASE Ended
  BY <1>9 DEF Ended, CallsRight
<1>10. CASE PollQuit \/ HandleKeys \/ ClockTicks \/ OtherTimer \/ UNCHANGED vars
  <2>1. UNCHANGED programVars
    BY <1>10, Zenon DEF PollQuit, HandleKeys, ClockTicks, OtherTimer, Other, vars
  <2>2. QED
    BY <2>1 DEF programVars, CallsRight, GlWorks
<1>11. QED
  BY <1>1, <1>2, <1>3, <1>4, <1>5, <1>6, <1>7, <1>8, <1>9, <1>10 DEF Next

(* The client crashes where a row is empty, and only an atlas that was too *)
(* small for the sprites at first is ever grown.                           *)
LEMMA CrashesStep ==
    SpritesRight /\ CallsRight /\ CrashesAreExplained /\ [Next]_vars => CrashesAreExplained'
<1> SUFFICES ASSUME SpritesRight, CallsRight, CrashesAreExplained, [Next]_vars
             PROVE  CrashesAreExplained'
  OBVIOUS
<1>1. CASE CallCrashes
  <2>1. /\ pc \in {"starting", "closing"} /\ calls # <<>> /\ Head(calls).gl /\ ~GlWorks
        /\ UNCHANGED <<program, up, firstCapacity>>
    BY <1>1 DEF CallCrashes
  <2>2. ASSUME program = "client", pc = "starting" PROVE FALSE
    <3>1. Ready(calls, up)
      BY <2>2 DEF CallsRight
    <3>2. QED
      BY <2>1, <3>1, ReadyNext DEF GlWorks, Lasting
  <2>3. ASSUME program = "client", pc = "closing" PROVE FALSE
    <3> DEFINE Plain == {c \in {Free(D) : D \in SUBSET Resources} : ~c.gl}
    <3>1. calls \in Seq(Plain)
      BY <2>3 DEF CallsRight
    <3> HIDE DEF Plain
    <3>2. Head(calls) \in Plain
      BY <2>1, <3>1
    <3>3. QED
      BY <2>1, <3>2 DEF Plain
  <2>4. program = "sdl_main"
    BY <2>1, <2>2, <2>3 DEF CallsRight
  <2>5. QED
    BY <2>1, <2>4 DEF CrashesAreExplained, GlWorks
<1>2. CASE NewSprite
  <2>1. /\ pc = "sprites" /\ Len(sprites) + 1 <= SpriteCount
        /\ pc' = "crashed" => Grows(atlas)
        /\ UNCHANGED <<program, up, firstCapacity>>
    BY <1>2 DEF NewSprite, ReadsNull
  <2>2. program = "client"
    BY <2>1 DEF CallsRight
  <2>3. ASSUME Grows(atlas) PROVE firstCapacity <= SpriteCount
    <3>1. /\ atlas.highest = Len(sprites) /\ Len(sprites) \in Nat
          /\ atlas.capacity = Len(sprites) + 1
      BY <2>1, <2>3 DEF SpritesRight, AtlasRight, Grows, NextSlot
    <3>2. firstCapacity \in Nat /\ atlas.capacity >= firstCapacity
      BY DEF SpritesRight
    <3>3. QED
      BY <2>1, <3>1, <3>2, ClientAssumption
  <2>4. QED
    BY <2>1, <2>2, <2>3 DEF CrashesAreExplained
<1>3. CASE ReleaseAtlas
  <2>1. pc = "deleting" /\ pc' = IF GlWorks THEN "closing" ELSE "crashed"
    BY <1>3 DEF ReleaseAtlas
  <2>2. GlWorks
    BY <2>1 DEF CallsRight
  <2>3. QED
    BY <2>1, <2>2 DEF CrashesAreExplained
<1>4. CASE CallSucceeds \/ StartupDone \/ LoopStarts \/ Frame \/ DeleteSprite
            \/ Ended
  <2>1. pc' # "crashed"
    BY <1>4 DEF CallSucceeds, StartupDone, LoopStarts, Frame, DeleteSprite, Ended
  <2>2. QED
    BY <2>1 DEF CrashesAreExplained
<1>5. CASE PollQuit \/ HandleKeys \/ ClockTicks \/ OtherTimer \/ UNCHANGED vars
  <2>1. UNCHANGED programVars
    BY <1>5, Zenon DEF PollQuit, HandleKeys, ClockTicks, OtherTimer, Other, vars
  <2>2. QED
    BY <2>1 DEF programVars, CrashesAreExplained, GlWorks
<1>6. CASE CallFails
  <2> DEFINE c == Head(calls)
  <2>1. /\ pc = "starting" /\ calls # <<>> /\ UNCHANGED program
        /\ pc' = "crashed" => c.fail = "crash" /\ calls' = calls
    BY <1>6 DEF CallFails
  <2>2. QED
    BY <2>1 DEF CrashesAreExplained
<1>7. QED
  BY <1>1, <1>2, <1>3, <1>4, <1>5, <1>6 DEF Next

LEMMA TimersStep == TimersRight /\ [Next]_vars => TimersRight'
<1> SUFFICES ASSUME TimersRight, [Next]_vars PROVE TimersRight'
  OBVIOUS
<1> DEFINE Names == {"fps", "other"}
<1>0. /\ time \in Nat /\ timers \in [Names -> Timer] /\ ran \in [Names -> Nat]
      /\ \A t \in Names : TimerRight(timers[t], ran[t], time)
  BY DEF TimersRight
<1>1. ASSUME NEW n \in Names, NEW tm, NEW r, TimerRight(tm, r, time),
             timers' = [timers EXCEPT ![n] = tm], ran' = [ran EXCEPT ![n] = r], time' = time
      PROVE  TimersRight'
  <2>1. tm \in Timer /\ r \in Nat
    BY <1>1 DEF TimerRight
  <2>2. timers' \in [Names -> Timer] /\ ran' \in [Names -> Nat]
    BY <1>0, <1>1, <2>1
  <2>3. \A t \in Names : TimerRight(timers'[t], ran'[t], time')
    <3>1. \A t \in Names : /\ timers'[t] = (IF t = n THEN tm ELSE timers[t])
                           /\ ran'[t] = (IF t = n THEN r ELSE ran[t])
      BY <1>0, <1>1
    <3>2. QED
      BY <1>0, <1>1, <3>1
  <2>4. QED
    BY <1>0, <1>1, <2>2, <2>3 DEF TimersRight
<1>2. CASE UNCHANGED timeVars
  BY <1>2 DEF timeVars, TimersRight
<1>3. ASSUME FpsTimerStart PROVE TimersRight'
  <2>1. TimerRight(Started(timers["fps"], Now), 0, time)
    BY <1>0, StartedRight DEF Now
  <2>2. QED
    BY <1>1, <1>3, <2>1 DEF FpsTimerStart
<1>4. CASE ClockTicks
  <2>1. /\ time' = time + 1 /\ timers' = timers
        /\ ran' = [t \in Names |-> IF Running(timers[t]) THEN ran[t] + 1 ELSE ran[t]]
    BY <1>0, <1>4 DEF ClockTicks
  <2>2. ASSUME NEW t \in Names PROVE TimerRight(timers'[t], ran'[t], time')
    BY <1>0, <2>1, TickRight
  <2>3. ran' \in [Names -> Nat]
    BY <1>0, <2>1
  <2>4. QED
    BY <1>0, <2>1, <2>2, <2>3 DEF TimersRight
<1>5. CASE OtherTimer
  <2> DEFINE t == timers["other"]
  <2>0. TimerRight(t, ran["other"], time)
    BY <1>0
  <2>1. ASSUME NEW tm, NEW r, TimerRight(tm, r, time), Other(tm, r) PROVE TimersRight'
    BY <1>1, <2>1 DEF Other
  <2>2. /\ TimerRight(Started(t, Now), 0, time) /\ TimerRight(Stopped(t, Now), 0, time)
        /\ TimerRight(Paused(t, Now), ran["other"], time)
        /\ TimerRight(Unpaused(t, Now), ran["other"], time)
    BY <1>0, <2>0, StartedRight, NewTimerRight, PausedRight, UnpausedRight DEF Now, Stopped
  <2>3. QED
    BY <1>5, <2>1, <2>2 DEF OtherTimer
<1>6. CASE CallSucceeds \/ CallCrashes \/ CallFails \/ StartupDone \/ NewSprite \/ PollQuit
            \/ HandleKeys \/ DeleteSprite \/ ReleaseAtlas \/ Ended \/ UNCHANGED vars
  <2>1. UNCHANGED timeVars
    BY <1>6, Zenon DEF CallSucceeds, CallCrashes, CallFails, StartupDone, NewSprite, PollQuit,
       HandleKeys, DeleteSprite, ReleaseAtlas, Ended, vars
  <2>2. QED
    BY <1>2, <2>1
<1>7. CASE LoopStarts \/ Frame
  <2>1. FpsTimerStart \/ UNCHANGED timeVars
    BY <1>7, Zenon DEF LoopStarts, Frame, FrameRate
  <2>2. QED
    BY <1>2, <1>3, <2>1
<1>8. QED
  BY <1>4, <1>5, <1>6, <1>7 DEF Next

-----------------------------------------------------------------------------
LEMMA Kept == Spec => []IInv
<1>1. IInv /\ [Next]_vars => IInv'
  BY SpritesStep, CallsStep, TimersStep, CrashesStep DEF IInv
<1>2. QED
  BY InitIInv, <1>1, PTL DEF Spec

(* However many sprites there are and however small the atlas was at first, *)
(* every sprite has its slot, and its vertices are in what is drawn.       *)
THEOREM SpritesAreDrawn == Spec => []EverySpriteIsDrawn
<1>1. IInv => EverySpriteIsDrawn
  <2> SUFFICES ASSUME SpritesRight PROVE EverySpriteIsDrawn
    BY DEF IInv
  <2> DEFINE n == Len(sprites)
  <2>1. n \in Nat /\ \A j, k \in 1 .. n : sprites[j] = sprites[k] => j = k
    BY DEF SpritesRight
  <2>2. ASSUME pc \in {"sprites", "loop"}
        PROVE  /\ \A k \in 1 .. n : atlas.gpu[sprites[k]] = k
               /\ 1 .. n \subseteq Drawn(atlas)
    <3>1. AtlasRight(atlas, n) /\ \A k \in 1 .. n : sprites[k] = k
      BY <2>2 DEF SpritesRight
    <3>2. \A k \in 1 .. n : atlas.gpu[sprites[k]] = k
      BY <3>1 DEF AtlasRight
    <3>3. ASSUME NEW k \in 1 .. n PROVE k \in Drawn(atlas)
      <4>1. atlas.allocated /\ k \in 0 .. atlas.highest /\ atlas.gpu[k] = k
        BY <2>1, <3>1 DEF AtlasRight
      <4>2. QED
        BY <4>1 DEF Drawn
    <3>4. QED
      BY <3>2, <3>3
  <2> HIDE DEF n
  <2>3. QED
    BY <2>1, <2>2 DEF EverySpriteIsDrawn, n
<1>2. QED
  BY <1>1, Kept, PTL

(* A client crashes only with an atlas that had at first no more slots than*)
(* it has sprites, and where it reads the surface it has freed; sdl_main   *)
(* only without a window, a context or glewInit.                           *)
THEOREM CrashesExplained == Spec => []CrashesAreExplained
<1>1. IInv => CrashesAreExplained
  BY DEF IInv
<1>2. QED
  BY <1>1, Kept, PTL

(* A timer tells the milliseconds it ran, modulo the width of the ticks,   *)
(* however often the clock wrapped and the timer was paused.               *)
THEOREM TimersTellTheTime == Spec => []TicksAreElapsedTime
<1>1. IInv => TicksAreElapsedTime
  <2> SUFFICES ASSUME TimersRight, NEW t \in DOMAIN timers
               PROVE  GetTicks(timers[t], Now) = ran[t] % Wrap
    BY DEF IInv, TicksAreElapsedTime
  <2>1. time \in Nat /\ TimerRight(timers[t], ran[t], time)
    BY DEF TimersRight
  <2>2. QED
    BY <2>1, TicksOfRight DEF Now
<1>2. QED
  BY <1>1, Kept, PTL


-----------------------------------------------------------------------------
(* What the client has acquired, and what the calls ahead make of it.      *)

Temporary == {"surface", "vertex", "fragment"}

\* Of these, but for the ones in debt, the calls drop whatever they make.
Tidy(s, debt) ==
    \A r \in Temporary \ debt : \A j \in 1 .. Len(s) :
        r \in s[j].makes => \E k \in j + 1 .. Len(s) : r \in s[k].drops

MakesTexture(s) == \E j \in 1 .. Len(s) : "texture" \in s[j].makes

LEMMA TidyConcat ==
    ASSUME NEW s \in Seq(ClientCall), NEW t \in Seq(ClientCall), NEW debt,
           Tidy(s, debt), Tidy(t, debt)
    PROVE  Tidy(s \o t, debt)
<1>1. /\ Len(s \o t) = Len(s) + Len(t) /\ Len(s) \in Nat /\ Len(t) \in Nat
      /\ \A k \in 1 .. Len(s) : (s \o t)[k] = s[k]
      /\ \A k \in 1 .. Len(t) : (s \o t)[Len(s) + k] = t[k]
  BY ConcatProperties
<1>2. SUFFICES ASSUME NEW r \in Temporary \ debt, NEW j \in 1 .. Len(s) + Len(t),
                      r \in (s \o t)[j].makes
               PROVE  \E k \in j + 1 .. Len(s) + Len(t) : r \in (s \o t)[k].drops
  BY <1>1 DEF Tidy
<1>3. CASE j <= Len(s)
  <2>1. PICK k \in j + 1 .. Len(s) : r \in s[k].drops
    BY <1>1, <1>2, <1>3 DEF Tidy
  <2>2. QED
    BY <1>1, <2>1
<1>4. CASE j > Len(s)
  <2>1. j - Len(s) \in 1 .. Len(t) /\ j = Len(s) + (j - Len(s))
    BY <1>1, <1>4
  <2>2. r \in t[j - Len(s)].makes
    BY <1>1, <1>2, <2>1
  <2>3. PICK k \in (j - Len(s)) + 1 .. Len(t) : r \in t[k].drops
    BY <2>1, <2>2 DEF Tidy
  <2>4. Len(s) + k \in j + 1 .. Len(s) + Len(t) /\ (s \o t)[Len(s) + k] = t[k]
    BY <1>1, <1>4, <2>3
  <2>5. QED
    BY <2>3, <2>4
<1>5. QED
  BY <1>1, <1>3, <1>4

\* The calls that come after pay the debt.
LEMMA TidyPays ==
    ASSUME NEW s \in Seq(ClientCall), NEW t \in Seq(ClientCall), NEW debt,
           Tidy(s, debt), Tidy(t, {}),
           \A r \in debt : \E k \in 1 .. Len(t) : r \in t[k].drops
    PROVE  Tidy(s \o t, {})
<1>1. /\ Len(s \o t) = Len(s) + Len(t) /\ Len(s) \in Nat /\ Len(t) \in Nat
      /\ \A k \in 1 .. Len(s) : (s \o t)[k] = s[k]
      /\ \A k \in 1 .. Len(t) : (s \o t)[Len(s) + k] = t[k]
  BY ConcatProperties
<1>2. Tidy(t, debt)
  BY DEF Tidy
<1>3. Tidy(s \o t, debt)
  BY <1>2, TidyConcat
<1>4. ASSUME NEW r \in Temporary, r \in debt, NEW j \in 1 .. Len(s) + Len(t),
             r \in (s \o t)[j].makes
      PROVE  \E k \in j + 1 .. Len(s) + Len(t) : r \in (s \o t)[k].drops
  <2>1. CASE j <= Len(s)
    <3>1. PICK k \in 1 .. Len(t) : r \in t[k].drops
      BY <1>4
    <3>2. Len(s) + k \in j + 1 .. Len(s) + Len(t) /\ (s \o t)[Len(s) + k] = t[k]
      BY <1>1, <2>1
    <3>3. QED
      BY <3>1, <3>2
  <2>2. CASE j > Len(s)
    <3>1. j - Len(s) \in 1 .. Len(t) /\ j = Len(s) + (j - Len(s))
      BY <1>1, <2>2
    <3>2. r \in t[j - Len(s)].makes
      BY <1>1, <1>4, <3>1
    <3>3. PICK k \in (j - Len(s)) + 1 .. Len(t) : r \in t[k].drops
      BY <3>1, <3>2 DEF Tidy
    <3>4. Len(s) + k \in j + 1 .. Len(s) + Len(t) /\ (s \o t)[Len(s) + k] = t[k]
      BY <1>1, <2>2, <3>3
    <3>5. QED
      BY <3>3, <3>4
  <2>3. QED
    BY <1>1, <2>1, <2>2
<1>5. ASSUME NEW r \in Temporary, r \notin debt, NEW j \in 1 .. Len(s) + Len(t),
             r \in (s \o t)[j].makes
      PROVE  \E k \in j + 1 .. Len(s) + Len(t) : r \in (s \o t)[k].drops
  BY <1>1, <1>3, <1>5 DEF Tidy
<1>6. QED
  BY <1>1, <1>4, <1>5 DEF Tidy

LEMMA TextureConcat ==
    ASSUME NEW s \in Seq(ClientCall), NEW t \in Seq(ClientCall),
           MakesTexture(s) \/ MakesTexture(t)
    PROVE  MakesTexture(s \o t)
<1>1. /\ Len(s \o t) = Len(s) + Len(t) /\ Len(s) \in Nat /\ Len(t) \in Nat
      /\ \A k \in 1 .. Len(s) : (s \o t)[k] = s[k]
      /\ \A k \in 1 .. Len(t) : (s \o t)[Len(s) + k] = t[k]
  BY ConcatProperties
<1>2. CASE MakesTexture(s)
  BY <1>1, <1>2 DEF MakesTexture
<1>3. CASE MakesTexture(t)
  <2>1. PICK k \in 1 .. Len(t) : "texture" \in t[k].makes
    BY <1>3 DEF MakesTexture
  <2>2. Len(s) + k \in 1 .. Len(s) + Len(t) /\ (s \o t)[Len(s) + k] = t[k]
    BY <1>1
  <2>3. QED
    BY <1>1, <2>1, <2>2 DEF MakesTexture
<1>4. QED
  BY <1>2, <1>3

\* What the parts of Startup are made of.
LEMMA CallFields ==
    /\ \A M, f : Call(M, f).makes = M /\ Call(M, f).drops = {}
    /\ \A M, f : GlCall(M, f).makes = M /\ GlCall(M, f).drops = {}
    /\ \A D : Free(D).makes = {} /\ Free(D).drops = D
    /\ \A D : GlFree(D).makes = {} /\ GlFree(D).drops = D
  BY DEF Call, GlCall, Free, GlFree

LEMMA StartupTidy == Tidy(Startup("client"), {}) /\ MakesTexture(Startup("client"))
<1>1. InitSdl \in Seq(ClientCall) /\ Tidy(InitSdl, {})
  <2>1. /\ Call({"sdl"}, "exit") \in ClientCall /\ Call({"window"}, "exit") \in ClientCall
        /\ Call({"context"}, "exit") \in ClientCall /\ Call({"glew"}, "exit") \in ClientCall
        /\ Call({}, "exit") \in ClientCall
    BY CallTyped DEF Resources, GlObjects
  <2>2. InitSdl \in Seq(ClientCall)
    BY <2>1 DEF InitSdl
  <2>3. Len(InitSdl) = 6 /\ \A j \in 1 .. 6 : InitSdl[j].makes \cap Temporary = {}
    BY CallFields DEF InitSdl, Temporary
  <2>4. QED
    BY <2>2, <2>3 DEF Tidy
<1>2. SetWorkingDir \in Seq(ClientCall) /\ Tidy(SetWorkingDir, {})
  <2>1. Call({}, "exit") \in ClientCall
    BY CallTyped DEF Resources, GlObjects
  <2>2. Len(SetWorkingDir) = 1 /\ SetWorkingDir[1].makes = {}
    BY CallFields DEF SetWorkingDir
  <2>3. QED
    BY <2>1, <2>2 DEF SetWorkingDir, Tidy
<1>3. InitSdlImage \in Seq(ClientCall) /\ Tidy(InitSdlImage, {})
  <2>1. Call({"image"}, "exit") \in ClientCall
    BY CallTyped DEF Resources, GlObjects
  <2>2. Len(InitSdlImage) = 1 /\ InitSdlImage[1].makes = {"image"}
    BY CallFields DEF InitSdlImage
  <2>3. QED
    BY <2>1, <2>2 DEF InitSdlImage, Tidy, Temporary
<1>4. CreateTexture \in Seq(ClientCall) /\ Tidy(CreateTexture, {}) /\ MakesTexture(CreateTexture)
  <2>1. /\ Call({"surface"}, "abort") \in ClientCall /\ Call({}, "abort") \in ClientCall
        /\ GlCall({"texture"}, "never") \in ClientCall /\ Free({"surface"}) \in ClientCall
        /\ Call({}, "crash") \in ClientCall
    BY CallTyped, FreeTyped DEF Resources, GlObjects, Lasting
  <2>2. /\ Len(CreateTexture) = 5
        /\ CreateTexture[1].makes = {"surface"} /\ CreateTexture[2].makes = {}
        /\ CreateTexture[3].makes = {"texture"} /\ CreateTexture[4].makes = {}
        /\ CreateTexture[4].drops = {"surface"} /\ CreateTexture[5].makes = {}
    BY CallFields DEF CreateTexture
  <2>3. CreateTexture \in Seq(ClientCall)
    BY <2>1 DEF CreateTexture
  <2>4. \A r \in Temporary, j \in 1 .. 5 :
            r \in CreateTexture[j].makes => j = 1 /\ r \in CreateTexture[4].drops
    BY <2>2 DEF Temporary
  <2> HIDE DEF CreateTexture
  <2>5. QED
    BY <2>2, <2>3, <2>4 DEF Tidy, MakesTexture
<1>5. CreateShaderProgram \in Seq(ClientCall) /\ Tidy(CreateShaderProgram, {})
  <2> DEFINE debt == {"vertex", "fragment"}
             first == <<GlCall({"program"}, "never")>>
             last == <<GlFree({"vertex", "fragment"}), GlCall({}, "abort")>>
             one == first \o LoadShader("vertex")
             two == one \o LoadShader("fragment")
  <2>1. /\ GlCall({"program"}, "never") \in ClientCall
        /\ GlFree({"vertex", "fragment"}) \in ClientCall /\ GlCall({}, "abort") \in ClientCall
    BY CallTyped, FreeTyped DEF Resources, GlObjects, Lasting
  <2>2. ASSUME NEW shader \in debt
        PROVE  LoadShader(shader) \in Seq(ClientCall) /\ Tidy(LoadShader(shader), debt)
    <3>1. Call({}, "abort") \in ClientCall /\ GlCall({shader}, "abort") \in ClientCall
      BY CallTyped DEF Resources, GlObjects
    <3>2. /\ Len(LoadShader(shader)) = 2 /\ LoadShader(shader)[1].makes = {}
          /\ LoadShader(shader)[2].makes = {shader}
      BY CallFields DEF LoadShader
    <3>3. LoadShader(shader) \in Seq(ClientCall)
      BY <3>1 DEF LoadShader
    <3>4. QED
      BY <3>2, <3>3 DEF Tidy
  <2>3. first \in Seq(ClientCall) /\ Tidy(first, debt)
    <3>1. Len(first) = 1 /\ first[1].makes = {"program"}
      BY CallFields
    <3>2. first \in Seq(ClientCall)
      BY <2>1
    <3> HIDE DEF first
    <3>3. QED
      BY <3>1, <3>2 DEF Tidy, Temporary
  <2>4. /\ last \in Seq(ClientCall) /\ Tidy(last, {})
        /\ \A r \in debt : \E k \in 1 .. Len(last) : r \in last[k].drops
    <3>1. /\ Len(last) = 2 /\ last[1].makes = {} /\ last[2].makes = {}
          /\ last[1].drops = debt
      BY CallFields
    <3>2. last \in Seq(ClientCall)
      BY <2>1
    <3> HIDE DEF last, debt
    <3>3. QED
      BY <3>1, <3>2 DEF Tidy
  <2>5. CreateShaderProgram = two \o last
    BY DEF CreateShaderProgram
  <2>6. "vertex" \in debt /\ "fragment" \in debt
    OBVIOUS
  <2> HIDE DEF debt, first, last
  <2>7. one \in Seq(ClientCall) /\ Tidy(one, debt)
    BY <2>2, <2>3, <2>6, TidyConcat
  <2> HIDE DEF one
  <2>8. two \in Seq(ClientCall) /\ Tidy(two, debt)
    BY <2>2, <2>6, <2>7, TidyConcat
  <2> HIDE DEF two
  <2>9. QED
    BY <2>4, <2>5, <2>8, TidyPays
<1>6. TextureAtlas \in Seq(ClientCall) /\ Tidy(TextureAtlas, {}) /\ MakesTexture(TextureAtlas)
  <2> DEFINE last == <<GlCall({"buffer", "vertex_array"}, "never"), GlCall({}, "abort"),
                       GlCall({}, "abort")>>
             one == CreateTexture \o CreateShaderProgram
  <2>1. /\ GlCall({"buffer", "vertex_array"}, "never") \in ClientCall
        /\ GlCall({}, "abort") \in ClientCall
    BY CallTyped DEF Resources, GlObjects
  <2>2. /\ Len(last) = 3 /\ last[1].makes = {"buffer", "vertex_array"}
        /\ last[2].makes = {} /\ last[3].makes = {}
    BY CallFields
  <2>3. last \in Seq(ClientCall)
    BY <2>1
  <2>4. TextureAtlas = one \o last
    BY DEF TextureAtlas
  <2> HIDE DEF last
  <2>5. Tidy(last, {})
    BY <2>2 DEF Tidy, Temporary
  <2>6. one \in Seq(ClientCall) /\ Tidy(one, {}) /\ MakesTexture(one)
    BY <1>4, <1>5, TidyConcat, TextureConcat
  <2> HIDE DEF one
  <2>7. QED
    BY <2>3, <2>4, <2>5, <2>6, TidyConcat, TextureConcat
<1> DEFINE one == InitSdl \o SetWorkingDir
           two == one \o InitSdlImage
<1>7. one \in Seq(ClientCall) /\ Tidy(one, {})
  BY <1>1, <1>2, TidyConcat
<1> HIDE DEF one
<1>8. two \in Seq(ClientCall) /\ Tidy(two, {})
  BY <1>3, <1>7, TidyConcat
<1>9. Startup("client") = two \o TextureAtlas
  BY DEF Startup, one, two
<1> HIDE DEF two
<1>10. QED
  BY <1>6, <1>8, <1>9, TidyConcat, TextureConcat

(* Of the calls ahead each one drops something, until nothing is up but     *)
(* the context and what glewInit loaded; a texture that is made is counted. *)
ObjectsRight ==
    program = "client" =>
        /\ up \subseteq Resources
        /\ up \cap GlObjects # {} => "window" \in up
        /\ pc = "starting" =>
            /\ \A r \in Temporary \cap up : \E k \in 1 .. Len(calls) : r \in calls[k].drops
            /\ Tidy(calls, {})
            /\ refs = 1 \/ MakesTexture(calls)
        /\ pc \in {"sprites", "loop", "deleting"} => up \cap Temporary = {} /\ refs = 1
        /\ pc = "closing" =>
            /\ refs = 0 /\ up \cap GlObjects = {}
            /\ \A r \in up \ {"context", "glew"} : \E k \in 1 .. Len(calls) : r \in calls[k].drops
        /\ pc = "ended" => refs = 0 /\ up \subseteq {"context", "glew"}

LEMMA InitObjects == Init => ObjectsRight
  BY StartupTidy DEF Init, ObjectsRight

LEMMA CallsAhead ==
    ASSUME NEW S, NEW s \in Seq(S), s # <<>>
    PROVE  /\ Len(s) \in Nat \ {0} /\ Head(s) = s[1] /\ Len(Tail(s)) = Len(s) - 1
           /\ \A k \in 1 .. Len(s) - 1 : Tail(s)[k] = s[k + 1]
  OBVIOUS

\* What is not dropped by the next call is dropped by one after it.
LEMMA DroppedLater ==
    ASSUME NEW S, NEW s \in Seq(S), s # <<>>, NEW r, NEW k \in 1 .. Len(s),
           r \in s[k].drops, r \notin Head(s).drops
    PROVE  \E j \in 1 .. Len(Tail(s)) : r \in Tail(s)[j].drops
<1>1. k # 1 /\ k - 1 \in 1 .. Len(Tail(s)) /\ Tail(s)[k - 1] = s[k]
  BY CallsAhead
<1>2. QED
  BY <1>1

LEMMA StartingObjects ==
    ASSUME CallsRight, ObjectsRight, program = "client", pc = "starting", CallSucceeds
    PROVE  ObjectsRight'
<1> DEFINE c == Head(calls)
<1>1. /\ calls # <<>> /\ UNCHANGED <<program, pc>> /\ Counted(c)
      /\ up' = (up \cup c.makes) \ c.drops /\ calls' = Tail(calls)
  BY DEF CallSucceeds
<1>2. calls \in Seq(ClientCall) /\ Ready(calls, up)
  BY DEF CallsRight, Ready
<1>3. c \in ClientCall /\ (c.gl => Lasting \subseteq up)
  BY <1>1, <1>2, ReadyNext
<1>4. /\ c = calls[1] /\ Len(calls) \in Nat \ {0} /\ Len(calls') = Len(calls) - 1
      /\ \A k \in 1 .. Len(calls) - 1 : calls'[k] = calls[k + 1]
  BY <1>1, <1>2, CallsAhead
<1>5. up' \subseteq Resources
  BY <1>1, <1>3 DEF ObjectsRight, ClientCall
<1>6. up' \cap GlObjects # {} => "window" \in up'
  <2>1. "window" \notin c.drops /\ (~c.gl => c.makes \cap GlObjects = {})
    BY <1>3 DEF ClientCall, Lasting
  <2>2. QED
    BY <1>1, <1>3, <2>1 DEF ObjectsRight, Lasting
<1>7. ASSUME NEW r \in Temporary, r \in up'
      PROVE  \E k \in 1 .. Len(calls') : r \in calls'[k].drops
  <2>1. r \notin c.drops
    BY <1>1, <1>7
  <2>2. PICK k \in 1 .. Len(calls) : r \in calls[k].drops
    <3>1. CASE r \in up
      BY <1>7, <3>1 DEF ObjectsRight
    <3>2. CASE r \in c.makes
      <4>1. 1 \in 1 .. Len(calls) /\ r \in calls[1].makes
        BY <1>4, <3>2
      <4>2. PICK k \in 1 + 1 .. Len(calls) : r \in calls[k].drops
        BY <1>7, <4>1 DEF ObjectsRight, Tidy
      <4>3. QED
        BY <1>4, <4>2
    <3>3. QED
      BY <1>1, <1>7, <3>1, <3>2
  <2>3. QED
    BY <1>1, <1>2, <2>1, <2>2, DroppedLater
<1>8. Tidy(calls', {})
  <2>1. SUFFICES ASSUME NEW r \in Temporary, NEW j \in 1 .. Len(calls'), r \in calls'[j].makes
                 PROVE  \E k \in j + 1 .. Len(calls') : r \in calls'[k].drops
    BY DEF Tidy
  <2>2. j + 1 \in 1 .. Len(calls) /\ r \in calls[j + 1].makes
    BY <1>4, <2>1
  <2>3. PICK k \in (j + 1) + 1 .. Len(calls) : r \in calls[k].drops
    BY <2>1, <2>2 DEF ObjectsRight, Tidy
  <2>4. k - 1 \in j + 1 .. Len(calls') /\ calls'[k - 1] = calls[k]
    BY <1>4, <2>3
  <2>5. QED
    BY <2>3, <2>4
<1>9. refs' = 1 \/ MakesTexture(calls')
  <2>1. CASE "texture" \in c.makes
    BY <1>1, <2>1 DEF Counted
  <2>2. CASE "texture" \notin c.makes /\ refs = 1
    BY <1>1, <2>2 DEF Counted
  <2>3. CASE "texture" \notin c.makes /\ refs # 1
    <3>1. PICK k \in 1 .. Len(calls) : "texture" \in calls[k].makes
      BY <2>3 DEF ObjectsRight, MakesTexture
    <3>2. k - 1 \in 1 .. Len(calls') /\ calls'[k - 1] = calls[k]
      BY <1>4, <2>3, <3>1
    <3>3. QED
      BY <3>1, <3>2 DEF MakesTexture
  <2>4. QED
    BY <2>1, <2>2, <2>3
<1>10. program' = "client" /\ pc' = "starting"
  BY <1>1
<1>11. QED
  BY <1>5, <1>6, <1>7, <1>8, <1>9, <1>10 DEF ObjectsRight

LEMMA ClosingObjects ==
    ASSUME CallsRight, ObjectsRight, program = "client", pc = "closing", CallSucceeds
    PROVE  ObjectsRight'
<1> DEFINE c == Head(calls)
           Plain == {f \in {Free(D) : D \in SUBSET Resources} : ~f.gl}
<1>1. /\ calls # <<>> /\ UNCHANGED <<program, pc>> /\ Counted(c)
      /\ up' = (up \cup c.makes) \ c.drops /\ calls' = Tail(calls)
  BY DEF CallSucceeds
<1>2. calls \in Seq(Plain)
  BY DEF CallsRight
<1>3. \A f \in Plain : f.makes = {}
  BY DEF Free, Call
<1> HIDE DEF Plain
<1>4. c.makes = {}
  <2>1. c \in Plain
    BY <1>1, <1>2
  <2>2. QED
    BY <1>3, <2>1
<1>5. up' = up \ c.drops /\ refs' = refs
  BY <1>1, <1>4 DEF Counted
<1>6. ASSUME NEW r \in up' \ {"context", "glew"}
      PROVE  \E k \in 1 .. Len(calls') : r \in calls'[k].drops
  <2>1. PICK k \in 1 .. Len(calls) : r \in calls[k].drops
    BY <1>5, <1>6 DEF ObjectsRight
  <2>2. r \notin c.drops
    BY <1>5, <1>6
  <2>3. QED
    BY <1>1, <1>2, <2>1, <2>2, DroppedLater
<1>7. program' = "client" /\ pc' = "closing"
  BY <1>1
<1>8. QED
  BY <1>5, <1>6, <1>7 DEF ObjectsRight

LEMMA ObjectsStep == CallsRight /\ ObjectsRight /\ [Next]_vars => ObjectsRight'
<1> SUFFICES ASSUME CallsRight, ObjectsRight, [Next]_vars PROVE ObjectsRight'
  OBVIOUS
<1>0. UNCHANGED program
  <2>1. CASE \/ CallSucceeds \/ CallCrashes \/ CallFails \/ StartupDone \/ NewSprite
             \/ LoopStarts \/ Frame \/ DeleteSprite \/ ReleaseAtlas \/ Ended
    BY <2>1, Zenon DEF CallSucceeds, CallCrashes, CallFails, StartupDone, NewSprite, LoopStarts,
       Frame, DeleteSprite, ReleaseAtlas, Ended
  <2>2. CASE PollQuit \/ HandleKeys \/ ClockTicks \/ OtherTimer \/ UNCHANGED vars
    <3>1. UNCHANGED programVars
      BY <2>2, Zenon DEF PollQuit, HandleKeys, ClockTicks, OtherTimer, Other, vars
    <3>2. QED
      BY <3>1 DEF programVars
  <2>3. QED
    BY <2>1, <2>2 DEF Next
<1> SUFFICES ASSUME program = "client" PROVE ObjectsRight'
  BY <1>0 DEF ObjectsRight
<1>1. CASE CallSucceeds
  BY <1>1, StartingObjects, ClosingObjects DEF CallSucceeds
<1>2. CASE CallCrashes
  BY <1>2 DEF CallCrashes, ObjectsRight, atlasVars
<1>3. CASE CallFails
  <2>1. pc = "starting" /\ calls # <<>> /\ UNCHANGED <<program, up, refs>>
    BY <1>3 DEF CallFails, atlasVars
  <2>2. Head(calls).fail \in {"exit", "abort", "never", "crash"}
    <3>1. Head(calls) \in ClientCall
      BY <2>1, ReadyNext DEF CallsRight
    <3>2. QED
      BY <3>1 DEF ClientCall
  <2>3. pc' \in {"exit(1)", "aborted", "crashed"}
    BY <1>3, <2>2 DEF CallFails
  <2>4. QED
    BY <2>1, <2>3 DEF ObjectsRight
<1>4. CASE StartupDone
  <2>1. /\ pc = "starting" /\ calls = <<>> /\ pc' = "sprites" /\ UNCHANGED <<program, up, refs>>
    BY <1>4 DEF StartupDone, atlasVars
  <2>2. Len(calls) = 0
    BY <2>1
  <2>3. up \cap Temporary = {} /\ refs = 1
    BY <2>1, <2>2 DEF ObjectsRight, MakesTexture
  <2>4. QED
    BY <2>1, <2>3 DEF ObjectsRight
<1>5. CASE NewSprite \/ LoopStarts \/ DeleteSprite
  <2>1. /\ pc \in {"sprites", "deleting"} /\ UNCHANGED <<program, up, refs>>
        /\ pc' \in {"sprites", "crashed", "aborted", "loop", "deleting"}
    BY <1>5 DEF NewSprite, LoopStarts, DeleteSprite, atlasVars
  <2>2. QED
    BY <2>1 DEF ObjectsRight
<1>6. CASE Frame
  <2>1. pc = "loop" /\ pc' \in {"loop", "deleting"} /\ UNCHANGED <<program, up, refs>>
    BY <1>6 DEF Frame, atlasVars
  <2>2. QED
    BY <2>1 DEF ObjectsRight
<1>7. CASE ReleaseAtlas
  <2>1. /\ pc = "deleting" /\ pc' \in {"closing", "crashed"} /\ UNCHANGED program
        /\ up' = up \ ({"buffer", "vertex_array", "program"} \cup TextureReleased)
        /\ refs' = refs - 1 /\ calls' = CloseClient
    BY <1>7 DEF ReleaseAtlas
  <2>2. refs = 1 /\ up \cap Temporary = {} /\ up \subseteq Resources
    BY <2>1 DEF ObjectsRight
  <2>3. up' = up \ {"buffer", "vertex_array", "program", "texture"} /\ refs' = 0
    BY <2>1, <2>2 DEF TextureReleased
  <2>4. up' \subseteq {"sdl", "window", "context", "glew", "image"}
    BY <2>2, <2>3 DEF Resources, GlObjects, Temporary
  <2>5. up' \cap GlObjects = {} /\ up' \subseteq Resources
    BY <2>4 DEF GlObjects, Resources
  <2>6. /\ Len(CloseClient) = 3 /\ CloseClient[1].drops = {"window"}
        /\ CloseClient[2].drops = {"image"} /\ CloseClient[3].drops = {"sdl"}
    BY CallFields DEF CloseClient
  <2>7. \A r \in up' \ {"context", "glew"} :
            \E k \in 1 .. Len(CloseClient) : r \in CloseClient[k].drops
    BY <2>4, <2>6
  <2> HIDE DEF CloseClient
  <2>8. QED
    BY <2>1, <2>3, <2>5, <2>7 DEF ObjectsRight
<1>8. CASE Ended
  <2>1. pc = "closing" /\ calls = <<>> /\ pc' = "ended" /\ UNCHANGED <<program, up, refs>>
    BY <1>8 DEF Ended, atlasVars
  <2>2. Len(calls) = 0
    BY <2>1
  <2>3. up \subseteq {"context", "glew"} /\ refs = 0
    BY <2>1, <2>2 DEF ObjectsRight
  <2>4. QED
    BY <2>1, <2>3 DEF ObjectsRight, GlObjects
<1>9. CASE PollQuit \/ HandleKeys \/ ClockTicks \/ OtherTimer \/ UNCHANGED vars
  <2>1. UNCHANGED programVars /\ UNCHANGED atlasVars
    BY <1>9, Zenon DEF PollQuit, HandleKeys, ClockTicks, OtherTimer, Other, vars
  <2>2. QED
    BY <2>1 DEF programVars, atlasVars, ObjectsRight
<1>10. QED
  BY <1>1, <1>2, <1>3, <1>4, <1>5, <1>6, <1>7, <1>8, <1>9 DEF Next

(* The client deletes the objects of OpenGL, the counted texture and what  *)
(* its shaders were compiled from included, before it destroys the window, *)
(* and returns from main with the context, which nothing deletes, at most. *)
THEOREM ObjectsGoFirst == Spec => []ObjectsGoBeforeTheWindow
<1>1. ObjectsRight => ObjectsGoBeforeTheWindow
  BY DEF ObjectsRight, ObjectsGoBeforeTheWindow
<1>2. IInv => CallsRight
  BY DEF IInv
<1>3. QED
  BY <1>1, <1>2, InitObjects, ObjectsStep, Kept, PTL DEF Spec

-----------------------------------------------------------------------------
(* Types, of both programs.                                                *)

AnyCall == [makes : SUBSET Resources, drops : SUBSET Resources, gl : BOOLEAN,
            fail : {"exit", "abort", "never", "crash", "close", "ignore"}]

RestTyped ==
    /\ width \in 0 .. ClipColumns /\ firstCapacity \in Capacities
    /\ up \subseteq Resources /\ refs \in Nat
    /\ quit \in BOOLEAN /\ quad \in BOOLEAN /\ time \in 0 .. MaxTime
    /\ pc \in {"starting", "closing"} => calls \in Seq(AnyCall)

LEMMA AnyCallTyped ==
    ASSUME NEW M \in SUBSET Resources,
           NEW f \in {"exit", "abort", "never", "crash", "close", "ignore"}
    PROVE  /\ Call(M, f) \in AnyCall /\ GlCall(M, f) \in AnyCall
           /\ Free(M) \in AnyCall /\ GlFree(M) \in AnyCall
<1>1. /\ Call(M, f) \in AnyCall /\ GlCall(M, f) \in AnyCall /\ Call({}, "never") \in AnyCall
  BY DEF Call, GlCall, AnyCall
<1>2. Free(M) \in AnyCall
  BY <1>1 DEF Free, AnyCall
<1>3. QED
  BY <1>1, <1>2 DEF GlFree, AnyCall

LEMMA ProgramsTyped ==
    /\ Startup("client") \in Seq(AnyCall) /\ Startup("sdl_main") \in Seq(AnyCall)
    /\ CloseClient \in Seq(AnyCall) /\ CloseSdl \in Seq(AnyCall)
<1>1. Startup("client") \in Seq(AnyCall)
  <2>1. Startup("client") \in Seq(ClientCall)
    BY StartupReady DEF Ready
  <2>2. ClientCall \subseteq AnyCall
    BY DEF ClientCall, AnyCall
  <2>3. QED
    BY <2>1, <2>2, SeqMonotonic
<1>2. SdlInit \in Seq(AnyCall)
  <2>1. /\ Call({"sdl"}, "close") \in AnyCall /\ Call({"window"}, "close") \in AnyCall
        /\ Call({"context"}, "close") \in AnyCall /\ Call({"glew"}, "ignore") \in AnyCall
        /\ Call({}, "ignore") \in AnyCall
    BY AnyCallTyped DEF Resources
  <2>2. QED
    BY <2>1 DEF SdlInit
<1>3. SdlInitGL \in Seq(AnyCall)
  <2>1. /\ GlCall({"program"}, "never") \in AnyCall /\ GlCall({"vertex"}, "close") \in AnyCall
        /\ GlCall({"fragment"}, "close") \in AnyCall /\ GlCall({}, "close") \in AnyCall
        /\ GlCall({"buffer"}, "never") \in AnyCall
    BY AnyCallTyped DEF Resources, GlObjects
  <2>2. QED
    BY <2>1 DEF SdlInitGL
<1>4. Startup("sdl_main") \in Seq(AnyCall)
  <2>1. Startup("sdl_main") = SdlInit \o SdlInitGL
    BY DEF Startup
  <2>2. QED
    BY <1>2, <1>3, <2>1, ConcatProperties
<1>5. /\ Free({"window"}) \in AnyCall /\ Free({"image"}) \in AnyCall
      /\ Free({"sdl"}) \in AnyCall /\ GlFree({"program"}) \in AnyCall
  BY AnyCallTyped DEF Resources, GlObjects
<1>6. CloseClient \in Seq(AnyCall) /\ CloseSdl \in Seq(AnyCall)
  BY <1>5 DEF CloseClient, CloseSdl
<1>7. QED
  BY <1>1, <1>4, <1>6

LEMMA InitRest == Init => RestTyped
<1> SUFFICES ASSUME Init PROVE RestTyped
  OBVIOUS
<1>1. program \in {"client", "sdl_main"} /\ calls = Startup(program)
  BY DEF Init
<1> HIDE DEF Startup
<1>2. calls \in Seq(AnyCall)
  BY <1>1, ProgramsTyped
<1>3. width \in 0 .. ClipColumns /\ firstCapacity \in Capacities /\ up = {} /\ refs = 0
      /\ quit = FALSE /\ quad = TRUE /\ time = 0
  BY DEF Init
<1>4. 0 \in 0 .. MaxTime /\ 0 \in Nat
  BY ClientAssumption
<1>5. quit \in BOOLEAN /\ quad \in BOOLEAN
  BY <1>3, Zenon
<1>6. QED
  BY <1>2, <1>3, <1>4, <1>5, Zenon DEF RestTyped

LEMMA RestStep ==
    ASSUME CallsRight, ObjectsRight, RestTyped, [Next]_vars
    PROVE  RestTyped'
<1>1. CASE CallSucceeds
  <2>1. Head(calls) \in AnyCall /\ Tail(calls) \in Seq(AnyCall)
    <3>1. calls \in Seq(AnyCall) /\ calls # <<>>
      BY <1>1 DEF CallSucceeds, RestTyped
    <3>2. QED
      BY <3>1, HeadTailProperties
  <2>2. refs' \in {refs, 1} /\ up' \subseteq up \cup Head(calls).makes /\ calls' = Tail(calls)
        /\ UNCHANGED <<width, firstCapacity, quit, quad, time>>
    BY <1>1 DEF CallSucceeds, Counted, loopVars, timeVars
  <2>3. up' \subseteq Resources
    BY <2>1, <2>2 DEF AnyCall, RestTyped
  <2>4. QED
    BY <2>1, <2>2, <2>3 DEF RestTyped
<1>2. CASE CallFails
  <2>1. pc = "starting" /\ calls # <<>> /\ calls' \in {calls, CloseSdl, Tail(calls)}
        /\ UNCHANGED <<width, firstCapacity, up, refs, quit, quad, time>>
    BY <1>2 DEF CallFails, atlasVars, loopVars, timeVars
  <2>2. Tail(calls) \in Seq(AnyCall) /\ calls \in Seq(AnyCall)
    BY <2>1, HeadTailProperties DEF RestTyped
  <2>3. QED
    BY <2>1, <2>2, ProgramsTyped DEF RestTyped
<1>3. CASE ReleaseAtlas
  <2>1. /\ pc = "deleting" /\ refs' = refs - 1 /\ up' \subseteq up /\ calls' = CloseClient
        /\ UNCHANGED <<width, firstCapacity, quit, quad, time>>
    BY <1>3 DEF ReleaseAtlas, loopVars, timeVars
  <2>2. refs = 1
    BY <2>1 DEF CallsRight, ObjectsRight
  <2>3. QED
    BY <2>1, <2>2, ProgramsTyped DEF RestTyped
<1>4. CASE Frame
  <2>1. /\ pc = "loop" /\ UNCHANGED <<width, firstCapacity, up, refs, quit, quad>>
        /\ time' = time /\ calls' = (IF quit /\ program = "sdl_main" THEN CloseSdl ELSE calls)
    BY <1>4 DEF Frame, FrameRate, FpsTimerStart, atlasVars, loopVars, timeVars
  <2>2. pc' \in {"loop", "deleting"} \/ (pc' = "closing" /\ calls' = CloseSdl)
    BY <1>4, <2>1 DEF Frame, CallsRight
  <2>3. QED
    BY <2>1, <2>2, ProgramsTyped DEF RestTyped
<1>5. CASE CallCrashes \/ StartupDone \/ NewSprite \/ LoopStarts \/ DeleteSprite \/ Ended
  <2>1. UNCHANGED <<width, firstCapacity, up, refs, quit, quad, time, calls>>
    BY <1>5 DEF CallCrashes, StartupDone, NewSprite, LoopStarts, DeleteSprite, Ended,
       FpsTimerStart, atlasVars, loopVars, timeVars
  <2>2. pc' \in {"crashed", "sprites", "loop", "aborted", "deleting", "ended"}
    BY <1>5 DEF CallCrashes, StartupDone, NewSprite, LoopStarts, DeleteSprite, Ended
  <2>3. QED
    BY <2>1, <2>2 DEF RestTyped
<1>6. CASE PollQuit \/ HandleKeys \/ ClockTicks \/ OtherTimer \/ UNCHANGED vars
  <2>1. UNCHANGED programVars /\ UNCHANGED atlasVars
    BY <1>6, Zenon DEF PollQuit, HandleKeys, ClockTicks, OtherTimer, Other, vars
  <2>2. quit' \in BOOLEAN /\ quad' \in BOOLEAN
    BY <1>6 DEF PollQuit, HandleKeys, ClockTicks, OtherTimer, Other, vars, loopVars, RestTyped
  <2>3. time' \in 0 .. MaxTime
    <3>1. time' = time \/ (time < MaxTime /\ time' = time + 1)
      BY <1>6 DEF PollQuit, HandleKeys, ClockTicks, OtherTimer, Other, vars, timeVars
    <3>2. QED
      BY <3>1, ClientAssumption DEF RestTyped
  <2>4. QED
    BY <2>1, <2>2, <2>3 DEF RestTyped, programVars, atlasVars
<1>7. QED
  BY <1>1, <1>2, <1>3, <1>4, <1>5, <1>6 DEF Next

\* The variables of both programs keep their types.
THEOREM ClientTypes == Spec => []TypeOK
<1>1. IInv /\ RestTyped => TypeOK
  <2> SUFFICES ASSUME IInv, RestTyped PROVE TypeOK
    OBVIOUS
  <2>1. /\ atlas.capacity \in Nat \ {0} /\ atlas.highest \in 0 .. atlas.capacity - 1
        /\ atlas.allocated \in BOOLEAN
        /\ atlas.rows \in [0 .. atlas.capacity - 1 -> 0 .. SpriteCount]
        /\ atlas.gpu \in [0 .. atlas.capacity - 1 -> 0 .. SpriteCount]
    BY DEF IInv, SpritesRight, AtlasTyped
  <2>2. sprites \in Seq(1 .. SpriteCount) /\ Len(sprites) <= SpriteCount
    BY DEF IInv, SpritesRight
  <2>3. /\ program \in {"client", "sdl_main"}
        /\ pc \in {"starting", "sprites", "loop", "deleting", "closing", "ended", "exit(1)",
                   "aborted", "crashed"}
    BY DEF IInv, CallsRight
  <2>4. timers \in [{"fps", "other"} -> Timer] /\ ran \in [{"fps", "other"} -> Nat]
    BY DEF IInv, TimersRight
  <2>5. QED
    BY <2>1, <2>2, <2>3, <2>4, Zenon DEF RestTyped, TypeOK
<1>2. IInv => CallsRight
  BY DEF IInv
<1>3. CallsRight /\ ObjectsRight /\ RestTyped /\ [Next]_vars => RestTyped'
  BY RestStep
<1>4. QED
  BY <1>1, <1>2, <1>3, InitObjects, InitRest, ObjectsStep, Kept, PTL DEF Spec
==============================================================================

--------------------------- MODULE VmUnwindProofs ---------------------------
(* Proofs about the control flow of the VM for programs of any length, any   *)
(* depth of calls, callbacks, generators and deferred calls: an error ends   *)
(* in the innermost open try block, every deferred call is started once and  *)
(* in order, and what waits for a callback finds its frames and handlers as  *)
(* they were.  Errors that leave an instruction inside a try block without   *)
(* being offered to it, and the other constructs Plain leaves out, are       *)
(* outside these theorems: the code does not keep the promises there.        *)
EXTENDS VmUnwindInvariant, SequenceTheorems, WellFoundedInduction, TLAPS

\* The constructs for which the code keeps its promises (those of the run):
\* callbacks, posted calls, generators without try or defer, sys.exit() outside
\* try blocks, generators and deferred calls, and errors that leave an
\* instruction where no try block of its execute() is open (no "operatorTry").
Plain == Features \subseteq {"native", "posted", "gen", "exit"}

-----------------------------------------------------------------------------
(* Facts about sequences and records.                                        *)

LEMMA FrontIndex ==
  ASSUME NEW n \in Nat
  PROVE  /\ 1 <= n => n - 1 + 1 = n
         /\ ~(1 <= n) => n = 0
         /\ n - 1 + 1 = n /\ \A i \in 1 .. n : 1 + i - 1 = i
  OBVIOUS

\* Taking the last element off.
LEMMA FrontLast ==
  ASSUME NEW S, NEW s \in Seq(S), s # <<>>
  PROVE  /\ Front(s) \in Seq(S) /\ Len(Front(s)) = Len(s) - 1
         /\ \A i \in 1 .. Len(s) - 1 : Front(s)[i] = s[i]
         /\ Last(s) = s[Len(s)] /\ Last(s) \in S /\ Len(s) \in Nat \ {0}
<1>1. Len(s) \in Nat \ {0}
  <2>1. Len(s) \in Nat
    BY LenProperties
  <2>2. Len(s) # 0
    BY EmptySeq
  <2> QED BY <2>1, <2>2
<1>2. Front(s) = SubSeq(s, 1, Len(s) - 1) /\ Last(s) = s[Len(s)] /\ s[Len(s)] \in S
  <2>1. Len(s) \in 1 .. Len(s)
    BY <1>1
  <2>2. s[Len(s)] \in S
    BY <2>1, ElementOfSeq
  <2>3. Front(s) = SubSeq(s, 1, Len(s) - 1) /\ Last(s) = s[Len(s)]
    BY Zenon DEF Front, Last
  <2> QED BY <2>2, <2>3
<1>3. SUFFICES ASSUME NEW t, t = SubSeq(s, 1, Len(s) - 1), NEW n \in Nat, Len(s) = n + 1
               PROVE  /\ t \in Seq(S) /\ Len(t) = n /\ \A i \in 1 .. n : t[i] = s[i]
  <2>1. Len(s) - 1 \in Nat /\ Len(s) = Len(s) - 1 + 1
    BY <1>1
  <2> QED BY <1>1, <1>2, <2>1, Zenon
<1>4. t = SubSeq(s, 1, n)
  BY <1>3
<1>5. 1 \in Int /\ n \in Int /\ \A i \in 1 .. n : s[i] \in S
  BY <1>3, ElementOfSeq
<1>6. /\ t \in Seq(S)
      /\ Len(t) = IF 1 <= n THEN n - 1 + 1 ELSE 0
      /\ \A i \in 1 .. n - 1 + 1 : t[i] = s[1 + i - 1]
  BY <1>4, <1>5, SubSeqProperties
<1>7. /\ 1 <= n => n - 1 + 1 = n
      /\ ~(1 <= n) => n = 0
      /\ n - 1 + 1 = n /\ \A i \in 1 .. n : 1 + i - 1 = i
  BY FrontIndex
<1> QED BY <1>6, <1>7

LEMMA Appended ==
  ASSUME NEW S, NEW s \in Seq(S), NEW x \in S
  PROVE  /\ Append(s, x) \in Seq(S) /\ Len(Append(s, x)) = Len(s) + 1
         /\ \A i \in 1 .. Len(s) : Append(s, x)[i] = s[i]
         /\ Append(s, x)[Len(s) + 1] = x /\ Last(Append(s, x)) = x
         /\ Front(Append(s, x)) = s
  BY DEF Front, Last

LEMMA AppendedTwo ==
  ASSUME NEW S, NEW s \in Seq(S), NEW x \in S, NEW y \in S
  PROVE  /\ s \o <<x, y>> \in Seq(S) /\ Len(s \o <<x, y>>) = Len(s) + 2
         /\ \A i \in 1 .. Len(s) : (s \o <<x, y>>)[i] = s[i]
         /\ (s \o <<x, y>>)[Len(s) + 1] = x /\ (s \o <<x, y>>)[Len(s) + 2] = y
  OBVIOUS

\* What a record of the C++ stack has, by its function.
LEMMA RecordFacts ==
  ASSUME NEW r \in Record
  PROVE  /\ r.fn = "execute" \/ Ends(r) \/ Waits(r)
         /\ r.fn = "execute" => r.base \in Nat /\ r.floor \in Nat /\ ~Ends(r) /\ ~Waits(r)
         /\ r.fn = "catch" => r.handler \in Handler
         /\ r.fn = "unwind" => r.target \in Nat /\ r.how \in {"error", "exit"}
         /\ r.fn = "defers" => r.todo \in Seq(Nat) /\ r.act \in Nat /\ r.saved \in Nat /\ ~Calls(r)
         /\ Calls(r) => r.caller \in CallerRec /\ r.caller.n \in Nat
                        /\ r.caller.frames \in Seq(Nat) /\ r.caller.handlers \in Seq(Handler)
         /\ r.fn = "resume" => r.previous \in GenRec
         /\ Waits(r) => Mark(r) \in Nat /\ ~Ends(r) /\ r.fn # "execute"
         /\ Ends(r) => ~Waits(r) /\ r.fn # "execute"
  BY DEF Record, Ends, Waits, Calls, Mark, CallerRec

LEMMA RecordTypes ==
  /\ \A b, f \in Nat : [fn |-> "execute", base |-> b, floor |-> f] \in Record
  /\ [fn |-> "return"] \in Record
  /\ \A h \in Handler : [fn |-> "catch", handler |-> h] \in Record
  /\ \A t \in Nat, h \in {"error", "exit"} :
       [fn |-> "unwind", target |-> t, how |-> h] \in Record
  /\ \A t \in Seq(Nat), a, s \in Nat :
       [fn |-> "defers", todo |-> t, act |-> a, saved |-> s] \in Record
  /\ \A f \in {"native", "posted"}, c \in CallerRec : [fn |-> f, caller |-> c] \in Record
  /\ \A c \in CallerRec, p \in GenRec : [fn |-> "resume", caller |-> c, previous |-> p] \in Record
  BY DEF Record

LEMMA CallerType ==
  ASSUME TypeOK
  PROVE  Caller \in CallerRec
<1>1. [i \in 1 .. frameCount |-> frames[i]] \in [1 .. frameCount -> Nat] /\ frameCount \in Nat
  <2>1. frameCount \in Nat /\ frames \in [1 .. FramesMax -> Nat] /\ 1 .. frameCount \subseteq 1 .. FramesMax
    <3>1. frameCount \in 0 .. FramesMax /\ frames \in [1 .. FramesMax -> Nat] /\ FramesMax \in Nat
      BY BoundAssumption DEF TypeOK
    <3> QED BY <3>1
  <2> QED BY <2>1
<1>2. [i \in 1 .. frameCount |-> frames[i]] \in Seq(Nat)
  BY <1>1, SeqDef
<1> QED BY <1>1, <1>2 DEF Caller, CallerRec, TypeOK

-----------------------------------------------------------------------------
(* What an execute() leaves below it.                                        *)

\* The part of the state below the execute() at m stays as it is.
Kept(m) ==
  /\ m - 1 <= Len(cpp') /\ \A k \in 1 .. m - 1 : cpp'[k] = cpp[k]
  /\ m <= Len(cpp') => cpp'[m] = cpp[m]
  /\ Floor(m) <= frameCount'
  /\ \A i \in 1 .. Floor(m) : /\ frames'[i] = frames[i] /\ open'[i] = open[i]
                              /\ runs'[i] = runs[i] /\ deferStack'[i] = deferStack[i]
  /\ cpp[m].floor <= Len(handlers')
  /\ \A j \in 1 .. cpp[m].floor : handlers'[j] = handlers[j]
  /\ \A j \in DOMAIN handlers' : j > cpp[m].floor => handlers'[j].frame > Floor(m)
  /\ currentGen' = currentGen \/ \A k \in 1 .. m - 1 : cpp[k].fn # "resume"
  /\ Len(kind) <= Len(kind') /\ \A a \in 1 .. Len(kind) : kind'[a] = kind[a]
  /\ Len(defers) <= Len(defers')
  /\ \A d \in 1 .. Len(defers) :
       \/ defers'[d] = defers[d]
       \/ \E i \in Floor(m) + 1 .. frameCount : frames[i] = defers[d].owner
                                                /\ defers'[d].owner = defers[d].owner
  /\ \A d \in Len(defers) + 1 .. Len(defers') :
       \A i \in 1 .. Floor(m) : frames[i] # defers'[d].owner

\* What is below an execute(): records that wait mark fewer frames than it
\* found, and what ends functions there waits for a deferred call.
LEMMA BelowExec ==
  ASSUME IInv, NEW m \in DOMAIN cpp, cpp[m].fn = "execute"
  PROVE  /\ m \in Nat \ {0} /\ Len(cpp) \in Nat /\ m <= Len(cpp) /\ DOMAIN cpp = 1 .. Len(cpp)
         /\ frameCount \in Nat /\ Floor(m) \in Nat /\ Floor(m) <= frameCount
         /\ \A k \in 1 .. m - 1 : cpp[k] \in Record /\ k \in DOMAIN cpp
         /\ \A k \in 1 .. m - 1 : Waits(cpp[k]) =>
              /\ Mark(cpp[k]) \in Nat /\ Mark(cpp[k]) <= Floor(m) /\ Mark(cpp[k]) <= frameCount
              /\ k < m - 1 => Mark(cpp[k]) < Floor(m)
         /\ \A k \in 1 .. m - 1 : Ends(cpp[k]) =>
              /\ k > 1 /\ cpp[k - 1].fn = "execute"
              /\ k + 1 < m /\ cpp[k + 1].fn = "defers" /\ Lim(k) = cpp[k + 1].saved
              /\ Lim(k) \in Nat /\ Lim(k) <= Floor(m)
         /\ \A k \in 1 .. m - 1 : cpp[k].fn = "execute" => Floor(k) \in Nat /\ Floor(k) <= Floor(m)
<1>1. /\ cpp \in Seq(Record) /\ frameCount \in Nat /\ Len(cpp) \in Nat /\ DOMAIN cpp = 1 .. Len(cpp)
      /\ m \in Nat \ {0} /\ m <= Len(cpp)
  <2>1. cpp \in Seq(Record)
    BY DEF IInv, TypeOK
  <2>2. frameCount \in Nat
    BY BoundAssumption DEF IInv, TypeOK
  <2> QED BY <2>1, <2>2
<1>2. \A k \in 1 .. m : cpp[k] \in Record /\ k \in DOMAIN cpp
  BY <1>1
<1>3. \A k \in 1 .. m : Waits(cpp[k]) => Mark(cpp[k]) \in Nat /\ k < m
  BY <1>1, <1>2, RecordFacts
<1>4. Nested /\ MarksRise /\ MarksHold
  BY DEF IInv
<1>5. m > 1 => Waits(cpp[m - 1]) /\ m - 1 \in DOMAIN cpp /\ Floor(m) = Mark(cpp[m - 1])
  BY <1>1, <1>4 DEF Nested, NestedAt, Floor
<1>6. Floor(m) \in Nat /\ (m = 1 => Floor(m) = 0)
  BY <1>1, <1>3, <1>5 DEF Floor
<1>7. ASSUME NEW k \in 1 .. m - 1, Waits(cpp[k])
      PROVE  /\ Mark(cpp[k]) \in Nat /\ Mark(cpp[k]) <= Floor(m) /\ Mark(cpp[k]) <= frameCount
             /\ k < m - 1 => Mark(cpp[k]) < Floor(m)
  <2>1. k \in DOMAIN cpp /\ Mark(cpp[k]) \in Nat /\ m > 1 /\ k \in Nat
    BY <1>1, <1>2, <1>3, <1>7
  <2>2. k < m - 1 => Mark(cpp[k]) < Mark(cpp[m - 1])
    BY <2>1, <1>4, <1>5, <1>7 DEF MarksRise
  <2>3. Mark(cpp[k]) <= frameCount
    BY <2>1, <1>4, <1>7 DEF MarksHold, MarkAt
  <2>4. k = m - 1 \/ k < m - 1
    BY <2>1, <1>1
  <2> QED BY <2>1, <2>2, <2>3, <2>4, <1>5, <1>6
<1>8. Floor(m) <= frameCount
  BY <1>1, <1>5, <1>6, <1>7
<1>9. ASSUME NEW k \in 1 .. m - 1, Ends(cpp[k])
      PROVE  /\ k > 1 /\ cpp[k - 1].fn = "execute"
             /\ k + 1 < m /\ cpp[k + 1].fn = "defers" /\ Lim(k) = cpp[k + 1].saved
             /\ Lim(k) \in Nat /\ Lim(k) <= Floor(m)
  <2>1. k \in Nat /\ k >= 1 /\ k + 1 \in 1 .. m /\ k + 1 \in DOMAIN cpp /\ k \in DOMAIN cpp /\ k < Len(cpp)
    BY <1>1
  <2>2. cpp[k].fn # "execute" /\ ~Waits(cpp[k])
    BY <1>9 DEF Ends, Waits, Calls
  <2>3. k > 1 /\ cpp[k - 1].fn = "execute"
    BY <2>1, <2>2, <1>4, <1>9 DEF Nested, NestedAt
  <2>4. /\ cpp[k + 1].fn # "execute"
        /\ ~Ends(cpp[k + 1]) /\ ~Calls(cpp[k + 1])
    BY <2>1, <2>2, <1>4 DEF Nested, NestedAt
  <2>5. cpp[k + 1].fn = "defers" /\ Waits(cpp[k + 1])
    BY <2>1, <2>4, <1>2, RecordFacts DEF Waits
  <2>6. k + 1 < m
    BY <2>1, <2>5, <1>3
  <2>7. Lim(k) = cpp[k + 1].saved /\ Lim(k) = Mark(cpp[k + 1])
    BY <2>1, <2>5 DEF Lim, Mark
  <2> QED BY <2>1, <2>3, <2>5, <2>6, <2>7, <1>7
<1>10. ASSUME NEW k \in 1 .. m - 1, cpp[k].fn = "execute"
       PROVE  Floor(k) \in Nat /\ Floor(k) <= Floor(m)
  <2>1. k \in Nat /\ k >= 1 /\ k \in DOMAIN cpp
    BY <1>1
  <2>2. k > 1 => Waits(cpp[k - 1]) /\ k - 1 \in 1 .. m - 1
    BY <2>1, <1>1, <1>4, <1>10 DEF Nested, NestedAt
  <2> QED BY <2>1, <2>2, <1>6, <1>7 DEF Floor
<1>11. \A k \in 1 .. m - 1 : cpp[k] \in Record /\ k \in DOMAIN cpp
  BY <1>1, <1>2
<1> QED BY <1>1, <1>6, <1>7, <1>8, <1>9, <1>10, <1>11

\* What the types say of sequences.
TypeFact ==
  /\ frameCount \in Nat /\ FramesMax \in Nat /\ frameCount <= FramesMax
  /\ Len(cpp) \in Nat /\ DOMAIN cpp = 1 .. Len(cpp)
  /\ \A k \in DOMAIN cpp : cpp[k] \in Record
  /\ Len(handlers) \in Nat /\ DOMAIN handlers = 1 .. Len(handlers)
  /\ \A j \in DOMAIN handlers : /\ handlers[j] \in Handler /\ handlers[j].frame \in Nat
                                /\ handlers[j].act \in Nat /\ handlers[j].depth \in Nat
  /\ Len(kind) \in Nat /\ Len(trys) = Len(kind) /\ DOMAIN trys = 1 .. Len(kind)
  /\ DOMAIN kind = 1 .. Len(kind)
  /\ Len(defers) \in Nat /\ DOMAIN defers = 1 .. Len(defers)

LEMMA TypeFacts == TypeOK => TypeFact
<1> HAVE TypeOK
<1>1. frameCount \in Nat /\ FramesMax \in Nat /\ frameCount <= FramesMax
  BY BoundAssumption DEF TypeOK
<1>2. cpp \in Seq(Record) /\ handlers \in Seq(Handler)
  BY DEF TypeOK
<1>3. /\ Len(cpp) \in Nat /\ DOMAIN cpp = 1 .. Len(cpp) /\ \A k \in DOMAIN cpp : cpp[k] \in Record
      /\ Len(handlers) \in Nat /\ DOMAIN handlers = 1 .. Len(handlers)
      /\ \A j \in DOMAIN handlers : handlers[j] \in Handler
  BY <1>2
<1>4. \A j \in DOMAIN handlers : /\ handlers[j].frame \in Nat
                                 /\ handlers[j].act \in Nat /\ handlers[j].depth \in Nat
  BY <1>3 DEF Handler
<1>5. /\ Len(kind) \in Nat /\ Len(trys) = Len(kind) /\ DOMAIN trys = 1 .. Len(kind)
      /\ DOMAIN kind = 1 .. Len(kind)
  BY DEF TypeOK
<1>6. Len(defers) \in Nat /\ DOMAIN defers = 1 .. Len(defers)
  BY DEF TypeOK
<1> QED BY <1>1, <1>3, <1>4, <1>5, <1>6 DEF TypeFact

LEMMA NextTypeFacts == TypeOK' => TypeFact'
<1> HAVE TypeOK'
<1>1. (frameCount \in Nat /\ FramesMax \in Nat /\ frameCount <= FramesMax)'
  BY BoundAssumption DEF TypeOK
<1>2. (cpp \in Seq(Record) /\ handlers \in Seq(Handler))'
  BY DEF TypeOK
<1>3. (/\ Len(cpp) \in Nat /\ DOMAIN cpp = 1 .. Len(cpp) /\ \A k \in DOMAIN cpp : cpp[k] \in Record
       /\ Len(handlers) \in Nat /\ DOMAIN handlers = 1 .. Len(handlers)
       /\ \A j \in DOMAIN handlers : handlers[j] \in Handler)'
  BY <1>2
<1>4. (\A j \in DOMAIN handlers : /\ handlers[j].frame \in Nat
                                  /\ handlers[j].act \in Nat /\ handlers[j].depth \in Nat)'
  BY <1>3 DEF Handler
<1>5. (/\ Len(kind) \in Nat /\ Len(trys) = Len(kind) /\ DOMAIN trys = 1 .. Len(kind)
       /\ DOMAIN kind = 1 .. Len(kind))'
  BY DEF TypeOK
<1>6. (Len(defers) \in Nat /\ DOMAIN defers = 1 .. Len(defers))'
  BY DEF TypeOK
<1> QED BY <1>1, <1>3, <1>4, <1>5, <1>6 DEF TypeFact

LEMMA SpanIn ==
  ASSUME NEW g \in Nat, NEW l \in Nat, NEW n \in Nat, l <= n
  PROVE  \A i \in g + 1 .. l : i \in 1 .. n
  OBVIOUS

LEMMA Cut ==
  ASSUME NEW l \in Nat, NEW n \in Nat
  PROVE  /\ \A i \in l + 1 .. n : i \in 1 .. n
         /\ \A i \in Nat : i > l => i > n \/ i \in l + 1 .. n
         /\ \A i \in Nat : i <= n => i <= l \/ i \in l + 1 .. n
  OBVIOUS

LEMMA NextUp ==
  ASSUME NEW a \in Nat
  PROVE  /\ \A i \in Nat : i > a => i > a + 1 \/ i = a + 1
         /\ \A i \in 1 .. a + 1 : i # a + 1 => i \in 1 .. a
  OBVIOUS

LEMMA Inside ==
  ASSUME NEW g \in Nat, NEW f \in Nat, NEW l \in Nat, NEW n \in Nat, g < f, f < l, l <= n
  PROVE  f \in 1 .. n
  OBVIOUS

\* Below the execute() at m, every conjunct about the C++ stack holds again.
LEMMA LowerKept ==
  ASSUME IInv, NEW m \in DOMAIN cpp, cpp[m].fn = "execute", Kept(m), TypeFact'
  PROVE  \A k \in 1 .. m - 1 :
           /\ NestedAt(k)' /\ MarkAt(k)' /\ StopAt(k)' /\ ResumeAt(k)' /\ FloorAt(k)'
           /\ k < m - 1 => DeferFrameAt(k)'
           /\ k < Len(cpp') => CallerAt(k)'
           /\ ClosedAt(k)' /\ ExitAt(k)' /\ TodoAt(k)'
<1> TAKE k \in 1 .. m - 1
<1> DEFINE F == Floor(m)
<1>0. /\ frameCount' \in Nat /\ Len(cpp') \in Nat
      /\ Len(handlers') \in Nat /\ DOMAIN handlers' = 1 .. Len(handlers')
      /\ \A j \in DOMAIN handlers' : handlers'[j].frame \in Nat
      /\ Len(defers') \in Nat
  BY DEF TypeFact
<1>1. /\ m \in Nat \ {0} /\ k \in Nat /\ k >= 1 /\ k < m /\ k \in DOMAIN cpp
      /\ Len(cpp) \in Nat /\ m <= Len(cpp) /\ frameCount \in Nat /\ F \in Nat /\ F <= frameCount
  BY BelowExec
<1>2. /\ k <= Len(cpp') /\ cpp'[k] = cpp[k] /\ m - 1 <= Len(cpp')
      /\ k > 1 => cpp'[k - 1] = cpp[k - 1] /\ k - 1 \in 1 .. m - 1
      /\ k < m - 1 => cpp'[k + 1] = cpp[k + 1] /\ k < Len(cpp')
      /\ k < Len(cpp') => cpp'[k + 1] = cpp[k + 1]
  <2>1. /\ \A x \in 1 .. m - 1 : cpp'[x] = cpp[x]
        /\ m <= Len(cpp') => cpp'[m] = cpp[m]
        /\ m - 1 <= Len(cpp')
    BY DEF Kept
  <2>2. /\ k > 1 => k - 1 \in 1 .. m - 1
        /\ k < m - 1 => k + 1 \in 1 .. m - 1 /\ k < Len(cpp')
        /\ k + 1 \in 1 .. m - 1 \/ k + 1 = m
        /\ k <= Len(cpp')
    BY <2>1, <1>1
  <2>3. k < Len(cpp') /\ k + 1 = m => m <= Len(cpp')
    BY <1>1
  <2> QED BY <2>1, <2>2, <2>3
<1>3. /\ Floor(k)' = Floor(k)
      /\ k > 1 => Floor(k - 1)' = Floor(k - 1)
      /\ k < m - 1 => Lim(k)' = Lim(k)
  <2>1. Floor(k)' = Floor(k)
    BY <1>1, <1>2 DEF Floor, Mark
  <2>2. k > 1 => k - 1 \in Nat /\ (k - 1 > 1 => cpp'[k - 1 - 1] = cpp[k - 1 - 1])
    BY <1>1 DEF Kept
  <2>3. k > 1 => Floor(k - 1)' = Floor(k - 1)
    BY <1>1, <2>2 DEF Floor, Mark
  <2>4. k < m - 1 => Lim(k)' = Lim(k)
    BY <1>1, <1>2 DEF Lim, Mark
  <2> QED BY <2>1, <2>3, <2>4
<1>4. /\ Waits(cpp[k]) => /\ Mark(cpp[k]) \in Nat /\ Mark(cpp[k]) <= F
                          /\ k < m - 1 => Mark(cpp[k]) < F
      /\ Ends(cpp[k]) => /\ k > 1 /\ cpp[k - 1].fn = "execute" /\ k < m - 1
                         /\ Lim(k) \in Nat /\ Lim(k) <= F
      /\ cpp[k].fn = "execute" => Floor(k) \in Nat /\ Floor(k) <= F
      /\ cpp[k] \in Record
  BY BelowExec
<1>5. F <= frameCount'
  BY DEF Kept
<1>6. \A i \in 1 .. F : /\ frames'[i] = frames[i] /\ open'[i] = open[i]
                        /\ runs'[i] = runs[i] /\ deferStack'[i] = deferStack[i]
  BY DEF Kept
<1>7. /\ cpp[m].floor \in Nat /\ cpp[m].floor <= Len(handlers)
      /\ \A j \in DOMAIN handlers : j <= cpp[m].floor <=> handlers[j].frame <= F
  <2>1. cpp[m] \in Record
    BY DEF IInv, TypeOK
  <2>2. FloorAt(m)
    BY DEF IInv, FloorsExact
  <2> QED BY <2>1, <2>2, RecordFacts DEF FloorAt
<1>8. /\ cpp[m].floor <= Len(handlers')
      /\ \A j \in 1 .. cpp[m].floor : handlers'[j] = handlers[j]
      /\ \A j \in DOMAIN handlers' : j > cpp[m].floor => handlers'[j].frame > F
  BY DEF Kept
<1>9. /\ DOMAIN handlers = 1 .. Len(handlers) /\ Len(handlers) \in Nat
      /\ \A j \in DOMAIN handlers : handlers[j].frame \in Nat /\ handlers[j].depth \in Nat
  <2>1. handlers \in Seq(Handler)
    BY DEF IInv, TypeOK
  <2>2. DOMAIN handlers = 1 .. Len(handlers) /\ Len(handlers) \in Nat
    BY <2>1
  <2>3. \A j \in DOMAIN handlers : handlers[j] \in Handler
    BY <2>1, <2>2, ElementOfSeq
  <2> QED BY <2>2, <2>3 DEF Handler
<1>10. \A j \in DOMAIN handlers' :
         \/ j \in DOMAIN handlers /\ j <= cpp[m].floor /\ handlers'[j] = handlers[j]
         \/ j > cpp[m].floor /\ handlers'[j].frame > F
  BY <1>7, <1>8, <1>9
<1>a. NestedAt(k)'
  <2>1. NestedAt(k)
    BY <1>1 DEF IInv, Nested
  <2> QED BY <2>1, <1>2 DEF NestedAt
<1>b. MarkAt(k)'
  <2>1. MarkAt(k)
    BY <1>1 DEF IInv, MarksHold
  <2> QED BY <2>1, <1>0, <1>2, <1>4, <1>5, <1>1 DEF MarkAt
<1>c. StopAt(k)'
  <2>1. StopAt(k)
    BY <1>1 DEF IInv, EndsStop
  <2>2. CASE Ends(cpp[k])
    <3>1. Lim(k)' = Lim(k) /\ Floor(k - 1)' = Floor(k - 1) /\ k < Len(cpp) /\ cpp'[k] = cpp[k]
      BY <2>2, <1>1, <1>2, <1>3, <1>4
    <3> QED BY <2>1, <3>1 DEF StopAt, Stop
  <2>3. CASE ~Ends(cpp[k])
    BY <2>3, <1>2 DEF StopAt, Ends
  <2> QED BY <2>2, <2>3
<1>d. ResumeAt(k)'
  <2>1. ResumeAt(k)
    BY <1>1 DEF IInv, Resumes
  <2>2. currentGen' = currentGen \/ cpp[k].fn # "resume"
    BY <1>1 DEF Kept
  <2> QED BY <2>1, <2>2, <1>2 DEF ResumeAt
<1>e. FloorAt(k)'
  <2>1. FloorAt(k)
    BY <1>1 DEF IInv, FloorsExact
  <2>2. CASE cpp[k].fn = "execute"
    <3>1. cpp[k].floor \in Nat /\ cpp[k].floor <= cpp[m].floor
      <4>1. cpp[k].floor \in Nat
        BY <2>2, <1>4, RecordFacts
      <4>2. cpp[k].floor > cpp[m].floor => FALSE
        <5> HAVE cpp[k].floor > cpp[m].floor
        <5>1. cpp[k].floor \in DOMAIN handlers /\ handlers[cpp[k].floor].frame <= F
          <6>1. cpp[k].floor \in 1 .. Len(handlers)
            BY <4>1, <2>1, <2>2, <1>7 DEF FloorAt
          <6>2. handlers[cpp[k].floor].frame <= Floor(k) /\ handlers[cpp[k].floor].frame \in Nat
            BY <6>1, <2>1, <2>2, <1>9 DEF FloorAt
          <6>3. Floor(k) \in Nat /\ Floor(k) <= F /\ F \in Nat
            BY <2>2, <1>1, <1>4
          <6>4. cpp[k].floor \in DOMAIN handlers
            BY <6>1, <1>9
          <6> QED BY <6>2, <6>3, <6>4
        <5> QED BY <5>1, <1>7, <4>1
      <4> QED BY <4>1, <4>2, <1>7
    <3>2. /\ cpp[k].floor <= Len(handlers)
          /\ \A j \in DOMAIN handlers : j <= cpp[k].floor <=> handlers[j].frame <= Floor(k)
      BY <2>1, <2>2 DEF FloorAt
    <3>3. cpp'[k] = cpp[k] /\ Floor(k)' = Floor(k) /\ Floor(k) \in Nat /\ Floor(k) <= F
      BY <2>2, <1>2, <1>3, <1>4
    <3>4. ASSUME NEW j \in DOMAIN handlers'
          PROVE  j <= cpp[k].floor <=> handlers'[j].frame <= Floor(k)
      <4>1. handlers'[j].frame \in Nat /\ F \in Nat /\ j \in Nat
        BY <3>4, <1>0, <1>1
      <4>2. CASE j \in DOMAIN handlers /\ j <= cpp[m].floor /\ handlers'[j] = handlers[j]
        BY <4>2, <3>2
      <4>3. CASE j > cpp[m].floor /\ handlers'[j].frame > F
        <5>1. ~(handlers'[j].frame <= Floor(k))
          BY <4>1, <4>3, <3>3
        <5>2. ~(j <= cpp[k].floor)
          BY <4>1, <4>3, <3>1, <1>7
        <5> QED BY <5>1, <5>2
      <4> QED BY <4>2, <4>3, <1>10
    <3>5. cpp[k].floor <= Len(handlers')
      BY <3>1, <1>7, <1>8
    <3> QED BY <3>3, <3>4, <3>5 DEF FloorAt
  <2>3. CASE cpp[k].fn # "execute"
    BY <2>3, <1>2 DEF FloorAt
  <2> QED BY <2>2, <2>3
<1>f. k < m - 1 => DeferFrameAt(k)'
  <2>1. DeferFrameAt(k)
    BY <1>1 DEF IInv, DeferFrames
  <2>2. CASE k < m - 1 /\ cpp[k].fn = "defers"
    <3>1. cpp[k].saved \in Nat /\ cpp[k].saved < F /\ cpp[k].saved + 1 \in 1 .. F
      BY <2>2, <1>1, <1>4 DEF Waits, Mark
    <3>2. runs'[cpp[k].saved + 1] = runs[cpp[k].saved + 1] /\ frameCount > cpp[k].saved
      BY <3>1, <1>1, <1>6
    <3>3. frameCount' > cpp[k].saved /\ cpp'[k] = cpp[k]
      BY <3>1, <1>0, <1>1, <1>2, <1>5
    <3> QED BY <3>2, <3>3, <2>1, <2>2 DEF DeferFrameAt
  <2>3. CASE k < m - 1 /\ cpp[k].fn # "defers"
    BY <2>3, <1>2 DEF DeferFrameAt
  <2> QED BY <2>2, <2>3
<1>g. k < Len(cpp') => CallerAt(k)'
  <2>1. CallerAt(k) /\ CallerAt(k)
    BY <1>1 DEF IInv, CallersKept
  <2>2. CASE k < Len(cpp') /\ Calls(cpp[k])
    <3>1. cpp[k].caller.n \in Nat /\ cpp[k].caller.n <= F
      BY <2>2, <1>4, RecordFacts DEF Waits, Mark, Calls
    <3>2. Len(cpp[k].caller.handlers) \in Nat /\ Len(cpp[k].caller.handlers) = cpp[k + 1].floor
      BY <2>1, <2>2, <1>1, <1>4, RecordFacts, LenProperties DEF CallerAt
    <3>3. cpp[k + 1].fn = "execute"
      <4>1. NestedAt(k + 1) /\ cpp[k + 1] \in Record /\ k + 1 > 1
        <5>1. k + 1 \in DOMAIN cpp /\ cpp \in Seq(Record)
          BY <1>1 DEF IInv, TypeOK
        <5>2. NestedAt(k + 1)
          BY <5>1 DEF IInv, Nested
        <5> QED BY <5>1, <5>2, <1>1, ElementOfSeq
      <4>2. ~Ends(cpp[k]) /\ cpp[k].fn # "execute"
        BY <2>2 DEF Calls, Ends
      <4>3. k + 1 - 1 = k
        BY <1>1
      <4>4. ~Ends(cpp[k + 1]) /\ ~Calls(cpp[k + 1]) /\ cpp[k + 1].fn # "defers"
        BY <4>1, <4>2, <4>3 DEF NestedAt
      <4> QED BY <4>1, <4>4, RecordFacts DEF Waits
    <3>4. cpp[k + 1].floor <= cpp[m].floor
      <4>1. FloorAt(k + 1) /\ k + 1 \in DOMAIN cpp
        BY <1>1 DEF IInv, FloorsExact
      <4>2. Floor(k + 1) = cpp[k].caller.n
        BY <1>1, <2>2 DEF Floor, Mark, Calls
      <4>3. cpp[k + 1].floor > cpp[m].floor => FALSE
        <5> HAVE cpp[k + 1].floor > cpp[m].floor
        <5>1. cpp[k + 1].floor \in DOMAIN handlers /\ handlers[cpp[k + 1].floor].frame <= F
          <6>1. cpp[k + 1].floor \in 1 .. Len(handlers)
            BY <4>1, <3>2, <3>3, <1>7 DEF FloorAt
          <6>2. handlers[cpp[k + 1].floor].frame <= cpp[k].caller.n
                /\ handlers[cpp[k + 1].floor].frame \in Nat
            BY <6>1, <4>1, <4>2, <3>2, <3>3, <1>9 DEF FloorAt
          <6>3. cpp[k].caller.n \in Nat /\ cpp[k].caller.n <= F /\ F \in Nat
            BY <3>1, <1>1
          <6>4. cpp[k + 1].floor \in DOMAIN handlers
            BY <6>1, <1>9
          <6> QED BY <6>2, <6>3, <6>4
        <5> QED BY <5>1, <1>7, <3>2
      <4> QED BY <4>3, <3>2, <1>7
    <3>5. /\ \A i \in 1 .. cpp[k].caller.n : frames[i] = cpp[k].caller.frames[i]
          /\ \A j \in 1 .. Len(cpp[k].caller.handlers) : handlers[j] = cpp[k].caller.handlers[j]
      BY <2>1, <2>2 DEF CallerAt
    <3>6. \A i \in 1 .. cpp[k].caller.n : frames'[i] = cpp[k].caller.frames[i]
      <4>1. \A i \in 1 .. cpp[k].caller.n : i \in 1 .. F
        BY <3>1, <1>1
      <4> QED BY <4>1, <3>5, <1>6
    <3>7. /\ \A j \in 1 .. Len(cpp[k].caller.handlers) : handlers'[j] = cpp[k].caller.handlers[j]
          /\ Len(cpp[k].caller.handlers) <= Len(handlers')
      <4>1. Len(cpp[k].caller.handlers) \in Nat /\ Len(cpp[k].caller.handlers) <= cpp[m].floor
        BY <3>2, <3>4, <1>7
      <4>2. \A j \in 1 .. Len(cpp[k].caller.handlers) : j \in 1 .. cpp[m].floor
        BY <4>1, <1>7
      <4> QED BY <4>1, <4>2, <3>5, <1>7, <1>8
    <3>8. cpp'[k] = cpp[k] /\ k # Len(cpp') /\ cpp'[k + 1] = cpp[k + 1]
      BY <2>2, <1>1, <1>2
    <3> QED BY <3>2, <3>6, <3>7, <3>8 DEF CallerAt
  <2>3. CASE ~Calls(cpp[k])
    BY <2>3, <1>2 DEF CallerAt, Calls
  <2> QED BY <2>2, <2>3
<1>h. ClosedAt(k)'
  <2>1. ClosedAt(k) /\ StopAt(k)
    BY <1>1 DEF IInv, EndsClosed, EndsStop
  <2>2. CASE Ends(cpp[k])
    <3>1. k < m - 1 /\ Lim(k) \in Nat /\ Lim(k) <= F /\ Lim(k)' = Lim(k) /\ cpp'[k] = cpp[k]
      BY <2>2, <1>2, <1>3, <1>4
    <3>2. cpp[k].fn \in {"catch", "unwind"} => Stop(cpp[k]) \in Nat /\ Stop(cpp[k]) < Lim(k)
      BY <3>1, <2>1, <1>1, <1>4, RecordFacts DEF StopAt, Stop, Handler
    <3>3. cpp[k].fn = "return" => Lim(k) >= 1
      <4>1. cpp[k].fn = "return" => Floor(k - 1) \in Nat /\ Floor(k - 1) < Lim(k)
        BY <2>1, <2>2, <1>4, <1>1, BelowExec DEF StopAt
      <4> QED BY <4>1, <3>1
    <3>4. cpp[k].fn = "catch" => cpp[k].handler.frame \in 1 .. F
      <4>1. cpp[k].fn = "catch" => Floor(k - 1) \in Nat /\ Floor(k - 1) < cpp[k].handler.frame
        BY <2>1, <2>2, <1>4, <1>1, BelowExec DEF StopAt
      <4>2. cpp[k].fn = "catch" => cpp[k].handler.frame = Stop(cpp[k])
        BY DEF Stop
      <4> SUFFICES ASSUME cpp[k].fn = "catch", NEW f, f = cpp[k].handler.frame, NEW l, l = Lim(k),
                          NEW g, g = Floor(k - 1)
                   PROVE  f \in 1 .. F
        OBVIOUS
      <4>3. f \in Nat /\ f < l /\ g \in Nat /\ g < f
        BY <4>1, <4>2, <3>2
      <4>4. l \in Nat /\ l <= F /\ F \in Nat
        BY <3>1, <1>1
      <4> QED BY <4>3, <4>4
    <3>5. (cpp[k].fn = "return" => open[Lim(k)] = 0)'
      BY <3>1, <3>3, <2>1, <1>6 DEF ClosedAt
    <3>6. (cpp[k].fn = "catch" => \A i \in cpp[k].handler.frame + 1 .. Lim(k) : open[i] = 0)'
      <4> SUFFICES ASSUME cpp[k].fn = "catch", NEW f, f = cpp[k].handler.frame, NEW l, l = Lim(k),
                          NEW i \in f + 1 .. l, NEW G, G = F
                   PROVE  open'[i] = 0
        BY <3>1
      <4>1. open[i] = 0
        BY <2>1 DEF ClosedAt
      <4>2. f \in 1 .. G /\ l \in Nat /\ l <= G /\ G \in Nat
        BY <3>1, <3>4, <1>1
      <4>3. i \in 1 .. G
        BY <4>2
      <4> QED BY <4>1, <4>3, <1>6
    <3>8. (cpp[k].fn = "unwind" => \A i \in Floor(k - 1) + 1 .. Lim(k) : open[i] = 0)'
      <4> SUFFICES ASSUME cpp[k].fn = "unwind", NEW g, g = Floor(k - 1), NEW l, l = Lim(k),
                          NEW i \in g + 1 .. l, NEW G, G = F
                   PROVE  open'[i] = 0
        BY <3>1, <2>2, <1>3, <1>4
      <4>1. open[i] = 0
        BY <2>1 DEF ClosedAt
      <4>2. l \in Nat /\ l <= G /\ G \in Nat
        BY <3>1, <1>1
      <4>4. g \in Nat
        <5>1. k - 1 \in 1 .. m - 1 /\ cpp[k - 1].fn = "execute"
          BY <2>2, <1>2, <1>4
        <5>2. Floor(k - 1) \in Nat
          BY <5>1, BelowExec
        <5> QED BY <5>2
      <4>3. i \in 1 .. G
        BY <4>2, <4>4
      <4> QED BY <4>1, <4>3, <1>6
    <3>7. (cpp[k].fn = "catch" =>
             LET h == cpp[k].handler IN
             /\ h.act = frames[h.frame] /\ open[h.frame] = h.depth + 1
             /\ \A j \in DOMAIN handlers : handlers[j].frame = h.frame => handlers[j].depth < h.depth)'
      <4> SUFFICES ASSUME cpp[k].fn = "catch", NEW h, h = cpp[k].handler
                   PROVE  /\ h.act = frames'[h.frame] /\ open'[h.frame] = h.depth + 1
                          /\ \A j \in DOMAIN handlers' : handlers'[j].frame = h.frame =>
                                                           handlers'[j].depth < h.depth
        BY <3>1
      <4>1. /\ h.act = frames[h.frame] /\ open[h.frame] = h.depth + 1
            /\ \A j \in DOMAIN handlers : handlers[j].frame = h.frame => handlers[j].depth < h.depth
        BY <2>1 DEF ClosedAt
      <4>2. h.frame \in 1 .. F
        BY <3>4
      <4>3. \A j \in DOMAIN handlers' : handlers'[j].frame = h.frame =>
              j \in DOMAIN handlers /\ handlers'[j] = handlers[j]
        BY <4>2, <1>1, <1>10
      <4> QED BY <4>1, <4>2, <4>3, <1>6
    <3> QED BY <3>5, <3>6, <3>7, <3>8 DEF ClosedAt
  <2>3. CASE ~Ends(cpp[k])
    BY <2>3, <1>2 DEF ClosedAt, Ends
  <2> QED BY <2>2, <2>3
<1>i. ExitAt(k)'
  <2>1. ExitAt(k)
    BY <1>1 DEF IInv, ExitsFree
  <2>2. CASE cpp[k].fn = "unwind" /\ cpp[k].how = "exit"
    <3>1. Lim(k) \in Nat /\ Lim(k) <= F /\ Lim(k)' = Lim(k) /\ cpp'[k] = cpp[k]
      BY <2>2, <1>2, <1>3, <1>4 DEF Ends
    <3>2. \A x \in 1 .. k : cpp'[x] = cpp[x]
      <4>1. \A x \in 1 .. k : x \in 1 .. m - 1
        BY <1>1
      <4>2. \A x \in 1 .. m - 1 : cpp'[x] = cpp[x]
        BY DEF Kept
      <4> QED BY <4>1, <4>2
    <3>3. \A i \in 1 .. Lim(k) : open'[i] = open[i]
      BY <3>1, <1>1, <1>6
    <3>4. ExitFree(k, Lim(k))
      BY <2>1, <2>2 DEF ExitAt
    <3>5. ASSUME NEW n, n = Lim(k)
          PROVE  ExitFree(k, n)'
      <4>1. \A x \in 1 .. k - 1 : cpp'[x] = cpp[x]
        <5>1. \A x \in 1 .. k - 1 : x \in 1 .. k
          BY <1>1
        <5> QED BY <5>1, <3>2
      <4>2. \A i \in 1 .. n : open'[i] = open[i]
        BY <3>3, <3>5
      <4>3. ExitFree(k, n)
        BY <3>4, <3>5
      <4>4. (\A j \in 1 .. k - 1 : cpp[j].fn # "defers")'
        BY <4>1, <4>3 DEF ExitFree
      <4>5. (\A j \in 1 .. k - 1 : cpp[j].fn = "resume" =>
               \E p \in j .. k - 1 : cpp[p].fn = "posted")'
        <5>1. \A j \in 1 .. k - 1 : \A p \in j .. k - 1 : p \in 1 .. k - 1
          BY <1>1
        <5> QED BY <4>1, <4>3, <5>1 DEF ExitFree
      <4>6. (\A i \in 1 .. n : open[i] # 0 =>
               \E p \in 1 .. k - 1 : cpp[p].fn = "posted" /\ i <= cpp[p].caller.n)'
        BY <4>1, <4>2, <4>3 DEF ExitFree
      <4> QED BY <4>4, <4>5, <4>6 DEF ExitFree
    <3>6. ASSUME NEW n, n = Lim(k)
          PROVE  ExitAt(k)'
      BY <3>1, <3>5, <3>6 DEF ExitAt, ExitFree
    <3> QED BY <3>6
  <2>3. CASE ~(cpp[k].fn = "unwind" /\ cpp[k].how = "exit")
    BY <2>3, <1>2 DEF ExitAt
  <2> QED BY <2>2, <2>3
<1>j. TodoAt(k)'
  <2>1. TodoAt(k)
    BY <1>1 DEF IInv, TodosExact
  <2>2. CASE cpp[k].fn = "defers"
    <3> DEFINE r == cpp[k]
    <3>1. r.saved \in 1 .. F
      BY <2>1, <2>2, <1>4, <1>1 DEF Waits, Mark, TodoAt
    <3>2. r.act = frames[r.saved] /\ Pends(r.todo, r.act) /\ deferStack[r.saved] = <<>>
          /\ runs[r.saved] \notin {"defer", "gen"}
      BY <2>1, <2>2 DEF TodoAt
    <3>3. \A i \in Floor(m) + 1 .. frameCount : frames[i] # r.act
      BY <3>1, <3>2, <1>1 DEF IInv, Live
    <3>4. \A d \in 1 .. Len(defers) : defers[d].owner = r.act => defers'[d] = defers[d]
      BY <3>3 DEF Kept
    <3>5. \A d \in 1 .. Len(defers) : d \in 1 .. Len(defers')
      BY DEF Kept
    <3>6. ASSUME NEW s, s = r.todo, NEW a, a = r.act
          PROVE  Pends(s, a)'
      BY <3>2, <3>4, <3>5, <3>6 DEF Pends, Rising
    <3>7. cpp'[k] = r
      BY <1>2
    <3>8. frames'[r.saved] = frames[r.saved] /\ deferStack'[r.saved] = deferStack[r.saved]
          /\ runs'[r.saved] = runs[r.saved]
      BY <3>1, <1>6
    <3>9. ASSUME NEW s, s = r.todo, NEW a, a = r.act
          PROVE  TodoAt(k)'
      BY <3>1, <3>2, <3>6, <3>7, <3>8, <3>9 DEF TodoAt, Pends
    <3> QED BY <3>9
  <2>3. CASE cpp[k].fn # "defers"
    BY <2>3, <1>2 DEF TodoAt
  <2> QED BY <2>2, <2>3
<1> QED BY <1>a, <1>b, <1>c, <1>d, <1>e, <1>f, <1>g, <1>h, <1>i, <1>j

\* What is above the execute() at m has frames of its own.
LEMMA AboveExec ==
  ASSUME IInv, NEW m \in DOMAIN cpp, cpp[m].fn = "execute"
  PROVE  \A k \in m .. Len(cpp) :
           /\ k \in DOMAIN cpp /\ cpp[k] \in Record
           /\ Waits(cpp[k]) => Mark(cpp[k]) \in Nat /\ Mark(cpp[k]) > Floor(m)
           /\ Ends(cpp[k]) => /\ k - 1 >= m /\ k - 1 \in DOMAIN cpp /\ cpp[k - 1].fn = "execute"
                              /\ Floor(k - 1) \in Nat /\ Floor(k - 1) >= Floor(m)
<1> TAKE k \in m .. Len(cpp)
<1>1. /\ m \in Nat \ {0} /\ Len(cpp) \in Nat /\ m <= Len(cpp) /\ DOMAIN cpp = 1 .. Len(cpp)
      /\ frameCount \in Nat /\ Floor(m) \in Nat /\ Floor(m) <= frameCount
  BY BelowExec
<1>2. k \in DOMAIN cpp /\ k \in Nat /\ k >= m
  BY <1>1
<1>3. cpp[k] \in Record
  <2>1. cpp \in Seq(Record)
    BY DEF IInv, TypeOK
  <2> QED BY <2>1, <1>2, ElementOfSeq, <1>1
<1>4. ASSUME Waits(cpp[k])
      PROVE  Mark(cpp[k]) \in Nat /\ Mark(cpp[k]) > Floor(m)
  <2> SUFFICES ASSUME m > 1
               PROVE  Mark(cpp[k]) \in Nat /\ Mark(cpp[k]) > Floor(m)
    <3>1. MarkAt(k)
      BY <1>2 DEF IInv, MarksHold
    <3> QED BY <3>1, <1>1, <1>3, <1>4, RecordFacts DEF MarkAt, Floor
  <2>1. m > 1 /\ Floor(m) = Mark(cpp[m - 1]) /\ m - 1 \in DOMAIN cpp /\ m - 1 < k
    BY <1>1, <1>2, <1>4 DEF Floor
  <2>2. Waits(cpp[m - 1])
    BY <2>1 DEF IInv, Nested, NestedAt
  <2>3. Mark(cpp[m - 1]) < Mark(cpp[k])
    BY <2>1, <2>2, <1>2, <1>4 DEF IInv, MarksRise
  <2>4. Mark(cpp[k]) \in Nat
    BY <1>3, <1>4, RecordFacts
  <2> QED BY <2>1, <2>3, <2>4, <1>1
<1>5. ASSUME Ends(cpp[k])
      PROVE  /\ k - 1 >= m /\ k - 1 \in DOMAIN cpp /\ cpp[k - 1].fn = "execute"
             /\ Floor(k - 1) \in Nat /\ Floor(k - 1) >= Floor(m)
  <2>1. k # m
    BY <1>5 DEF Ends
  <2>2. k - 1 >= m /\ k - 1 \in DOMAIN cpp /\ k > 1
    BY <2>1, <1>1, <1>2
  <2>3. cpp[k - 1].fn = "execute"
    BY <2>2, <1>2, <1>5 DEF IInv, Nested, NestedAt
  <2>4. m = k - 1 \/ m \in 1 .. k - 1 - 1
    BY <2>2, <1>1, <1>2
  <2>5. m \in 1 .. k - 1 - 1 => Floor(m) <= Floor(k - 1)
    BY <2>2, <2>3, BelowExec
  <2>6. Floor(k - 1) \in Nat
    BY <2>2, <2>3, BelowExec
  <2> QED BY <2>2, <2>3, <2>4, <2>5, <2>6, <1>1
<1> QED BY <1>2, <1>3, <1>4, <1>5

\* So what names a frame below m is below m.
LEMMA NamesBelow ==
  ASSUME IInv, NEW m \in DOMAIN cpp, cpp[m].fn = "execute", NEW i \in 1 .. Floor(m),
         NEW k \in DOMAIN cpp
  PROVE  /\ Waits(cpp[k]) /\ Mark(cpp[k]) <= i => k < m
         /\ cpp[k].fn = "return" /\ Lim(k) = i => k < m
         /\ cpp[k].fn = "catch" /\ cpp[k].handler.frame = i => k < m
         /\ cpp[k].fn \in {"catch", "unwind"} /\ Stop(cpp[k]) < Lim(k) /\ Lim(k) = i => k < m
<1>1. /\ m \in Nat \ {0} /\ Len(cpp) \in Nat /\ m <= Len(cpp) /\ DOMAIN cpp = 1 .. Len(cpp)
      /\ frameCount \in Nat /\ Floor(m) \in Nat
  BY BelowExec
<1>2. SUFFICES ASSUME ~(k < m)
               PROVE  /\ ~(Waits(cpp[k]) /\ Mark(cpp[k]) <= i)
                      /\ ~(cpp[k].fn = "return" /\ Lim(k) = i)
                      /\ ~(cpp[k].fn = "catch" /\ cpp[k].handler.frame = i)
                      /\ ~(cpp[k].fn \in {"catch", "unwind"} /\ Stop(cpp[k]) < Lim(k) /\ Lim(k) = i)
  OBVIOUS
<1>3. k \in m .. Len(cpp) /\ i \in Nat /\ i <= Floor(m) /\ Floor(m) > 0
  BY <1>1, <1>2
<1>4. /\ cpp[k] \in Record
      /\ Waits(cpp[k]) => Mark(cpp[k]) \in Nat /\ Mark(cpp[k]) > Floor(m)
      /\ Ends(cpp[k]) => /\ k > 1 /\ k - 1 \in DOMAIN cpp /\ cpp[k - 1].fn = "execute"
                         /\ Floor(k - 1) \in Nat /\ Floor(k - 1) >= Floor(m)
  BY <1>1, <1>3, AboveExec
<1>5. StopAt(k) /\ NestedAt(k)
  BY DEF IInv, EndsStop, Nested
<1>6. ~(Waits(cpp[k]) /\ Mark(cpp[k]) <= i)
  BY <1>1, <1>3, <1>4
<1>7. ~(cpp[k].fn = "return" /\ Lim(k) = i)
  BY <1>1, <1>3, <1>4, <1>5 DEF StopAt, Ends
<1>8. ~(cpp[k].fn = "catch" /\ cpp[k].handler.frame = i)
  BY <1>1, <1>3, <1>4, <1>5 DEF StopAt, Ends
<1>9. ASSUME cpp[k].fn \in {"catch", "unwind"}, Stop(cpp[k]) < Lim(k), Lim(k) = i
      PROVE  FALSE
  <2>1. cpp[k].fn = "catch" => Floor(k - 1) < Stop(cpp[k]) /\ Stop(cpp[k]) \in Nat
    BY <1>5, <1>4, RecordFacts DEF StopAt, Stop, Handler
  <2>2. cpp[k].fn = "unwind" => Floor(k - 1) <= Stop(cpp[k]) /\ Stop(cpp[k]) \in Nat
    <3> HAVE cpp[k].fn = "unwind"
    <3>1. /\ k > 1 /\ k - 1 \in DOMAIN cpp /\ cpp[k - 1].fn = "execute"
          /\ Stop(cpp[k]) = cpp[k - 1].base
      BY <1>4, <1>5 DEF Ends, NestedAt, Stop
    <3>2. NestedAt(k - 1) /\ cpp[k - 1] \in Record
      <4>1. cpp \in Seq(Record)
        BY DEF IInv, TypeOK
      <4> QED BY <3>1, <4>1, <1>1, ElementOfSeq DEF IInv, Nested
    <3>3. cpp[k - 1].base \in Nat
      BY <3>1, <3>2, RecordFacts
    <3>4. k - 1 = 1 => Floor(k - 1) = 0
      BY DEF Floor
    <3>5. k - 1 # 1 => /\ k - 1 > 1 /\ Floor(k - 1) = Mark(cpp[k - 1 - 1])
                       /\ Waits(cpp[k - 1 - 1])
      BY <1>1, <1>3, <3>1, <3>2 DEF Floor, NestedAt
    <3>6. ASSUME k - 1 > 1
          PROVE  cpp[k - 1].base \in {Mark(cpp[k - 1 - 1]), Mark(cpp[k - 1 - 1]) + 1}
      BY <3>1, <3>2, <3>5, <3>6, <1>1, <1>3 DEF NestedAt, Waits, Mark, Calls
    <3> QED BY <3>1, <3>3, <3>4, <3>5, <3>6, <1>4 DEF Ends
  <2> QED BY <2>1, <2>2, <1>9, <1>1, <1>3, <1>4 DEF Ends
<1> QED BY <1>6, <1>7, <1>8, <1>9

\* The frames below those of m keep what the invariant says of them.
LEMMA LowerFrames ==
  ASSUME IInv, NEW m \in DOMAIN cpp, cpp[m].fn = "execute", Kept(m), TypeFact'
  PROVE  \A i \in 1 .. Floor(m) :
           /\ frames'[i] = frames[i] /\ open'[i] = open[i] /\ runs'[i] = runs[i]
           /\ ListAt(i)'
           /\ \A d \in Nat : d < open'[i] => <<i, d>> \in handled' \cup caught'
           /\ runs'[i] = "defer" /\ open'[i] > 0 => i \in marks'
           /\ runs'[i] = "gen" => i \in resumed'
           /\ \A d \in 1 .. Len(defers') :
                defers'[d].started = 1 /\ frames'[i] = defers'[d].owner => i \in ending'
           /\ \A d \in 1 .. Len(defers) : defers[d].owner = frames[i] =>
                defers'[d] = defers[d] /\ (Pending(d, i) => Pending(d, i)')
<1> TAKE i \in 1 .. Floor(m)
<1> DEFINE F == Floor(m)
<1>0. /\ Len(cpp') \in Nat /\ DOMAIN cpp' = 1 .. Len(cpp') /\ frameCount' \in Nat
      /\ Len(handlers') \in Nat /\ DOMAIN handlers' = 1 .. Len(handlers')
      /\ Len(defers') \in Nat
  BY DEF TypeFact
<1>t. Len(defers) \in Nat
  BY TypeFacts DEF IInv, TypeFact
<1>1. /\ m \in Nat \ {0} /\ Len(cpp) \in Nat /\ m <= Len(cpp) /\ DOMAIN cpp = 1 .. Len(cpp)
      /\ frameCount \in Nat /\ F \in Nat /\ F <= frameCount
      /\ i \in Nat /\ i >= 1 /\ i <= F /\ i \in 1 .. frameCount /\ m > 1
  <2>1. m = 1 => F = 0
    BY DEF Floor
  <2> QED BY <2>1, BelowExec
<1>2. /\ frames'[i] = frames[i] /\ open'[i] = open[i]
      /\ runs'[i] = runs[i] /\ deferStack'[i] = deferStack[i]
  BY DEF Kept
<1>3. ASSUME NEW k \in DOMAIN cpp, k < m
      PROVE  k \in DOMAIN cpp' /\ cpp'[k] = cpp[k] /\ k \in 1 .. m - 1
  <2>1. k \in 1 .. m - 1 /\ m - 1 <= Len(cpp')
    BY <1>1, <1>3 DEF Kept
  <2> QED BY <2>1, <1>1 DEF Kept
<1>4. \A d \in 1 .. Len(defers) : defers[d].owner = frames[i] => defers'[d] = defers[d]
  <2>1. \A x \in F + 1 .. frameCount : frames[x] # frames[i]
    BY <1>1 DEF IInv, Live
  <2> QED BY <2>1 DEF Kept
<1>5. \A d \in 1 .. Len(defers) : d \in 1 .. Len(defers')
  BY DEF Kept
<1>6. /\ cpp[m].floor <= Len(handlers')
      /\ \A j \in 1 .. cpp[m].floor : handlers'[j] = handlers[j]
  BY DEF Kept
<1>7. /\ cpp[m].floor \in Nat
      /\ \A j \in DOMAIN handlers : j <= cpp[m].floor <=> handlers[j].frame <= F
  <2>1. cpp[m] \in Record
    BY DEF IInv, TypeOK
  <2>2. FloorAt(m)
    BY DEF IInv, FloorsExact
  <2> QED BY <2>1, <2>2, RecordFacts DEF FloorAt
<1>a. ListAt(i)'
  <2>1. i \in 1 .. FramesMax
    BY <1>1, BoundAssumption DEF IInv, TypeOK
  <2>2. /\ Pends(deferStack[i], frames[i])
        /\ deferStack[i] # <<>> => runs[i] \notin {"defer", "gen"}
    BY <1>1, <2>1 DEF IInv, ListsExact, ListAt
  <2>3. i <= frameCount'
    BY <1>0, <1>1 DEF Kept
  <2>4. ASSUME NEW s, s = deferStack[i], NEW a, a = frames[i]
        PROVE  ListAt(i)'
    <3>1. Pends(s, a)'
      <4>1. Rising(s) /\ \A x \in DOMAIN s : /\ s[x] \in 1 .. Len(defers)
                                             /\ defers[s[x]].owner = a /\ defers[s[x]].started = 0
        BY <2>2, <2>4 DEF Pends
      <4>2. \A x \in DOMAIN s : defers'[s[x]] = defers[s[x]] /\ s[x] \in 1 .. Len(defers')
        BY <4>1, <2>4, <1>4, <1>5
      <4> QED BY <4>1, <4>2 DEF Pends, Rising
    <3>2. deferStack'[i] = s /\ frames'[i] = a /\ runs'[i] = runs[i]
      BY <2>4, <1>2
    <3>3. i <= frameCount' /\ ~(i > frameCount')
      BY <2>3, <1>0, <1>1
    <3>4. s # <<>> => runs'[i] \notin {"defer", "gen"}
      BY <2>2, <2>4, <3>2
    <3> QED BY <3>1, <3>2, <3>3, <3>4 DEF ListAt, Pends
  <2> QED BY <2>4
<1>b. ASSUME NEW d \in Nat, d < open'[i]
      PROVE  <<i, d>> \in handled' \cup caught'
  <2>1. <<i, d>> \in handled \cup caught
    BY <1>1, <1>2, <1>b DEF IInv, OpenHandled
  <2>2. CASE <<i, d>> \in handled
    <3>1. PICK j \in DOMAIN handlers : handlers[j].frame = i /\ handlers[j].depth = d
      BY <2>2 DEF handled
    <3>2. j \in 1 .. cpp[m].floor
      <4>1. j \in Nat /\ j >= 1
        BY DEF IInv, TypeOK
      <4> QED BY <3>1, <4>1, <1>1, <1>7
    <3>3. j \in DOMAIN handlers' /\ handlers'[j] = handlers[j]
      BY <3>2, <1>6, <1>7
    <3> QED BY <3>1, <3>3 DEF handled
  <2>3. CASE <<i, d>> \in caught
    <3>1. PICK k \in DOMAIN cpp : /\ cpp[k].fn = "catch"
                                  /\ cpp[k].handler.frame = i /\ cpp[k].handler.depth = d
      BY <2>3 DEF caught
    <3>2. k < m
      BY <3>1, NamesBelow
    <3> QED BY <3>1, <3>2, <1>3 DEF caught
  <2> QED BY <2>1, <2>2, <2>3
<1>c. ASSUME runs'[i] = "defer", open'[i] > 0
      PROVE  i \in marks'
  <2>1. CASE i = F
    <3>1. m - 1 \in DOMAIN cpp /\ m - 1 < m /\ i = Mark(cpp[m - 1])
      BY <2>1, <1>1 DEF Floor
    <3>2. Waits(cpp[m - 1])
      BY <1>1 DEF IInv, Nested, NestedAt
    <3> QED BY <3>1, <3>2, <1>3 DEF marks
  <2>2. CASE i # F
    <3>1. i < frameCount
      BY <2>2, <1>1
    <3>2. i \in marks
      BY <3>1, <1>1, <1>2, <1>c DEF IInv, DeferOpens
    <3>3. PICK k \in DOMAIN cpp : Waits(cpp[k]) /\ Mark(cpp[k]) = i
      BY <3>2 DEF marks
    <3>4. k < m
      BY <3>3, <1>1, NamesBelow
    <3> QED BY <3>3, <3>4, <1>3 DEF marks
  <2> QED BY <2>1, <2>2
<1>d. ASSUME runs'[i] = "gen"
      PROVE  i \in resumed'
  <2>1. i \in resumed
    BY <1>1, <1>2, <1>d DEF IInv, Resumes
  <2>2. PICK k \in DOMAIN cpp : cpp[k].fn = "resume" /\ i = cpp[k].caller.n + 1
    BY <2>1 DEF resumed
  <2>3. Waits(cpp[k]) /\ Mark(cpp[k]) = cpp[k].caller.n
    BY <2>2 DEF Waits, Calls, Mark
  <2>4. Mark(cpp[k]) \in Nat
    <3>1. cpp \in Seq(Record)
      BY DEF IInv, TypeOK
    <3>2. cpp[k] \in Record
      BY <3>1, <1>1, ElementOfSeq
    <3> QED BY <3>2, <2>3, RecordFacts
  <2>5. k < m
    BY <2>2, <2>3, <2>4, <1>1, NamesBelow
  <2> QED BY <2>2, <2>5, <1>3 DEF resumed
<1>e. ASSUME NEW d \in 1 .. Len(defers'), defers'[d].started = 1, frames'[i] = defers'[d].owner
      PROVE  i \in ending'
  <2>1. d \in 1 .. Len(defers) /\ defers'[d] = defers[d]
    <3>1. d \in 1 .. Len(defers)
      <4>1. d \in 1 .. Len(defers) \/ d \in Len(defers) + 1 .. Len(defers')
        OBVIOUS
      <4> QED BY <4>1, <1>2, <1>e DEF Kept
    <3>2. defers'[d].owner = defers[d].owner
      BY <3>1 DEF Kept
    <3> QED BY <3>1, <3>2, <1>2, <1>4, <1>e
  <2>2. i \in ending
    BY <2>1, <1>1, <1>2, <1>e DEF IInv, StartedEnds
  <2>3. PICK k \in DOMAIN cpp :
          /\ Lim(k) = i
          /\ \/ cpp[k].fn = "return"
             \/ cpp[k].fn \in {"catch", "unwind"} /\ Stop(cpp[k]) < Lim(k)
    BY <2>2 DEF ending
  <2>4. k < m
    BY <2>3, NamesBelow
  <2>5. k + 1 < m /\ k + 1 \in DOMAIN cpp
    BY <2>3, <2>4, <1>1, BelowExec DEF Ends
  <2>6. Lim(k)' = Lim(k) /\ k \in DOMAIN cpp' /\ cpp'[k] = cpp[k]
    <3>1. k + 1 \in DOMAIN cpp' /\ cpp'[k + 1] = cpp[k + 1] /\ cpp'[k] = cpp[k] /\ k \in DOMAIN cpp'
      BY <2>4, <2>5, <1>3
    <3> QED BY <3>1, <2>5, <1>1 DEF Lim, Mark
  <2>7. (Stop(cpp[k]))' = Stop(cpp[k])
    BY <2>6 DEF Stop
  <2> QED BY <2>3, <2>6, <2>7 DEF ending
<1>f. ASSUME NEW d \in 1 .. Len(defers), defers[d].owner = frames[i], Pending(d, i)
      PROVE  Pending(d, i)'
  <2>1. CASE \E x \in DOMAIN deferStack[i] : deferStack[i][x] = d
    BY <2>1, <1>2 DEF Pending
  <2>2. CASE \E k \in DOMAIN cpp : /\ cpp[k].fn = "defers" /\ cpp[k].saved = i
                                   /\ \E x \in DOMAIN cpp[k].todo : cpp[k].todo[x] = d
    <3>1. PICK k \in DOMAIN cpp : /\ cpp[k].fn = "defers" /\ cpp[k].saved = i
                                  /\ \E x \in DOMAIN cpp[k].todo : cpp[k].todo[x] = d
      BY <2>2
    <3>2. k < m
      BY <3>1, <1>1, NamesBelow DEF Waits, Mark
    <3> QED BY <3>1, <3>2, <1>3 DEF Pending
  <2> QED BY <2>1, <2>2, <1>f DEF Pending
<1> QED BY <1>2, <1>4, <1>a, <1>b, <1>c, <1>d, <1>e, <1>f

\* What the invariant says of the rest: the execute() at m and what is above it.
RecordAt(k) == /\ NestedAt(k) /\ MarkAt(k) /\ StopAt(k) /\ ResumeAt(k) /\ FloorAt(k)
               /\ CallerAt(k) /\ ClosedAt(k) /\ ExitAt(k) /\ TodoAt(k) /\ DeferFrameAt(k)

StackAbove(m) ==
  /\ \A k \in m .. Len(cpp) : RecordAt(k)
  /\ m > 1 => DeferFrameAt(m - 1) /\ (Len(cpp) = m - 1 => CallerAt(m - 1))
  /\ \A k \in m .. Len(cpp) : Waits(cpp[k]) =>
       /\ m > 1 => Mark(cpp[k]) > Mark(cpp[m - 1])
       /\ \A x \in m .. Len(cpp) : Waits(cpp[x]) => x = k

FramesAbove(m) ==
  /\ Live /\ OneGenerator /\ HandlersRise /\ LastSlot /\ DefersLifo
  /\ currentGen.set => resumed # {}
  /\ \A i \in Floor(m) + 1 .. frameCount : runs[i] = "gen" => i \in resumed
  /\ \A i \in Floor(m) + 1 .. frameCount : \A d \in Nat :
       d < open[i] => <<i, d>> \in handled \cup caught
  /\ \A i \in Floor(m) + 1 .. frameCount : runs[i] = "defer" /\ open[i] > 0 /\ i < frameCount =>
       i \in marks
  /\ \A j \in DOMAIN handlers : handlers[j].frame > Floor(m) =>
       /\ handlers[j].frame <= frameCount
       /\ handlers[j].act = frames[handlers[j].frame]
       /\ handlers[j].depth < open[handlers[j].frame]
  /\ ret = "exit" => ExitFree(Len(cpp) + 1, frameCount)
  /\ \A i \in Floor(m) + 1 .. FramesMax : ListAt(i)
  /\ \A d \in 1 .. Len(defers) : /\ defers[d].owner \in 1 .. Len(kind)
                                 /\ kind[defers[d].owner] \notin {"defer", "gen"}
                                 /\ defers[d].started \in {0, 1}
  /\ \A d \in 1 .. Len(defers) : defers[d].started = 0 =>
       \/ \E i \in 1 .. Floor(m) : frames[i] = defers[d].owner
       \/ \E i \in Floor(m) + 1 .. frameCount : frames[i] = defers[d].owner /\ Pending(d, i)
  /\ \A d \in 1 .. Len(defers) : defers[d].started = 1 =>
       \A i \in Floor(m) + 1 .. frameCount : frames[i] = defers[d].owner => i \in ending

Above(m) == StackAbove(m) /\ Reported /\ TopFrames /\ OverClosed /\ FramesAbove(m)

\* The two parts make the whole.
LEMMA Assembled ==
  ASSUME IInv, NEW m \in DOMAIN cpp, cpp[m].fn = "execute", Kept(m), TypeOK', Above(m)'
  PROVE  IInv'
<1> DEFINE F == Floor(m)
<1>1. /\ m \in Nat \ {0} /\ Len(cpp) \in Nat /\ m <= Len(cpp) /\ F \in Nat
      /\ frameCount \in Nat /\ F <= frameCount
  BY BelowExec
<1>2. /\ frameCount' \in Nat /\ frameCount' <= FramesMax /\ FramesMax \in Nat
      /\ Len(cpp') \in Nat /\ DOMAIN cpp' = 1 .. Len(cpp')
      /\ Len(handlers') \in Nat /\ DOMAIN handlers' = 1 .. Len(handlers')
      /\ \A j \in DOMAIN handlers' : /\ handlers'[j].frame \in Nat
      /\ Len(defers') \in Nat
  BY NextTypeFacts DEF TypeFact
<1>3. /\ Len(kind) \in Nat /\ Len(defers) \in Nat /\ DOMAIN handlers = 1 .. Len(handlers)
      /\ \A k \in DOMAIN cpp : cpp[k] \in Record
  BY TypeFacts DEF IInv, TypeFact
<1>4. /\ m - 1 <= Len(cpp') /\ \A k \in 1 .. m - 1 : cpp'[k] = cpp[k]
      /\ F <= frameCount'
  BY DEF Kept
<1>5. F' = F /\ m - 1 >= 0 /\ (m > 1 => F = Mark(cpp[m - 1]) /\ cpp'[m - 1] = cpp[m - 1])
  BY <1>1, <1>4 DEF Floor, Mark
<1>6. \A k \in DOMAIN cpp' : k \in 1 .. m - 1 \/ k \in m .. Len(cpp')
  BY <1>1, <1>2
<1>7. \A i \in 1 .. frameCount' : i \in 1 .. F \/ i \in F + 1 .. frameCount'
  BY <1>1, <1>2
<1>8. \A k \in 1 .. m - 1 :
        /\ NestedAt(k)' /\ MarkAt(k)' /\ StopAt(k)' /\ ResumeAt(k)' /\ FloorAt(k)'
        /\ k < m - 1 => DeferFrameAt(k)'
        /\ k < Len(cpp') => CallerAt(k)'
        /\ ClosedAt(k)' /\ ExitAt(k)' /\ TodoAt(k)'
  BY NextTypeFacts, LowerKept
<1>9. \A i \in 1 .. F :
        /\ frames'[i] = frames[i] /\ open'[i] = open[i] /\ runs'[i] = runs[i]
        /\ ListAt(i)'
        /\ \A d \in Nat : d < open'[i] => <<i, d>> \in handled' \cup caught'
        /\ runs'[i] = "defer" /\ open'[i] > 0 => i \in marks'
        /\ runs'[i] = "gen" => i \in resumed'
        /\ \A d \in 1 .. Len(defers') :
             defers'[d].started = 1 /\ frames'[i] = defers'[d].owner => i \in ending'
        /\ \A d \in 1 .. Len(defers) : defers[d].owner = frames[i] =>
             defers'[d] = defers[d] /\ (Pending(d, i) => Pending(d, i)')
  BY NextTypeFacts, LowerFrames
<1>a. Nested' /\ MarksHold' /\ EndsStop' /\ (\A k \in DOMAIN cpp : ResumeAt(k))'
  <2>1. (\A k \in m .. Len(cpp) : NestedAt(k) /\ MarkAt(k) /\ StopAt(k) /\ ResumeAt(k))'
    BY DEF Above, StackAbove, RecordAt, FramesAbove
  <2> QED BY <2>1, <1>6, <1>8 DEF Nested, MarksHold, EndsStop
<1>b. FloorsExact' /\ CallersKept'
  <2>1. (\A k \in m .. Len(cpp) : FloorAt(k) /\ CallerAt(k))'
    BY DEF Above, StackAbove, RecordAt, FramesAbove
  <2>2. (m > 1 /\ Len(cpp) = m - 1 => CallerAt(m - 1))'
    BY DEF Above, StackAbove, RecordAt, FramesAbove
  <2>3. \A k \in 1 .. m - 1 : k >= Len(cpp') => k = m - 1 /\ Len(cpp') = m - 1 /\ m > 1
    BY <1>1, <1>2, <1>4
  <2>4. \A k \in 1 .. m - 1 : k < Len(cpp') \/ k >= Len(cpp')
    BY <1>2
  <2> QED BY <2>1, <2>2, <2>3, <2>4, <1>6, <1>8 DEF FloorsExact, CallersKept
<1>c. EndsClosed' /\ (\A k \in DOMAIN cpp : ExitAt(k))'
  <2>1. (\A k \in m .. Len(cpp) : ClosedAt(k) /\ ExitAt(k))'
    BY DEF Above, StackAbove, RecordAt, FramesAbove
  <2> QED BY <2>1, <1>6, <1>8 DEF EndsClosed
<1>d. TodosExact' /\ DeferFrames'
  <2>1. (\A k \in m .. Len(cpp) : TodoAt(k) /\ DeferFrameAt(k))' /\ (m > 1 => DeferFrameAt(m - 1))'
    BY DEF Above, StackAbove, RecordAt, FramesAbove
  <2>2. \A k \in 1 .. m - 1 : k >= m - 1 => k = m - 1 /\ m > 1
    BY <1>1
  <2>3. \A k \in 1 .. m - 1 : k < m - 1 \/ k >= m - 1
    BY <1>1
  <2> QED BY <2>1, <2>2, <2>3, <1>6, <1>8 DEF TodosExact, DeferFrames
<1>e. MarksRise'
  <2>1. (\A k \in m .. Len(cpp) : Waits(cpp[k]) =>
           /\ m > 1 => Mark(cpp[k]) > Mark(cpp[m - 1])
           /\ \A x \in m .. Len(cpp) : Waits(cpp[x]) => x = k)'
    BY DEF Above, StackAbove, RecordAt, FramesAbove
  <2> SUFFICES ASSUME NEW j \in DOMAIN cpp', NEW k \in DOMAIN cpp', j < k,
                      Waits(cpp'[j]), Waits(cpp'[k])
               PROVE  Mark(cpp'[j]) < Mark(cpp'[k])
    BY DEF MarksRise
  <2>2. j \in Nat /\ k \in Nat
    BY <1>2
  <2>3. \A x \in 1 .. m - 1 : Waits(cpp[x]) => Mark(cpp[x]) \in Nat /\ Mark(cpp[x]) <= F
    BY BelowExec
  <2>4. CASE k \in 1 .. m - 1
    <3>1. j \in 1 .. m - 1 /\ j \in DOMAIN cpp /\ k \in DOMAIN cpp
      BY <2>2, <2>4, <1>1, <1>2, <1>3, TypeFacts DEF IInv, TypeFact
    <3>2. cpp'[j] = cpp[j] /\ cpp'[k] = cpp[k]
      BY <3>1, <2>4, <1>4
    <3>3. MarksRise
      BY DEF IInv
    <3> QED BY <3>1, <3>2, <3>3 DEF MarksRise
  <2>5. CASE k \in m .. Len(cpp') /\ j \in 1 .. m - 1
    <3>1. m > 1 /\ cpp'[j] = cpp[j] /\ Mark(cpp[j]) \in Nat /\ Mark(cpp[j]) <= F
      BY <2>3, <2>5, <1>1, <1>4
    <3>2. Mark(cpp'[k]) > Mark(cpp'[m - 1]) /\ Mark(cpp'[m - 1]) = F
      BY <2>1, <2>5, <3>1, <1>5
    <3>3. Mark(cpp'[k]) \in Nat
      <4>1. cpp'[k] \in Record
        BY NextTypeFacts DEF TypeFact
      <4> QED BY <4>1, RecordFacts
    <3> QED BY <3>1, <3>2, <3>3, <1>1
  <2>6. CASE k \in m .. Len(cpp') /\ j \in m .. Len(cpp')
    BY <2>1, <2>2, <2>6
  <2> QED BY <2>4, <2>5, <2>6, <1>6
<1>f. Resumes'
  <2>1. (currentGen.set => resumed # {})'
    BY DEF Above, FramesAbove
  <2>2. \A i \in F + 1 .. frameCount' : runs'[i] = "gen" => i \in resumed'
    BY <1>5 DEF Above, FramesAbove
  <2> QED BY <2>1, <2>2, <1>a, <1>7, <1>9 DEF Resumes
<1>g. OpenHandled'
  <2>1. \A i \in F + 1 .. frameCount' : \A d \in Nat :
          d < open'[i] => <<i, d>> \in handled' \cup caught'
    BY <1>5 DEF Above, FramesAbove
  <2> QED BY <2>1, <1>7, <1>9 DEF OpenHandled
<1>h. DeferOpens'
  <2>1. \A i \in F + 1 .. frameCount' : runs'[i] = "defer" /\ open'[i] > 0 /\ i < frameCount' =>
          i \in marks'
    BY <1>5 DEF Above, FramesAbove
  <2> QED BY <2>1, <1>7, <1>9 DEF DeferOpens
<1>i. HandlersLive'
  <2>1. \A j \in DOMAIN handlers' : handlers'[j].frame > F =>
          /\ handlers'[j].frame <= frameCount'
          /\ handlers'[j].act = frames'[handlers'[j].frame]
          /\ handlers'[j].depth < open'[handlers'[j].frame]
    BY <1>5 DEF Above, FramesAbove
  <2> SUFFICES ASSUME NEW j \in DOMAIN handlers'
               PROVE  /\ handlers'[j].frame \in 1 .. frameCount'
                      /\ handlers'[j].act = frames'[handlers'[j].frame]
                      /\ handlers'[j].depth < open'[handlers'[j].frame]
    BY DEF HandlersLive
  <2>2. handlers'[j].frame \in Nat
    BY <1>2
  <2>3. CASE handlers'[j].frame > F
    BY <2>1, <2>2, <2>3, <1>1, <1>2
  <2>4. CASE ~(handlers'[j].frame > F)
    <3>1. ~(j > cpp[m].floor) /\ cpp[m].floor \in Nat
      <4>1. cpp[m].floor \in Nat
        BY <1>3, RecordFacts
      <4> QED BY <4>1, <2>4 DEF Kept
    <3>2. j \in 1 .. cpp[m].floor
      BY <3>1, <1>2
    <3>3. handlers'[j] = handlers[j]
      BY <3>2 DEF Kept
    <3>4. j \in DOMAIN handlers
      <4>1. FloorAt(m)
        BY DEF IInv, FloorsExact
      <4>2. cpp[m].floor <= Len(handlers) /\ Len(handlers) \in Nat
        BY <4>1, TypeFacts DEF FloorAt, IInv, TypeFact
      <4> QED BY <3>1, <3>2, <4>2, <1>3
    <3>5. /\ handlers[j].frame \in 1 .. frameCount
          /\ handlers[j].act = frames[handlers[j].frame]
          /\ handlers[j].depth < open[handlers[j].frame]
      BY <3>4 DEF IInv, HandlersLive
    <3>6. handlers[j].frame \in 1 .. F
      BY <3>3, <3>5, <2>2, <2>4, <1>1
    <3> QED BY <3>3, <3>5, <3>6, <1>1, <1>2, <1>4, <1>9
  <2> QED BY <2>3, <2>4
<1>j. ListsExact'
  <2>1. \A i \in F + 1 .. FramesMax : ListAt(i)'
    BY <1>5 DEF Above, FramesAbove
  <2>2. \A i \in 1 .. FramesMax : i \in 1 .. F \/ i \in F + 1 .. FramesMax
    BY <1>1, <1>2
  <2> QED BY <2>1, <2>2, <1>9 DEF ListsExact
<1>k. NoneLost'
  <2>1. (\A d \in 1 .. Len(defers) : /\ defers[d].owner \in 1 .. Len(kind)
                                     /\ kind[defers[d].owner] \notin {"defer", "gen"}
                                     /\ defers[d].started \in {0, 1})'
    BY DEF Above, StackAbove, RecordAt, FramesAbove
  <2>2. \A d \in 1 .. Len(defers') : defers'[d].started = 0 =>
          \/ \E i \in 1 .. F : frames'[i] = defers'[d].owner
          \/ \E i \in F + 1 .. frameCount' : frames'[i] = defers'[d].owner /\ Pending(d, i)'
    BY <1>5 DEF Above, FramesAbove
  <2>3. ASSUME NEW d \in 1 .. Len(defers'), defers'[d].started = 0
        PROVE  \E i \in 1 .. frameCount' : frames'[i] = defers'[d].owner /\ Pending(d, i)'
    <3>1. CASE \E i \in 1 .. F : frames'[i] = defers'[d].owner
      <4>1. PICK i \in 1 .. F : frames'[i] = defers'[d].owner
        BY <3>1
      <4>2. frames[i] = defers'[d].owner /\ i \in 1 .. frameCount /\ i \in 1 .. frameCount'
        BY <4>1, <1>1, <1>2, <1>4, <1>9
      <4>3. d \in 1 .. Len(defers) \/ d \in Len(defers) + 1 .. Len(defers')
        BY <1>2, <1>3
      <4>4. d \in 1 .. Len(defers)
        BY <4>2, <4>3 DEF Kept
      <4>5. defers'[d].owner = defers[d].owner
        BY <4>4 DEF Kept
      <4>6. defers'[d] = defers[d] /\ (Pending(d, i) => Pending(d, i)')
        BY <4>2, <4>4, <4>5, <1>9
      <4>7. PICK x \in 1 .. frameCount : frames[x] = defers[d].owner /\ Pending(d, x)
        BY <4>4, <4>6, <2>3 DEF IInv, NoneLost
      <4>8. x = i
        BY <4>2, <4>5, <4>7 DEF IInv, Live
      <4> QED BY <4>1, <4>2, <4>6, <4>7, <4>8
    <3>2. CASE \E i \in F + 1 .. frameCount' : frames'[i] = defers'[d].owner /\ Pending(d, i)'
      <4>1. \A i \in F + 1 .. frameCount' : i \in 1 .. frameCount'
        BY <1>1, <1>2
      <4> QED BY <3>2, <4>1
    <3> QED BY <3>1, <3>2, <2>2, <2>3
  <2> QED BY <2>1, <2>3 DEF NoneLost
<1>l. StartedEnds'
  <2>1. \A d \in 1 .. Len(defers') : defers'[d].started = 1 =>
          \A i \in F + 1 .. frameCount' : frames'[i] = defers'[d].owner => i \in ending'
    BY <1>5 DEF Above, FramesAbove
  <2> QED BY <2>1, <1>7, <1>9 DEF StartedEnds
<1>m. ExitsFree'
  <2>1. (ret = "exit" => ExitFree(Len(cpp) + 1, frameCount))'
    BY DEF Above, StackAbove, RecordAt, FramesAbove
  <2> QED BY <2>1, <1>c DEF ExitsFree
<1>n. /\ Reported' /\ TopFrames' /\ Live' /\ OneGenerator' /\ HandlersRise' /\ OverClosed'
      /\ LastSlot' /\ DefersLifo'
  BY DEF Above, FramesAbove
<1> QED BY <1>a, <1>b, <1>c, <1>d, <1>e, <1>f, <1>g, <1>h, <1>i, <1>j, <1>k, <1>l, <1>m, <1>n
        DEF IInv

-----------------------------------------------------------------------------
(* The C++ stack after a step: the part from the execute() at m on.          *)

\* The deferred call that m runs keeps its frame.
LEMMA FrameKept ==
  ASSUME IInv, NEW m \in DOMAIN cpp, cpp[m].fn = "execute", Kept(m), m > 1,
         cpp[m - 1].fn = "defers" => /\ Floor(m) < frameCount' /\ Floor(m) < frameCount
                                     /\ runs'[Floor(m) + 1] = runs[Floor(m) + 1]
  PROVE  DeferFrameAt(m - 1)'
<1>1. m - 1 \in DOMAIN cpp /\ m - 1 \in 1 .. m - 1 /\ m \in Nat /\ m - 1 \in Nat
  BY BelowExec
<1>2. cpp'[m - 1] = cpp[m - 1]
  BY <1>1 DEF Kept
<1>3. cpp[m - 1].fn = "defers" => Floor(m) = cpp[m - 1].saved
  BY <1>1 DEF Floor, Mark
<1>4. DeferFrameAt(m - 1)
  BY <1>1 DEF IInv, DeferFrames
<1> QED BY <1>2, <1>3, <1>4 DEF DeferFrameAt

\* The execute() at m itself is the same record.
LEMMA ExecKept ==
  ASSUME IInv, NEW m \in DOMAIN cpp, cpp[m].fn = "execute", Kept(m), TypeOK', m <= Len(cpp')
  PROVE  /\ m \in Nat \ {0} /\ cpp'[m] = cpp[m] /\ RecordAt(m)' /\ Floor(m)' = Floor(m)
         /\ ~Waits(cpp'[m]) /\ ~Ends(cpp'[m]) /\ ~Calls(cpp'[m])
<1>1. m \in Nat \ {0} /\ cpp'[m] = cpp[m] /\ cpp'[m].fn = "execute"
  BY BelowExec DEF Kept
<1>3. ~Waits(cpp'[m]) /\ ~Ends(cpp'[m]) /\ ~Calls(cpp'[m])
  BY <1>1 DEF Waits, Ends, Calls
<1>4. NestedAt(m)'
  <2>1. NestedAt(m)
    BY DEF IInv, Nested
  <2>2. m > 1 => cpp'[m - 1] = cpp[m - 1]
    BY <1>1 DEF Kept
  <2> QED BY <2>1, <2>2, <1>1, <1>3 DEF NestedAt
<1>2. Floor(m)' = Floor(m)
  <2>1. m > 1 => cpp'[m - 1] = cpp[m - 1]
    BY <1>1 DEF Kept
  <2> QED BY <2>1, <1>1 DEF Floor, Mark
<1>5. FloorAt(m)'
  <2>2. /\ cpp[m].floor \in Nat
        /\ \A j \in DOMAIN handlers : j <= cpp[m].floor <=> handlers[j].frame <= Floor(m)
        /\ cpp[m].floor <= Len(handlers)
    <3>1. FloorAt(m)
      BY DEF IInv, FloorsExact
    <3>2. cpp[m] \in Record
      BY DEF IInv, TypeOK
    <3> QED BY <3>1, <3>2, RecordFacts DEF FloorAt
  <2>3. /\ cpp[m].floor <= Len(handlers')
        /\ \A j \in 1 .. cpp[m].floor : handlers'[j] = handlers[j]
        /\ \A j \in DOMAIN handlers' : j > cpp[m].floor => handlers'[j].frame > Floor(m)
    BY DEF Kept
  <2>4. /\ DOMAIN handlers' = 1 .. Len(handlers') /\ DOMAIN handlers = 1 .. Len(handlers)
        /\ Len(handlers) \in Nat /\ Floor(m) \in Nat
        /\ \A j \in DOMAIN handlers' : handlers'[j].frame \in Nat
    BY TypeFacts, NextTypeFacts, BelowExec DEF IInv, TypeFact
  <2>5. ASSUME NEW j \in DOMAIN handlers'
        PROVE  j <= cpp[m].floor <=> handlers'[j].frame <= Floor(m)
    <3>1. CASE j <= cpp[m].floor
      <4>1. j \in 1 .. cpp[m].floor /\ j \in DOMAIN handlers
        BY <3>1, <2>2, <2>4, <2>5
      <4> QED BY <4>1, <3>1, <2>2, <2>3
    <3>2. CASE j > cpp[m].floor
      BY <3>2, <2>2, <2>3, <2>4, <2>5
    <3> QED BY <3>1, <3>2, <2>2, <2>4
  <2> QED BY <1>2, <2>3, <2>5, <1>1 DEF FloorAt
<1>6. MarkAt(m)' /\ StopAt(m)' /\ ResumeAt(m)' /\ CallerAt(m)'
  BY <1>1, <1>3 DEF MarkAt, StopAt, ResumeAt, CallerAt
<1>7. ClosedAt(m)' /\ ExitAt(m)' /\ TodoAt(m)' /\ DeferFrameAt(m)'
  BY <1>1, <1>3 DEF ClosedAt, ExitAt, TodoAt, DeferFrameAt
<1> QED BY <1>1, <1>2, <1>3, <1>4, <1>5, <1>6, <1>7 DEF RecordAt

\* m is on top.
LEMMA ExecOnTop ==
  ASSUME IInv, NEW m \in DOMAIN cpp, cpp[m].fn = "execute", Kept(m), TypeOK', Len(cpp') = m,
         m > 1 => DeferFrameAt(m - 1)'
  PROVE  StackAbove(m)'
<1>1. /\ m \in Nat \ {0} /\ RecordAt(m)' /\ ~Waits(cpp'[m])
      /\ \A k \in m .. Len(cpp') : k = m
  BY ExecKept
<1>2. (m > 1 => DeferFrameAt(m - 1) /\ (Len(cpp) = m - 1 => CallerAt(m - 1)))'
  BY <1>1
<1> QED BY <1>1, <1>2 DEF StackAbove

\* m is left: what waits for it is on top.
LEMMA PopOnTop ==
  ASSUME IInv, NEW m \in DOMAIN cpp, cpp[m].fn = "execute", Kept(m), TypeOK', Len(cpp') = m - 1,
         m > 1 => DeferFrameAt(m - 1)' /\ CallerAt(m - 1)'
  PROVE  StackAbove(m)'
<1>1. m \in Nat \ {0} /\ \A k \in m .. Len(cpp') : FALSE
  BY BelowExec
<1> QED BY <1>1 DEF StackAbove

\* m is about to end a function.
LEMMA EndOnTop ==
  ASSUME IInv, NEW m \in DOMAIN cpp, cpp[m].fn = "execute", Kept(m), TypeOK', Len(cpp') = m + 1,
         m > 1 => DeferFrameAt(m - 1)',
         Ends(cpp'[m + 1]), cpp'[m + 1].fn = "unwind" => cpp'[m + 1].target = cpp[m].base,
         StopAt(m + 1)', ClosedAt(m + 1)', ExitAt(m + 1)'
  PROVE  StackAbove(m)'
<1>1. /\ m \in Nat \ {0} /\ cpp'[m] = cpp[m] /\ RecordAt(m)' /\ ~Waits(cpp'[m])
      /\ \A k \in m .. Len(cpp') : k = m \/ k = m + 1
  <2>1. m \in Nat \ {0} /\ m <= Len(cpp')
    BY BelowExec
  <2>2. \A k \in m .. Len(cpp') : k = m \/ k = m + 1
    BY <2>1
  <2> QED BY <2>1, <2>2, ExecKept
<1>2. /\ m + 1 > 1 /\ m + 1 # 1 /\ m + 1 - 1 = m /\ m + 1 \in Nat /\ cpp'[m].fn = "execute"
      /\ ~Waits(cpp'[m + 1]) /\ ~Calls(cpp'[m + 1]) /\ cpp'[m + 1].fn # "execute"
      /\ cpp'[m + 1].fn # "defers" /\ cpp'[m + 1].fn # "resume"
  BY <1>1 DEF Ends, Waits, Calls
<1>3. NestedAt(m + 1)'
  BY <1>1, <1>2 DEF NestedAt
<1>4. MarkAt(m + 1)' /\ ResumeAt(m + 1)' /\ FloorAt(m + 1)' /\ CallerAt(m + 1)'
  BY <1>2 DEF MarkAt, ResumeAt, FloorAt, CallerAt
<1>5. TodoAt(m + 1)' /\ DeferFrameAt(m + 1)'
  BY <1>2 DEF TodoAt, DeferFrameAt
<1>6. RecordAt(m + 1)'
  BY <1>3, <1>4, <1>5 DEF RecordAt
<1>7. (m > 1 => DeferFrameAt(m - 1) /\ (Len(cpp) = m - 1 => CallerAt(m - 1)))'
  BY <1>1
<1> QED BY <1>1, <1>2, <1>6, <1>7 DEF StackAbove

\* The deferred calls of a function that m ends run.
LEMMA DefersOnTop ==
  ASSUME IInv, NEW m \in DOMAIN cpp, cpp[m].fn = "execute", Kept(m), TypeOK', Len(cpp') = m + 2,
         m > 1 => DeferFrameAt(m - 1)',
         Ends(cpp'[m + 1]), cpp'[m + 1].fn = "unwind" => cpp'[m + 1].target = cpp[m].base,
         StopAt(m + 1)', ClosedAt(m + 1)', ExitAt(m + 1)', cpp'[m + 2].fn = "defers",
         MarkAt(m + 2)', TodoAt(m + 2)', DeferFrameAt(m + 2)', cpp'[m + 2].saved > Floor(m)
  PROVE  StackAbove(m)'
<1>1. /\ m \in Nat \ {0} /\ cpp'[m] = cpp[m] /\ RecordAt(m)' /\ ~Waits(cpp'[m])
      /\ \A k \in m .. Len(cpp') : k = m \/ k = m + 1 \/ k = m + 2
  <2>1. m \in Nat \ {0} /\ m <= Len(cpp')
    BY BelowExec
  <2>2. \A k \in m .. Len(cpp') : k = m \/ k = m + 1 \/ k = m + 2
    BY <2>1
  <2> QED BY <2>1, <2>2, ExecKept
<1>2. /\ m + 1 > 1 /\ m + 1 # 1 /\ m + 1 - 1 = m /\ m + 1 \in Nat /\ cpp'[m].fn = "execute"
      /\ ~Waits(cpp'[m + 1]) /\ ~Calls(cpp'[m + 1]) /\ cpp'[m + 1].fn # "execute"
      /\ cpp'[m + 1].fn # "defers" /\ cpp'[m + 1].fn # "resume"
  BY <1>1 DEF Ends, Waits, Calls
<1>3. NestedAt(m + 1)' /\ TodoAt(m + 1)' /\ DeferFrameAt(m + 1)'
  BY <1>1, <1>2 DEF NestedAt, TodoAt, DeferFrameAt
<1>4. MarkAt(m + 1)' /\ ResumeAt(m + 1)' /\ FloorAt(m + 1)' /\ CallerAt(m + 1)'
  BY <1>2 DEF MarkAt, ResumeAt, FloorAt, CallerAt
<1>5. RecordAt(m + 1)'
  BY <1>3, <1>4 DEF RecordAt
<1>6. /\ m + 2 > 1 /\ m + 2 # 1 /\ m + 2 - 1 = m + 1 /\ m + 2 \in Nat
      /\ Waits(cpp'[m + 2]) /\ ~Calls(cpp'[m + 2]) /\ ~Ends(cpp'[m + 2])
  BY <1>1 DEF Ends, Waits, Calls
<1>7. NestedAt(m + 2)' /\ StopAt(m + 2)' /\ ResumeAt(m + 2)' /\ FloorAt(m + 2)'
  <2>1. m + 2 - 1 = m + 1 /\ m \in Nat
    BY <1>1
  <2> QED BY <2>1, <1>6 DEF NestedAt, StopAt, ResumeAt, FloorAt, Ends
<1>8. CallerAt(m + 2)' /\ ClosedAt(m + 2)' /\ ExitAt(m + 2)'
  BY <1>6 DEF CallerAt, ClosedAt, ExitAt
<1>9. RecordAt(m + 2)'
  BY <1>7, <1>8 DEF RecordAt
<1>10. m > 1 => Mark(cpp'[m + 2]) > Mark(cpp'[m - 1])
  <2>0. m > 1 => m # 1 /\ m - 1 \in 1 .. m - 1
    BY <1>1
  <2>1. m > 1 => cpp'[m - 1] = cpp[m - 1]
    BY <2>0 DEF Kept
  <2>3. m > 1 => Floor(m) = Mark(cpp[m - 1])
    BY <2>0 DEF Floor
  <2>2. Mark(cpp'[m + 2]) = cpp'[m + 2].saved
    BY DEF Mark
  <2> QED BY <2>1, <2>2, <2>3
<1>11. (m > 1 => DeferFrameAt(m - 1) /\ (Len(cpp) = m - 1 => CallerAt(m - 1)))'
  BY <1>1
<1>12. (\A k \in m .. Len(cpp) : RecordAt(k))'
  BY <1>1, <1>5, <1>9
<1>13. (\A k \in m .. Len(cpp) : Waits(cpp[k]) =>
          /\ m > 1 => Mark(cpp[k]) > Mark(cpp[m - 1])
          /\ \A x \in m .. Len(cpp) : Waits(cpp[x]) => x = k)'
  BY <1>1, <1>2, <1>10
<1> QED BY <1>11, <1>12, <1>13 DEF StackAbove

\* m called what calls back.
LEMMA CallsOnTop ==
  ASSUME IInv, NEW m \in DOMAIN cpp, cpp[m].fn = "execute", Kept(m), TypeOK', Len(cpp') = m + 2,
         m > 1 => DeferFrameAt(m - 1)',
         Calls(cpp'[m + 1]), cpp'[m + 1].caller = Caller, cpp'[m + 2] = Exec(frameCount),
         ResumeAt(m + 1)', handlers' = handlers, frameCount' = frameCount + 1,
         \A i \in 1 .. frameCount : frames'[i] = frames[i],
         Floor(m) < frameCount
  PROVE  StackAbove(m)'
<1>1. /\ m \in Nat \ {0} /\ cpp'[m] = cpp[m] /\ RecordAt(m)' /\ ~Waits(cpp'[m])
      /\ \A k \in m .. Len(cpp') : k = m \/ k = m + 1 \/ k = m + 2
  <2>1. m \in Nat \ {0} /\ m <= Len(cpp')
    BY BelowExec
  <2>2. \A k \in m .. Len(cpp') : k = m \/ k = m + 1 \/ k = m + 2
    BY <2>1
  <2> QED BY <2>1, <2>2, ExecKept
<1>2. /\ m + 1 # 1 /\ m + 1 - 1 = m /\ m + 1 \in Nat /\ m + 1 # Len(cpp') /\ cpp'[m].fn = "execute"
      /\ m + 1 + 1 = m + 2 /\ m + 2 # 1 /\ m + 2 - 1 = m + 1 /\ m + 2 > 1
      /\ Waits(cpp'[m + 1]) /\ ~Ends(cpp'[m + 1])
      /\ cpp'[m + 1].fn # "execute" /\ cpp'[m + 1].fn # "defers"
      /\ cpp'[m + 1].fn # "catch" /\ cpp'[m + 1].fn # "unwind" /\ cpp'[m + 1].fn # "return"
  BY <1>1 DEF Ends, Waits, Calls
<1>3. /\ cpp'[m + 2].fn = "execute" /\ cpp'[m + 2].base = frameCount
      /\ cpp'[m + 2].floor = Len(handlers)
      /\ ~Waits(cpp'[m + 2]) /\ ~Calls(cpp'[m + 2]) /\ ~Ends(cpp'[m + 2])
  BY DEF Exec, Waits, Calls, Ends
<1>4. /\ cpp'[m + 1].caller.n = frameCount
      /\ \A i \in 1 .. frameCount : cpp'[m + 1].caller.frames[i] = frames[i]
      /\ cpp'[m + 1].caller.handlers = handlers
  BY DEF Caller
<1>5. /\ frameCount \in Nat /\ Floor(m) \in Nat
      /\ Len(handlers) \in Nat /\ DOMAIN handlers = 1 .. Len(handlers)
      /\ \A j \in DOMAIN handlers : handlers[j].frame \in Nat
  BY BelowExec, TypeFacts DEF IInv, TypeFact
<1>6. RecordAt(m + 1)'
  <2>1. NestedAt(m + 1)' /\ FloorAt(m + 1)' /\ StopAt(m + 1)'
    BY <1>1, <1>2 DEF NestedAt, FloorAt, StopAt
  <2>2. ClosedAt(m + 1)' /\ ExitAt(m + 1)' /\ TodoAt(m + 1)' /\ DeferFrameAt(m + 1)'
    BY <1>2 DEF ClosedAt, ExitAt, TodoAt, DeferFrameAt
  <2>3. MarkAt(m + 1)'
    BY <1>2, <1>4, <1>5 DEF MarkAt, Mark
  <2>4. CallerAt(m + 1)'
    BY <1>2, <1>3, <1>4, <1>5 DEF CallerAt
  <2> QED BY <2>1, <2>2, <2>3, <2>4 DEF RecordAt
<1>7. RecordAt(m + 2)'
  <2>1. NestedAt(m + 2)'
    BY <1>2, <1>3, <1>4 DEF NestedAt
  <2>2. MarkAt(m + 2)' /\ StopAt(m + 2)' /\ ResumeAt(m + 2)' /\ CallerAt(m + 2)'
    BY <1>3 DEF MarkAt, StopAt, ResumeAt, CallerAt
  <2>3. ClosedAt(m + 2)' /\ ExitAt(m + 2)' /\ TodoAt(m + 2)' /\ DeferFrameAt(m + 2)'
    BY <1>3 DEF ClosedAt, ExitAt, TodoAt, DeferFrameAt
  <2>4. FloorAt(m + 2)'
    <3>1. Floor(m + 2)' = frameCount
      BY <1>2, <1>4 DEF Floor, Mark
    <3>2. \A j \in DOMAIN handlers : j <= Len(handlers) /\ handlers[j].frame <= frameCount
      BY <1>5 DEF IInv, HandlersLive
    <3> QED BY <3>1, <3>2, <1>3, <1>5 DEF FloorAt
  <2> QED BY <2>1, <2>2, <2>3, <2>4 DEF RecordAt
<1>8. m > 1 => Mark(cpp'[m + 1]) > Mark(cpp'[m - 1])
  <2>1. m > 1 => Floor(m) = Mark(cpp[m - 1]) /\ cpp'[m - 1] = cpp[m - 1]
    BY <1>1 DEF Floor, Kept
  <2>2. Mark(cpp'[m + 1]) = frameCount
    BY <1>2, <1>4 DEF Mark
  <2> QED BY <2>1, <2>2, <1>5
<1>9. (m > 1 => DeferFrameAt(m - 1) /\ (Len(cpp) = m - 1 => CallerAt(m - 1)))'
  BY <1>1
<1>10. (\A k \in m .. Len(cpp) : RecordAt(k))'
  BY <1>1, <1>6, <1>7
<1>11. (\A k \in m .. Len(cpp) : Waits(cpp[k]) =>
          /\ m > 1 => Mark(cpp[k]) > Mark(cpp[m - 1])
          /\ \A x \in m .. Len(cpp) : Waits(cpp[x]) => x = k)'
  BY <1>1, <1>3, <1>8
<1> QED BY <1>9, <1>10, <1>11 DEF StackAbove

-----------------------------------------------------------------------------
(* What the steps do to handlers and frames.                                 *)

HandlersKept(m) ==
  /\ cpp[m].floor <= Len(handlers')
  /\ \A j \in 1 .. cpp[m].floor : handlers'[j] = handlers[j]
  /\ \A j \in DOMAIN handlers' : j > cpp[m].floor => handlers'[j].frame > Floor(m)

\* The handlers from m on.
LEMMA FloorFacts ==
  ASSUME IInv, NEW m \in DOMAIN cpp, cpp[m].fn = "execute"
  PROVE  /\ cpp[m].floor \in Nat /\ cpp[m].floor <= Len(handlers) /\ cpp[m].base \in Nat
         /\ \A j \in DOMAIN handlers : j <= cpp[m].floor <=> handlers[j].frame <= Floor(m)
         /\ \A j \in DOMAIN handlers : j > cpp[m].floor => handlers[j].frame > Floor(m)
         /\ m > 1 => cpp[m].base \in {Floor(m), Floor(m) + 1} /\ Waits(cpp[m - 1])
         /\ m > 1 /\ cpp[m - 1].fn = "defers" => cpp[m].base = Floor(m) + 1
         /\ m > 1 /\ Calls(cpp[m - 1]) => cpp[m].base = Floor(m)
         /\ m = 1 => cpp[m].base = 0 /\ Floor(m) = 0
         /\ Floor(m) <= cpp[m].base
<1>1. cpp[m] \in Record /\ FloorAt(m) /\ NestedAt(m) /\ m \in Nat \ {0}
  BY TypeFacts, BelowExec DEF IInv, FloorsExact, Nested, TypeFact
<1>2. /\ cpp[m].floor \in Nat /\ cpp[m].floor <= Len(handlers) /\ cpp[m].base \in Nat
      /\ \A j \in DOMAIN handlers : j <= cpp[m].floor <=> handlers[j].frame <= Floor(m)
  BY <1>1, RecordFacts DEF FloorAt
<1>3. /\ \A j \in DOMAIN handlers : j \in Nat /\ handlers[j].frame \in Nat
      /\ Floor(m) \in Nat
  BY TypeFacts, BelowExec DEF IInv, TypeFact
<1>4. \A j \in DOMAIN handlers : j > cpp[m].floor => handlers[j].frame > Floor(m)
  BY <1>2, <1>3
<1>5. /\ m > 1 => Waits(cpp[m - 1])
      /\ m > 1 /\ cpp[m - 1].fn = "defers" => cpp[m].base = Floor(m) + 1
      /\ m > 1 /\ Calls(cpp[m - 1]) => cpp[m].base = Floor(m)
      /\ m = 1 => cpp[m].base = 0 /\ Floor(m) = 0
  BY <1>1 DEF NestedAt, Floor, Mark, Calls
<1>6. m > 1 => cpp[m].base \in {Floor(m), Floor(m) + 1}
  BY <1>5 DEF Waits
<1>7. Floor(m) <= cpp[m].base
  BY <1>1, <1>3, <1>5, <1>6
<1> QED BY <1>2, <1>4, <1>5, <1>6, <1>7

LEMMA SameHandlers ==
  ASSUME IInv, NEW m \in DOMAIN cpp, cpp[m].fn = "execute", handlers' = handlers
  PROVE  HandlersKept(m)
  BY FloorFacts DEF HandlersKept

Popped(m) == Len(handlers) > cpp[m].floor /\ handlers' = Front(handlers)

LEMMA PoppedHandler ==
  ASSUME IInv, NEW m \in DOMAIN cpp, cpp[m].fn = "execute",
         Popped(m)
  PROVE  /\ HandlersKept(m) /\ handlers' \in Seq(Handler)
         /\ Len(handlers') = Len(handlers) - 1 /\ DOMAIN handlers' = 1 .. Len(handlers) - 1
         /\ \A j \in DOMAIN handlers' : j \in DOMAIN handlers /\ handlers'[j] = handlers[j]
         /\ Last(handlers) = handlers[Len(handlers)] /\ Len(handlers) \in DOMAIN handlers
         /\ handlers[Len(handlers)].frame > Floor(m)
<1>1. /\ cpp[m].floor \in Nat
      /\ \A j \in DOMAIN handlers : j > cpp[m].floor => handlers[j].frame > Floor(m)
  <2>1. /\ cpp[m].floor \in Nat
        /\ \A j \in DOMAIN handlers : j > cpp[m].floor => handlers[j].frame > Floor(m)
    BY FloorFacts
  <2> QED BY <2>1
<1>2. handlers \in Seq(Handler) /\ Len(handlers) \in Nat /\ DOMAIN handlers = 1 .. Len(handlers)
  <2>1. handlers \in Seq(Handler)
    BY DEF IInv, TypeOK
  <2> QED BY <2>1
<1>p. Len(handlers) > cpp[m].floor /\ handlers' = Front(handlers)
  BY DEF Popped
<1>3. handlers # <<>>
  <2>1. Len(handlers) # 0
    BY <1>1, <1>2, <1>p
  <2> QED BY <2>1
<1>4. /\ handlers' \in Seq(Handler) /\ Len(handlers') = Len(handlers) - 1
      /\ \A i \in 1 .. Len(handlers) - 1 : handlers'[i] = handlers[i]
      /\ Last(handlers) = handlers[Len(handlers)]
  BY <1>2, <1>3, <1>p, FrontLast, Zenon
<1>5. DOMAIN handlers' = 1 .. Len(handlers) - 1
  BY <1>4
<1>6. /\ \A j \in DOMAIN handlers' : j \in DOMAIN handlers /\ handlers'[j] = handlers[j]
      /\ Len(handlers) \in DOMAIN handlers /\ Len(handlers) \in Nat
  BY <1>1, <1>2, <1>4, <1>5, <1>p
<1>7. HandlersKept(m)
  BY <1>1, <1>2, <1>4, <1>5, <1>6, <1>p DEF HandlersKept
<1> QED BY <1>1, <1>4, <1>5, <1>6, <1>7, <1>p

LEMMA PushedHandler ==
  ASSUME IInv, NEW m \in DOMAIN cpp, cpp[m].fn = "execute", NEW h \in Handler,
         handlers' = Append(handlers, h), h.frame > Floor(m)
  PROVE  /\ HandlersKept(m) /\ handlers' \in Seq(Handler)
         /\ Len(handlers') = Len(handlers) + 1 /\ DOMAIN handlers' = 1 .. Len(handlers) + 1
         /\ \A j \in DOMAIN handlers : j \in DOMAIN handlers' /\ handlers'[j] = handlers[j]
         /\ handlers'[Len(handlers) + 1] = h
         /\ \A j \in DOMAIN handlers' : j \in DOMAIN handlers \/ j = Len(handlers) + 1
<1>1. /\ cpp[m].floor \in Nat /\ cpp[m].floor <= Len(handlers)
      /\ \A j \in DOMAIN handlers : j > cpp[m].floor => handlers[j].frame > Floor(m)
  BY FloorFacts
<1>2. handlers \in Seq(Handler) /\ Len(handlers) \in Nat /\ DOMAIN handlers = 1 .. Len(handlers)
  BY TypeFacts DEF IInv, TypeOK, TypeFact
<1>3. /\ handlers' \in Seq(Handler) /\ Len(handlers') = Len(handlers) + 1
      /\ \A i \in 1 .. Len(handlers) : handlers'[i] = handlers[i]
      /\ handlers'[Len(handlers) + 1] = h
  BY <1>2, Appended
<1>4. DOMAIN handlers' = 1 .. Len(handlers) + 1
  BY <1>3
<1>5. /\ \A j \in DOMAIN handlers : j \in DOMAIN handlers' /\ handlers'[j] = handlers[j]
      /\ \A j \in DOMAIN handlers' : j \in DOMAIN handlers \/ j = Len(handlers) + 1
  BY <1>2, <1>3, <1>4
<1>6. HandlersKept(m)
  BY <1>1, <1>2, <1>3, <1>4, <1>5 DEF HandlersKept
<1> QED BY <1>3, <1>4, <1>5, <1>6

\* What holds while an instruction runs.
LEMMA RunFacts ==
  ASSUME IInv, Running
  PROVE  /\ Len(cpp) \in Nat \ {0} /\ Len(cpp) \in DOMAIN cpp /\ cpp[Len(cpp)].fn = "execute"
         /\ Top = cpp[Len(cpp)] /\ ret = "none" /\ cpp # <<>>
         /\ frameCount \in 1 .. FramesMax /\ frameCount \in Nat
         /\ Floor(Len(cpp)) \in Nat /\ Floor(Len(cpp)) < frameCount
         /\ Current = frames[frameCount] /\ Current \in 1 .. Len(kind) /\ Current \notin gone
         /\ open[frameCount] = trys[Current] /\ runs[frameCount] = kind[Current]
         /\ \A k \in DOMAIN cpp : Waits(cpp[k]) => k < Len(cpp)
         /\ \A k \in DOMAIN cpp : cpp[k].fn = "catch" => k < Len(cpp)
<1>1. /\ Len(cpp) \in Nat \ {0} /\ Len(cpp) \in DOMAIN cpp /\ cpp[Len(cpp)].fn = "execute"
      /\ Top = cpp[Len(cpp)] /\ ret = "none" /\ cpp # <<>>
  <2>1. cpp \in Seq(Record) /\ cpp # <<>>
    BY DEF IInv, TypeOK, Running
  <2>2. Len(cpp) \in Nat \ {0} /\ Top = cpp[Len(cpp)]
    BY <2>1, FrontLast DEF Top
  <2> QED BY <2>1, <2>2 DEF Running
<1>2. Floor(Len(cpp)) \in Nat /\ frameCount \in Nat
  BY <1>1, BelowExec
<1>3. Floor(Len(cpp)) < frameCount
  BY <1>1 DEF IInv, TopFrames
<1>4. frameCount \in 1 .. FramesMax
  BY <1>2, <1>3, TypeFacts DEF IInv, TypeFact
<1>5. Current = frames[frameCount] /\ Current \in 1 .. Len(kind) /\ Current \notin gone
  BY <1>2, <1>3 DEF IInv, Live, Current
<1>6. open[frameCount] = trys[Current] /\ runs[frameCount] = kind[Current]
  BY <1>2, <1>3, <1>5 DEF open, runs
<1>7. \A k \in DOMAIN cpp : k # Len(cpp) => k < Len(cpp)
  BY <1>1, TypeFacts DEF IInv, TypeFact
<1>8. ~Waits(cpp[Len(cpp)])
  BY <1>1 DEF Waits, Calls
<1> QED BY <1>1, <1>2, <1>3, <1>4, <1>5, <1>6, <1>7, <1>8

\* A new activation in the next slot.
LEMMA PushFacts ==
  ASSUME IInv, NEW what \in {"func", "defer"}, PushFrame(what)
  PROVE  /\ frameCount \in Nat /\ frameCount' = frameCount + 1 /\ frameCount' \in 1 .. FramesMax
         /\ frames' \in [1 .. FramesMax -> Nat] /\ gone' = gone
         /\ kind' \in Seq({"script", "func", "gen", "defer"}) /\ trys' \in Seq(Nat)
         /\ Len(kind) \in Nat /\ Len(kind') = Len(kind) + 1
         /\ Len(trys) = Len(kind) /\ Len(trys') = Len(kind')
         /\ \A i \in 1 .. frameCount : /\ frames'[i] = frames[i] /\ frames[i] \in 1 .. Len(kind)
                                       /\ open'[i] = open[i]
                                       /\ runs'[i] = runs[i]
         /\ frames'[frameCount + 1] = Len(kind) + 1
         /\ \A a \in 1 .. Len(kind) : kind'[a] = kind[a] /\ trys'[a] = trys[a]
         /\ kind'[Len(kind) + 1] = what /\ trys'[Len(kind) + 1] = 0
         /\ runs'[frameCount + 1] = what /\ open'[frameCount + 1] = 0
<1>1. frameCount \in Nat /\ frameCount' = frameCount + 1 /\ frameCount' \in 1 .. FramesMax
  <2>1. frameCount \in Nat /\ frameCount <= FramesMax /\ FramesMax \in Nat
    BY TypeFacts DEF IInv, TypeFact
  <2>2. frameCount < FramesMax /\ frameCount' = frameCount + 1
    BY DEF PushFrame
  <2> QED BY <2>1, <2>2
<1>2. /\ kind \in Seq({"script", "func", "gen", "defer"}) /\ trys \in Seq(Nat)
      /\ Len(trys) = Len(kind) /\ Len(kind) \in Nat
  BY DEF IInv, TypeOK
<1>3. /\ kind' \in Seq({"script", "func", "gen", "defer"}) /\ Len(kind') = Len(kind) + 1
      /\ \A a \in 1 .. Len(kind) : kind'[a] = kind[a]
      /\ kind'[Len(kind) + 1] = what
  BY <1>2 DEF PushFrame
<1>4. /\ trys' \in Seq(Nat) /\ Len(trys') = Len(kind')
      /\ \A a \in 1 .. Len(kind) : trys'[a] = trys[a]
      /\ trys'[Len(kind) + 1] = 0
  BY <1>2, <1>3 DEF PushFrame
<1>5. /\ frames' \in [1 .. FramesMax -> Nat]
      /\ \A i \in 1 .. frameCount : frames'[i] = frames[i]
      /\ frames'[frameCount + 1] = Len(kind) + 1
  BY <1>1, <1>2 DEF IInv, TypeOK, PushFrame
<1>6. \A i \in 1 .. frameCount : frames[i] \in 1 .. Len(kind)
  BY DEF IInv, Live
<1> QED BY <1>1, <1>2, <1>3, <1>4, <1>5, <1>6 DEF PushFrame, open, runs

\* A frame whose deferred calls stay as they are.
LEMMA ListSame ==
  ASSUME NEW i, ListAt(i), i <= frameCount, ~(i > frameCount'), frames'[i] = frames[i],
         deferStack'[i] = deferStack[i], runs'[i] = runs[i],
         \A d \in 1 .. Len(defers) : defers[d].owner = frames[i] =>
           d \in 1 .. Len(defers') /\ defers'[d] = defers[d]
  PROVE  ListAt(i)'
<1>1. Pends(deferStack[i], frames[i]) /\ (deferStack[i] # <<>> => runs[i] \notin {"defer", "gen"})
  BY DEF ListAt
<1>2. ASSUME NEW t, t = deferStack[i], NEW a, a = frames[i]
      PROVE  ListAt(i)'
  <2>1. Pends(t, a)'
    BY <1>1, <1>2 DEF Pends, Rising
  <2> QED BY <1>1, <1>2, <2>1 DEF ListAt, Pends
<1> QED BY <1>2

\* The frame of activation new is new, under code that runs.
FrameStep(m, new) ==
  /\ UNCHANGED <<handlers, deferStack, ret, defers>>
  /\ Len(cpp) <= Len(cpp') /\ DOMAIN cpp' = 1 .. Len(cpp') /\ Len(cpp') \in Nat
  /\ \A k \in DOMAIN cpp : cpp'[k] = cpp[k]
  /\ \A k \in DOMAIN cpp' : k > Len(cpp) =>
       cpp'[k].fn \in {"native", "posted", "resume", "execute"}
  /\ runs[frameCount] = "defer" /\ open[frameCount] > 0 => frameCount \in marks'
  /\ Floor(m)' = Floor(m) /\ Floor(m) \in Nat /\ Floor(m) < frameCount
  /\ frameCount' = frameCount + 1 /\ gone' = gone /\ Len(kind') \in Nat
  /\ Len(kind) <= Len(kind') /\ \A a \in 1 .. Len(kind) : kind'[a] = kind[a]
  /\ \A i \in 1 .. frameCount : /\ frames'[i] = frames[i] /\ open'[i] = open[i]
                                 /\ runs'[i] = runs[i]
  /\ new \in 1 .. Len(kind') /\ new \notin gone /\ \A i \in 1 .. frameCount : frames[i] # new
  /\ \A d \in 1 .. Len(defers) : defers[d].owner # new
  /\ frames'[frameCount + 1] = new /\ open'[frameCount + 1] = 0
  /\ runs'[frameCount + 1] # "defer"
  /\ runs'[frameCount + 1] = "gen" => frameCount + 1 \in resumed'
  /\ OneGenerator' /\ (currentGen'.set => resumed' # {})

\* A new activation above all others keeps what is above the execute() at m.
LEMMA FrameAdded ==
  ASSUME Plain, IInv, Running, LastSlotFree, NEW m \in DOMAIN cpp, NEW new, FrameStep(m, new)
  PROVE  FramesAbove(m)'
<1> SUFFICES ASSUME NEW F, F = Floor(m)
             PROVE  FramesAbove(m)'
  OBVIOUS
<1>1. /\ Len(cpp) \in Nat /\ DOMAIN cpp = 1 .. Len(cpp) /\ ret = "none"
      /\ frameCount \in Nat \ {0} /\ F \in Nat /\ F < frameCount
      /\ Current = frames[frameCount] /\ Current \in 1 .. Len(kind)
      /\ cpp[Len(cpp)].fn = "execute" /\ Len(cpp) \in DOMAIN cpp /\ Len(kind) \in Nat
  <2>1. F \in Nat /\ F < frameCount
    BY DEF FrameStep
  <2>2. Len(cpp) \in Nat /\ DOMAIN cpp = 1 .. Len(cpp) /\ Len(kind) \in Nat
    BY TypeFacts DEF IInv, TypeFact
  <2> QED BY <2>1, <2>2, RunFacts
<1>2. frameCount' = frameCount + 1 /\ gone' = gone
  BY DEF FrameStep
<1>o. /\ Len(kind') \in Nat /\ Len(kind) <= Len(kind')
      /\ \A a \in 1 .. Len(kind) : kind'[a] = kind[a] /\ a \in 1 .. Len(kind')
  BY <1>1 DEF FrameStep
<1>p. /\ new \in 1 .. Len(kind') /\ new \notin gone /\ \A i \in 1 .. frameCount : frames[i] # new
      /\ \A d \in 1 .. Len(defers) : defers[d].owner # new
  BY DEF FrameStep
<1>3. \A i \in 1 .. frameCount : /\ frames'[i] = frames[i] /\ frames[i] \in 1 .. Len(kind)
                                 /\ frames[i] \in 1 .. Len(kind')
                                 /\ open'[i] = open[i] /\ runs'[i] = runs[i]
  <2>1. \A i \in 1 .. frameCount : frames[i] \in 1 .. Len(kind)
    BY DEF IInv, Live
  <2>2. \A i \in 1 .. frameCount : /\ frames'[i] = frames[i] /\ open'[i] = open[i]
                                   /\ runs'[i] = runs[i]
    BY DEF FrameStep
  <2> QED BY <2>1, <2>2, <1>o
<1>4. /\ frames'[frameCount + 1] = new /\ open'[frameCount + 1] = 0
      /\ runs'[frameCount + 1] # "defer"
      /\ runs'[frameCount + 1] = "gen" => frameCount + 1 \in resumed'
  BY DEF FrameStep
<1>5. \A i \in 1 .. frameCount' : i \in 1 .. frameCount \/ i = frameCount + 1
  BY <1>1, <1>2
<1>6. \A i \in F + 1 .. frameCount' : i \in 1 .. frameCount'
  BY <1>1, <1>2
<1>7. /\ handlers' = handlers /\ deferStack' = deferStack /\ defers' = defers
      /\ ret' = ret
  BY DEF FrameStep
<1>q. /\ Len(cpp) <= Len(cpp') /\ DOMAIN cpp' = 1 .. Len(cpp') /\ Len(cpp') \in Nat
      /\ \A k \in DOMAIN cpp' : k > Len(cpp) =>
           cpp'[k].fn \in {"native", "posted", "resume", "execute"}
  BY DEF FrameStep
<1>8. /\ \A k \in DOMAIN cpp : k \in DOMAIN cpp' /\ cpp'[k] = cpp[k]
      /\ \A k \in DOMAIN cpp' : k \in DOMAIN cpp \/ cpp'[k].fn \in {"native", "posted", "resume", "execute"}
  <2>1. \A k \in DOMAIN cpp : cpp'[k] = cpp[k]
    BY DEF FrameStep
  <2>2. \A k \in DOMAIN cpp' : k > Len(cpp) \/ k \in DOMAIN cpp
    BY <1>1, <1>q
  <2>3. \A k \in DOMAIN cpp : k \in DOMAIN cpp'
    BY <1>1, <1>q
  <2> QED BY <2>1, <2>2, <2>3, <1>q
<1>9. resumed \subseteq resumed' /\ caught' = caught /\ handled' = handled
  <2>1. resumed \subseteq resumed'
    BY <1>8 DEF resumed
  <2>2. \A k \in DOMAIN cpp' : cpp'[k].fn = "catch" => k \in DOMAIN cpp
    BY <1>8
  <2>3. caught' = caught
    BY <2>2, <1>8 DEF caught
  <2> QED BY <2>1, <2>3, <1>7 DEF handled
<1>10. /\ marks \subseteq marks'
       /\ \A x \in DOMAIN cpp : (cpp[x].fn = "return" \/ cpp[x].fn \in {"catch", "unwind"}) =>
            Lim(x)' = Lim(x)
  <2>1. marks \subseteq marks'
    BY <1>8 DEF marks, Waits, Calls, Mark
  <2>2. \A x \in DOMAIN cpp : Ends(cpp[x]) => x < Len(cpp)
    BY <1>1 DEF Ends
  <2>3. ASSUME NEW x \in DOMAIN cpp, Ends(cpp[x])
        PROVE  Lim(x)' = Lim(x)
    <3>1. x < Len(cpp) /\ x + 1 \in DOMAIN cpp /\ x # Len(cpp) /\ x # Len(cpp')
      BY <2>2, <2>3, <1>1, <1>q
    <3> QED BY <3>1, <1>8 DEF Lim, Mark
  <2> QED BY <2>1, <2>3 DEF Ends
<1>11. ending \subseteq ending'
  BY <1>8, <1>10 DEF ending, Stop
<1>a. Live'
  <2>1. /\ \A i \in 1 .. frameCount : frames[i] \notin gone
        /\ \A i, j \in 1 .. frameCount : i # j => frames[i] # frames[j]
    BY DEF IInv, Live
  <2>2. \A i \in 1 .. frameCount' : frames'[i] \in 1 .. Len(kind') /\ frames'[i] \notin gone'
    BY <2>1, <1>2, <1>3, <1>4, <1>5, <1>p
  <2>3. \A i, j \in 1 .. frameCount' : i # j => frames'[i] # frames'[j]
    <3> SUFFICES ASSUME NEW i \in 1 .. frameCount', NEW j \in 1 .. frameCount', i # j
                 PROVE  frames'[i] # frames'[j]
      OBVIOUS
    <3>1. CASE i \in 1 .. frameCount /\ j \in 1 .. frameCount
      BY <3>1, <2>1, <1>3
    <3>2. CASE i = frameCount + 1 \/ j = frameCount + 1
      <4>1. \A x \in 1 .. frameCount : frames'[x] # new
        BY <1>3, <1>p
      <4> QED BY <3>2, <4>1, <1>4, <1>5
    <3> QED BY <3>1, <3>2, <1>5
  <2> QED BY <2>2, <2>3 DEF Live
<1>c. HandlersRise' /\ DefersLifo'
  BY <1>7 DEF IInv, HandlersRise, DefersLifo
<1>d. LastSlot'
  BY <1>1, <1>2, <1>7 DEF LastSlot, LastSlotFree, Plain
<1>f. \A i \in F + 1 .. frameCount' : runs'[i] = "gen" => i \in resumed'
  <2> SUFFICES ASSUME NEW i \in F + 1 .. frameCount', runs'[i] = "gen"
               PROVE  i \in resumed'
    OBVIOUS
  <2>1. CASE i \in 1 .. frameCount
    <3>1. i \in resumed
      BY <2>1, <1>3 DEF IInv, Resumes
    <3> QED BY <3>1, <1>9
  <2>2. CASE i = frameCount + 1
    BY <2>2, <1>4
  <2> QED BY <2>1, <2>2, <1>5, <1>6
<1>g. \A i \in F + 1 .. frameCount' : \A d \in Nat : d < open'[i] => <<i, d>> \in handled' \cup caught'
  <2> SUFFICES ASSUME NEW i \in F + 1 .. frameCount', NEW d \in Nat, d < open'[i]
               PROVE  <<i, d>> \in handled' \cup caught'
    OBVIOUS
  <2>1. CASE i \in 1 .. frameCount
    <3>1. <<i, d>> \in handled \cup caught
      BY <2>1, <1>3 DEF IInv, OpenHandled
    <3> QED BY <3>1, <1>9
  <2>2. CASE i = frameCount + 1
    <3>1. ~(d < 0)
      OBVIOUS
    <3> QED BY <2>2, <3>1, <1>4
  <2> QED BY <2>1, <2>2, <1>5, <1>6
<1>h. \A i \in F + 1 .. frameCount' : runs'[i] = "defer" /\ open'[i] > 0 /\ i < frameCount' =>
        i \in marks'
  <2> SUFFICES ASSUME NEW i \in F + 1 .. frameCount', runs'[i] = "defer", open'[i] > 0
               PROVE  i \in marks'
    OBVIOUS
  <2>1. i \in 1 .. frameCount /\ runs[i] = "defer" /\ open[i] > 0
    <3>1. i # frameCount + 1
      BY <1>4
    <3>2. i \in 1 .. frameCount
      BY <3>1, <1>5, <1>6
    <3> QED BY <3>2, <1>3
  <2>4. runs[frameCount] = "defer" /\ open[frameCount] > 0 => frameCount \in marks'
    BY DEF FrameStep
  <2>2. i < frameCount => i \in marks
    BY <2>1 DEF IInv, DeferOpens
  <2>3. i < frameCount \/ i = frameCount
    BY <2>1, <1>1
  <2> QED BY <2>1, <2>2, <2>3, <2>4, <1>10
<1>i. \A j \in DOMAIN handlers' : handlers'[j].frame > F =>
        /\ handlers'[j].frame <= frameCount'
        /\ handlers'[j].act = frames'[handlers'[j].frame]
        /\ handlers'[j].depth < open'[handlers'[j].frame]
  <2> SUFFICES ASSUME NEW j \in DOMAIN handlers, handlers[j].frame > F
               PROVE  /\ handlers[j].frame <= frameCount'
                      /\ handlers[j].act = frames'[handlers[j].frame]
                      /\ handlers[j].depth < open'[handlers[j].frame]
    BY <1>7
  <2>1. /\ handlers[j].frame \in 1 .. frameCount /\ handlers[j].act = frames[handlers[j].frame]
        /\ handlers[j].depth < open[handlers[j].frame]
    BY DEF IInv, HandlersLive
  <2>2. handlers[j].frame <= frameCount'
    BY <2>1, <1>1, <1>2
  <2> QED BY <2>1, <2>2, <1>3
<1>j. (ret = "exit" => ExitFree(Len(cpp) + 1, frameCount))'
  BY <1>1, <1>7
<1>k. \A i \in F + 1 .. FramesMax : ListAt(i)'
  <2> SUFFICES ASSUME NEW i \in F + 1 .. FramesMax
               PROVE  ListAt(i)'
    OBVIOUS
  <2>1. ListAt(i) /\ i \in Nat
    <3>1. i \in 1 .. FramesMax /\ i \in Nat
      BY <1>1, BoundAssumption
    <3> QED BY <3>1 DEF IInv, ListsExact
  <2>2. CASE i <= frameCount
    <3>1. i \in 1 .. frameCount
      BY <2>1, <2>2, <1>1
    <3>2. ~(i > frameCount')
      BY <2>1, <2>2, <1>1, <1>2
    <3> QED BY <3>1, <3>2, <2>1, <2>2, <1>3, <1>7, ListSame
  <2>3. CASE i > frameCount
    <3>1. deferStack'[i] = <<>>
      BY <2>1, <2>3, <1>7 DEF ListAt
    <3>2. \A x \in DOMAIN deferStack'[i] : FALSE
      BY <3>1
    <3> QED BY <3>1, <3>2 DEF ListAt, Pends, Rising
  <2> QED BY <2>1, <2>2, <2>3, <1>1
<1>l. \A d \in 1 .. Len(defers') : /\ defers'[d].owner \in 1 .. Len(kind')
                                   /\ kind'[defers'[d].owner] \notin {"defer", "gen"}
                                   /\ defers'[d].started \in {0, 1}
  <2>2. \A d \in 1 .. Len(defers) : /\ defers[d].owner \in 1 .. Len(kind)
                                    /\ kind[defers[d].owner] \notin {"defer", "gen"}
                                    /\ defers[d].started \in {0, 1}
    BY DEF IInv, NoneLost
  <2> QED BY <2>2, <1>7, <1>o
<1>m. \A d \in 1 .. Len(defers') : defers'[d].started = 0 =>
        \/ \E i \in 1 .. F : frames'[i] = defers'[d].owner
        \/ \E i \in F + 1 .. frameCount' : frames'[i] = defers'[d].owner /\ Pending(d, i)'
  <2> SUFFICES ASSUME NEW d \in 1 .. Len(defers), defers[d].started = 0
               PROVE  \/ \E i \in 1 .. F : frames'[i] = defers[d].owner
                      \/ \E i \in F + 1 .. frameCount' :
                           frames'[i] = defers[d].owner /\ Pending(d, i)'
    BY <1>7
  <2>1. PICK i \in 1 .. frameCount : frames[i] = defers[d].owner /\ Pending(d, i)
    BY DEF IInv, NoneLost
  <2>2. Pending(d, i)'
    BY <2>1, <1>7, <1>8 DEF Pending
  <2>3. i \in 1 .. F \/ i \in F + 1 .. frameCount'
    BY <1>1, <1>2
  <2>4. frames'[i] = defers[d].owner
    BY <2>1, <1>3
  <2> QED BY <2>2, <2>3, <2>4
<1>n. \A d \in 1 .. Len(defers') : defers'[d].started = 1 =>
        \A i \in F + 1 .. frameCount' : frames'[i] = defers'[d].owner => i \in ending'
  <2> SUFFICES ASSUME NEW d \in 1 .. Len(defers), defers[d].started = 1,
                      NEW i \in F + 1 .. frameCount', frames'[i] = defers[d].owner
               PROVE  i \in ending'
    BY <1>7
  <2>1. i # frameCount + 1
    BY <1>4, <1>p
  <2>2. i \in 1 .. frameCount /\ frames[i] = defers[d].owner
    BY <2>1, <1>3, <1>5, <1>6
  <2>3. i \in ending
    BY <2>2 DEF IInv, StartedEnds
  <2> QED BY <2>3, <1>11
<1>r. Floor(m)' = F /\ OneGenerator' /\ (currentGen'.set => resumed' # {})
  BY DEF FrameStep
<1> QED BY <1>r, <1>a, <1>c, <1>d, <1>f, <1>g, <1>h, <1>i, <1>j, <1>k, <1>l, <1>m, <1>n
        DEF FramesAbove

\* A new activation of a function, under code that runs.
LEMMA FramePushed ==
  ASSUME Plain, IInv, Running, PushFrame("func"), LastSlotFree,
         UNCHANGED <<handlers, deferStack, ret, generator, currentGen, defers>>,
         Len(cpp) <= Len(cpp'), DOMAIN cpp' = 1 .. Len(cpp'), Len(cpp') \in Nat,
         \A k \in DOMAIN cpp : cpp'[k] = cpp[k],
         \A k \in DOMAIN cpp' : k > Len(cpp) => cpp'[k].fn \in {"native", "posted", "execute"},
         runs[frameCount] = "defer" /\ open[frameCount] > 0 => frameCount \in marks',
         NEW m \in DOMAIN cpp, Floor(m)' = Floor(m), Floor(m) \in Nat, Floor(m) < frameCount
  PROVE  FramesAbove(m)'
<1>1. /\ Len(cpp) \in Nat /\ DOMAIN cpp = 1 .. Len(cpp)
      /\ cpp[Len(cpp)].fn = "execute" /\ Len(cpp) \in DOMAIN cpp
  BY RunFacts, TypeFacts DEF IInv, TypeFact
<1>2. /\ frameCount' = frameCount + 1 /\ gone' = gone /\ frameCount \in Nat
      /\ Len(kind) \in Nat /\ Len(kind') = Len(kind) + 1
  BY PushFacts
<1>3. \A i \in 1 .. frameCount : /\ frames'[i] = frames[i] /\ frames[i] \in 1 .. Len(kind)
                                 /\ open'[i] = open[i] /\ runs'[i] = runs[i]
  BY PushFacts
<1>4. /\ frames'[frameCount + 1] = Len(kind) + 1
      /\ \A a \in 1 .. Len(kind) : kind'[a] = kind[a] /\ trys'[a] = trys[a]
      /\ kind'[Len(kind) + 1] = "func" /\ trys'[Len(kind) + 1] = 0
      /\ runs'[frameCount + 1] = "func" /\ open'[frameCount + 1] = 0
  BY PushFacts
<1>5. \A i \in 1 .. frameCount' : i \in 1 .. frameCount \/ i = frameCount + 1
  BY <1>2
<1>7. generator' = generator /\ currentGen' = currentGen
  OBVIOUS
<1>8. /\ \A k \in DOMAIN cpp : k \in DOMAIN cpp' /\ cpp'[k] = cpp[k]
      /\ \A k \in DOMAIN cpp' : k \in DOMAIN cpp \/ cpp'[k].fn \in {"native", "posted", "execute"}
  BY <1>1
<1>b. OneGenerator'
  <2>1. OneGenerator
    BY DEF IInv
  <2>2. \A a \in 1 .. Len(kind') : a \in 1 .. Len(kind) \/ a = Len(kind) + 1
    BY <1>2
  <2>3. (\A a \in 1 .. Len(kind) : kind[a] = "gen" => a = generator.act /\ trys[a] = 0)'
    BY <2>1, <2>2, <1>4, <1>7 DEF OneGenerator
  <2>6. (generator.state = "none" => \A k \in DOMAIN cpp : cpp[k].fn # "resume")'
    BY <2>1, <1>7, <1>8 DEF OneGenerator
  <2>4. (generator.state = "none" => \A a \in 1 .. Len(kind) : kind[a] # "gen")'
    BY <2>1, <2>2, <1>4, <1>7 DEF OneGenerator
  <2>5. (generator.state \in {"created", "suspended"} =>
           /\ generator.act \in 1 .. Len(kind) /\ kind[generator.act] = "gen"
           /\ generator.act \notin gone
           /\ \A i \in 1 .. frameCount : frames[i] # generator.act
           /\ \A k \in DOMAIN cpp : cpp[k].fn = "resume" => k = Len(cpp))'
    <3> SUFFICES ASSUME generator.state \in {"created", "suspended"}
                 PROVE  /\ generator.act \in 1 .. Len(kind') /\ kind'[generator.act] = "gen"
                        /\ generator.act \notin gone'
                        /\ \A i \in 1 .. frameCount' : frames'[i] # generator.act
                        /\ \A k \in DOMAIN cpp' : cpp'[k].fn = "resume" => k = Len(cpp')
      BY <1>7
    <3>1. /\ generator.act \in 1 .. Len(kind) /\ kind[generator.act] = "gen"
          /\ generator.act \notin gone
          /\ \A i \in 1 .. frameCount : frames[i] # generator.act
          /\ \A k \in DOMAIN cpp : cpp[k].fn = "resume" => k = Len(cpp)
      BY <2>1 DEF OneGenerator
    <3>2. generator.act # Len(kind) + 1
      BY <3>1, <1>2
    <3>3. \A i \in 1 .. frameCount' : frames'[i] # generator.act
      BY <3>1, <3>2, <1>3, <1>4, <1>5
    <3>4. \A k \in DOMAIN cpp' : cpp'[k].fn # "resume"
      BY <3>1, <1>1, <1>8
    <3> QED BY <3>1, <3>3, <3>4, <1>2, <1>4
  <2> QED BY <2>3, <2>4, <2>5, <2>6 DEF OneGenerator
<1>c. currentGen'.set => resumed' # {}
  <2>1. resumed \subseteq resumed'
    BY <1>8 DEF resumed
  <2> QED BY <2>1, <1>7 DEF IInv, Resumes
<1>d. /\ Len(kind) + 1 \notin gone /\ Len(kind) + 1 \in 1 .. Len(kind')
      /\ \A i \in 1 .. frameCount : frames[i] # Len(kind) + 1
      /\ \A d \in 1 .. Len(defers) : defers[d].owner # Len(kind) + 1
  <2>1. \A a \in 1 .. Len(kind) : a # Len(kind) + 1
    BY <1>2
  <2>2. gone \subseteq 1 .. Len(kind)
    BY DEF IInv, TypeOK
  <2>3. \A d \in 1 .. Len(defers) : defers[d].owner \in 1 .. Len(kind)
    BY DEF IInv, NoneLost
  <2> QED BY <2>1, <2>2, <2>3, <1>2, <1>3
<1>e. /\ Len(kind') \in Nat /\ Len(kind) <= Len(kind')
      /\ \A a \in 1 .. Len(kind) : kind'[a] = kind[a]
      /\ runs'[frameCount + 1] # "defer" /\ runs'[frameCount + 1] # "gen"
  BY <1>2, <1>4
<1>f. \A k \in DOMAIN cpp' : k > Len(cpp) =>
        cpp'[k].fn \in {"native", "posted", "resume", "execute"}
  OBVIOUS
<1>g. UNCHANGED <<handlers, deferStack, ret, defers>>
  OBVIOUS
<1>h. FrameStep(m, Len(kind) + 1)
  BY <1>2, <1>3, <1>4, <1>b, <1>c, <1>d, <1>e, <1>f, <1>g DEF FrameStep
<1> QED BY <1>h, FrameAdded

-----------------------------------------------------------------------------
(* The steps.                                                                *)

LEMMA CallKeeps ==
  ASSUME Plain, IInv, Call
  PROVE  IInv'
<1> SUFFICES ASSUME NEW n, n = Len(cpp), NEW F, F = Floor(n)
             PROVE  IInv'
  OBVIOUS
<1>1. /\ Running /\ PushFrame("func") /\ LastSlotFree
      /\ UNCHANGED <<handlers, deferStack, cpp, ret, generator, currentGen, defers, used>>
      /\ ~(kind[Current] = "defer" /\ trys[Current] > 0)
  BY DEF Call, MayCall, genVars, Plain
<1>2. /\ n \in Nat \ {0} /\ n \in DOMAIN cpp /\ cpp[n].fn = "execute"
      /\ frameCount \in Nat /\ F \in Nat /\ F < frameCount
      /\ open[frameCount] = trys[Current] /\ runs[frameCount] = kind[Current]
  BY <1>1, RunFacts
<1>3. /\ cpp' = cpp /\ handlers' = handlers /\ deferStack' = deferStack /\ defers' = defers
      /\ ret' = ret /\ generator' = generator /\ currentGen' = currentGen /\ used' = used
  BY <1>1
<1>4. TypeOK'
  <2>1. /\ frameCount' \in 1 .. FramesMax /\ frames' \in [1 .. FramesMax -> Nat] /\ gone' = gone
        /\ kind' \in Seq({"script", "func", "gen", "defer"}) /\ trys' \in Seq(Nat)
        /\ Len(trys') = Len(kind')
    BY <1>1, PushFacts
  <2>2. gone' \subseteq 1 .. Len(kind')
    <3>1. gone' = gone /\ Len(kind) \in Nat /\ Len(kind') = Len(kind) + 1
      BY <1>1, PushFacts
    <3>2. gone \subseteq 1 .. Len(kind)
      BY DEF IInv, TypeOK
    <3> QED BY <3>1, <3>2
  <2> QED BY <2>1, <2>2, <1>3 DEF IInv, TypeOK
<1>5. /\ frameCount' = frameCount + 1
      /\ \A i \in 1 .. frameCount : frames'[i] = frames[i] /\ open'[i] = open[i] /\ runs'[i] = runs[i]
      /\ Len(kind) <= Len(kind') /\ \A a \in 1 .. Len(kind) : kind'[a] = kind[a]
  <2>1. Len(kind) \in Nat /\ Len(kind') = Len(kind) + 1
    BY <1>1, PushFacts
  <2> QED BY <1>1, <2>1, PushFacts
<1>6. Kept(n)
  <2>1. HandlersKept(n)
    BY <1>2, <1>3, SameHandlers
  <2>2. \A i \in 1 .. F : i \in 1 .. frameCount
    BY <1>2
  <2>3. Len(defers) \in Nat /\ \A d \in Len(defers) + 1 .. Len(defers') : FALSE
    BY <1>3, TypeFacts DEF IInv, TypeFact
  <2> QED BY <2>1, <2>2, <2>3, <1>2, <1>3, <1>5 DEF Kept, HandlersKept
<1>7. StackAbove(n)'
  <2>1. F + 1 \in 1 .. frameCount /\ F < frameCount'
    BY <1>2, <1>5
  <2>2. n > 1 => DeferFrameAt(n - 1)'
    BY <2>1, <1>2, <1>5, <1>6, FrameKept
  <2> QED BY <2>2, <1>2, <1>3, <1>4, <1>6, ExecOnTop
<1>8. Reported' /\ TopFrames' /\ OverClosed'
  <2>1. Reported'
    BY <1>3 DEF IInv, Reported, Top
  <2>2. Top' = Top /\ Floor(n)' = F /\ Top = cpp[n]
    BY <1>1, <1>3, RunFacts DEF Floor, Top
  <2>3. TopFrames' /\ OverClosed'
    BY <2>2, <1>2, <1>3, <1>5 DEF TopFrames, OverClosed, Calls
  <2> QED BY <2>1, <2>3
<1>9. FramesAbove(n)'
  <2>1. Floor(n)' = Floor(n)
    BY <1>3 DEF Floor
  <2>2. /\ Len(cpp) <= Len(cpp') /\ DOMAIN cpp' = 1 .. Len(cpp') /\ Len(cpp') \in Nat
        /\ \A k \in DOMAIN cpp : cpp'[k] = cpp[k]
        /\ \A k \in DOMAIN cpp' : ~(k > Len(cpp))
    BY <1>2, <1>3, TypeFacts DEF IInv, TypeFact
  <2>3. ~(runs[frameCount] = "defer" /\ open[frameCount] > 0)
    BY <1>1, <1>2
  <2> QED BY <2>1, <2>2, <2>3, <1>1, <1>2, <1>3, FramePushed
<1>10. Above(n)'
  BY <1>7, <1>8, <1>9 DEF Above
<1> QED BY <1>2, <1>4, <1>6, <1>10, Assembled

LEMMA ReenterKeeps ==
  ASSUME Plain, IInv, NEW fn \in {"native", "posted"}, Reenter(fn)
  PROVE  IInv'
<1> SUFFICES ASSUME NEW n, n = Len(cpp), NEW F, F = Floor(n)
             PROVE  IInv'
  OBVIOUS
<1>1. /\ Running /\ PushFrame("func") /\ LastSlotFree
      /\ UNCHANGED <<handlers, deferStack, ret, generator, currentGen, defers, used>>
      /\ cpp' = cpp \o <<[fn |-> fn, caller |-> Caller], Exec(frameCount)>>
  BY DEF Reenter, MayCall, genVars
<1>2. /\ n \in Nat \ {0} /\ n \in DOMAIN cpp /\ cpp[n].fn = "execute"
      /\ frameCount \in Nat /\ F \in Nat /\ F < frameCount /\ ret = "none"
  BY <1>1, RunFacts
<1>3. /\ handlers' = handlers /\ deferStack' = deferStack /\ defers' = defers
      /\ ret' = ret /\ generator' = generator /\ currentGen' = currentGen /\ used' = used
  BY <1>1
<1>4. /\ cpp' \in Seq(Record) /\ Len(cpp') = n + 2 /\ \A k \in 1 .. n : cpp'[k] = cpp[k]
      /\ cpp'[n + 1] = [fn |-> fn, caller |-> Caller] /\ cpp'[n + 2] = Exec(frameCount)
  <2>1. cpp \in Seq(Record) /\ Len(handlers) \in Nat
    BY TypeFacts DEF IInv, TypeOK, TypeFact
  <2>2. [fn |-> fn, caller |-> Caller] \in Record /\ Exec(frameCount) \in Record
    BY <2>1, <1>2, CallerType, RecordTypes DEF IInv, Exec
  <2>3. ASSUME NEW r \in Record, NEW e \in Record, cpp' = cpp \o <<r, e>>
        PROVE  /\ cpp' \in Seq(Record) /\ Len(cpp') = n + 2 /\ \A k \in 1 .. n : cpp'[k] = cpp[k]
               /\ cpp'[n + 1] = r /\ cpp'[n + 2] = e
    BY <2>1, <2>3, AppendedTwo
  <2> QED BY <1>1, <2>2, <2>3
<1>5. TypeOK'
  <2>1. /\ frameCount' \in 1 .. FramesMax /\ frames' \in [1 .. FramesMax -> Nat] /\ gone' = gone
        /\ kind' \in Seq({"script", "func", "gen", "defer"}) /\ trys' \in Seq(Nat)
        /\ Len(trys') = Len(kind')
    BY <1>1, PushFacts
  <2>2. gone' \subseteq 1 .. Len(kind')
    <3>1. gone' = gone /\ Len(kind) \in Nat /\ Len(kind') = Len(kind) + 1
      BY <1>1, PushFacts
    <3>2. gone \subseteq 1 .. Len(kind)
      BY DEF IInv, TypeOK
    <3> QED BY <3>1, <3>2
  <2> QED BY <2>1, <2>2, <1>3, <1>4 DEF IInv, TypeOK
<1>6. /\ frameCount' = frameCount + 1
      /\ \A i \in 1 .. frameCount : frames'[i] = frames[i] /\ open'[i] = open[i] /\ runs'[i] = runs[i]
      /\ Len(kind) <= Len(kind') /\ \A a \in 1 .. Len(kind) : kind'[a] = kind[a]
  <2>1. Len(kind) \in Nat /\ Len(kind') = Len(kind) + 1
    BY <1>1, PushFacts
  <2> QED BY <1>1, <2>1, PushFacts
<1>7. Kept(n)
  <2>1. HandlersKept(n)
    BY <1>2, <1>3, SameHandlers
  <2>2. \A i \in 1 .. F : i \in 1 .. frameCount
    BY <1>2
  <2>3. Len(defers) \in Nat /\ \A d \in Len(defers) + 1 .. Len(defers') : FALSE
    BY <1>3, TypeFacts DEF IInv, TypeFact
  <2>4. n - 1 <= Len(cpp') /\ \A k \in 1 .. n - 1 : cpp'[k] = cpp[k] /\ cpp'[n] = cpp[n]
    BY <1>2, <1>4
  <2>5. cpp'[n] = cpp[n]
    BY <1>2, <1>4
  <2> QED BY <2>1, <2>2, <2>3, <2>4, <2>5, <1>2, <1>3, <1>6 DEF Kept, HandlersKept
<1>8. /\ Calls(cpp'[n + 1]) /\ cpp'[n + 1].caller = Caller /\ cpp'[n + 1].fn # "resume"
      /\ cpp'[n + 2].fn = "execute" /\ Mark(cpp'[n + 1]) = frameCount
  BY <1>4 DEF Calls, Exec, Mark, Caller
<1>9. StackAbove(n)'
  <2>1. F + 1 \in 1 .. frameCount /\ F < frameCount'
    BY <1>2, <1>6
  <2>2. n > 1 => DeferFrameAt(n - 1)'
    BY <2>1, <1>2, <1>6, <1>7, FrameKept
  <2>3. ResumeAt(n + 1)'
    BY <1>8 DEF ResumeAt
  <2> QED BY <2>2, <2>3, <1>2, <1>3, <1>4, <1>5, <1>6, <1>7, <1>8, CallsOnTop
<1>10. Reported' /\ TopFrames' /\ OverClosed'
  <2>1. Top' = cpp'[n + 2] /\ cpp' # <<>>
    <3>1. cpp' \in Seq(Record) /\ Len(cpp') = n + 2 /\ n + 2 # 0
      BY <1>2, <1>4
    <3>2. cpp' # <<>>
      BY <3>1
    <3>3. Last(cpp') = cpp'[Len(cpp')]
      BY <3>1, <3>2, FrontLast
    <3> QED BY <3>1, <3>2, <3>3 DEF Top
  <2>2. Floor(n + 2)' = frameCount
    BY <1>2, <1>8 DEF Floor
  <2>3. Reported'
    BY <2>1, <1>2, <1>3, <1>8 DEF Reported, Ends, Calls
  <2>4. TopFrames' /\ OverClosed'
    BY <2>1, <2>2, <1>2, <1>3, <1>4, <1>6, <1>8 DEF TopFrames, OverClosed, Calls
  <2> QED BY <2>3, <2>4
<1>11. FramesAbove(n)'
  <2>1. Floor(n)' = Floor(n)
    BY <1>2, <1>5, <1>7, <1>4, ExecKept
  <2>2. /\ Len(cpp) <= Len(cpp') /\ DOMAIN cpp' = 1 .. Len(cpp') /\ Len(cpp') \in Nat
        /\ \A k \in DOMAIN cpp : cpp'[k] = cpp[k]
    BY <1>2, <1>4, TypeFacts DEF IInv, TypeFact
  <2>3. \A k \in DOMAIN cpp' : k > Len(cpp) => cpp'[k].fn \in {"native", "posted", "execute"}
    <3>1. \A k \in DOMAIN cpp' : k > n => k = n + 1 \/ k = n + 2
      BY <2>2, <1>2, <1>4
    <3>2. cpp'[n + 1].fn = fn
      BY <1>4
    <3> QED BY <3>1, <3>2, <1>8
  <2>4. frameCount \in marks'
    <3>1. n + 1 \in DOMAIN cpp' /\ Waits(cpp'[n + 1])
      BY <2>2, <1>2, <1>4, <1>8 DEF Waits
    <3> QED BY <3>1, <1>8 DEF marks
  <2> QED BY <2>1, <2>2, <2>3, <2>4, <1>1, <1>2, <1>3, FramePushed
<1>12. Above(n)'
  BY <1>9, <1>10, <1>11 DEF Above
<1> QED BY <1>2, <1>5, <1>7, <1>12, Assembled

LEMMA NextTop ==
  ASSUME TypeOK', Len(cpp') # 0
  PROVE  Top' = cpp'[Len(cpp')] /\ cpp' # <<>>
<1>1. cpp' \in Seq(Record)
  BY DEF TypeOK
<1>2. cpp' # <<>>
  BY <1>1
<1>3. Last(cpp') = cpp'[Len(cpp')]
  BY <1>1, <1>2, FrontLast
<1> QED BY <1>2, <1>3 DEF Top

LEMMA NextValueKeeps ==
  ASSUME Plain, IInv, NextValue
  PROVE  IInv'
<1> SUFFICES ASSUME NEW n, n = Len(cpp), NEW F, F = Floor(n), NEW g, g = generator.act
             PROVE  IInv'
  OBVIOUS
<1>1. /\ Running /\ LastSlotFree /\ generator.state \in {"created", "suspended"}
      /\ frameCount < FramesMax /\ frameCount' = frameCount + 1
      /\ frames' = [frames EXCEPT ![frameCount + 1] = g]
      /\ generator' = [generator EXCEPT !.state = "running"]
      /\ currentGen' = [set |-> TRUE, base |-> frameCount]
      /\ cpp' = cpp \o <<[fn |-> "resume", caller |-> Caller, previous |-> currentGen],
                         Exec(frameCount)>>
  BY DEF NextValue
<1>2. /\ n \in Nat \ {0} /\ n \in DOMAIN cpp /\ cpp[n].fn = "execute"
      /\ frameCount \in Nat /\ F \in Nat /\ F < frameCount /\ ret = "none"
      /\ DOMAIN cpp = 1 .. n
  BY <1>1, RunFacts, TypeFacts DEF IInv, TypeFact
<1>3. /\ handlers' = handlers /\ deferStack' = deferStack /\ defers' = defers
      /\ ret' = ret /\ kind' = kind /\ trys' = trys /\ gone' = gone /\ used' = used
  BY DEF NextValue
<1>4. /\ g \in 1 .. Len(kind) /\ kind[g] = "gen" /\ trys[g] = 0 /\ g \notin gone
      /\ \A i \in 1 .. frameCount : frames[i] # g
      /\ \A k \in DOMAIN cpp : cpp[k].fn # "resume"
  <2>1. /\ g \in 1 .. Len(kind) /\ kind[g] = "gen" /\ trys[g] = 0 /\ g \notin gone
        /\ \A i \in 1 .. frameCount : frames[i] # g
        /\ \A k \in DOMAIN cpp : cpp[k].fn = "resume" => k = Len(cpp)
    BY <1>1 DEF IInv, OneGenerator
  <2> QED BY <2>1, <1>2
<1>5. resumed = {} /\ currentGen.set = FALSE
  <2>1. resumed = {}
    BY <1>4 DEF resumed
  <2>2. currentGen.set \in BOOLEAN
    BY DEF IInv, TypeOK, GenRec
  <2> QED BY <2>1, <2>2 DEF IInv, Resumes
<1>6. /\ cpp' \in Seq(Record) /\ Len(cpp') = n + 2 /\ \A k \in 1 .. n : cpp'[k] = cpp[k]
      /\ cpp'[n + 1] = [fn |-> "resume", caller |-> Caller, previous |-> currentGen]
      /\ cpp'[n + 2] = Exec(frameCount)
  <2>1. cpp \in Seq(Record) /\ Len(handlers) \in Nat /\ currentGen \in GenRec
    BY TypeFacts DEF IInv, TypeOK, TypeFact
  <2>2. /\ [fn |-> "resume", caller |-> Caller, previous |-> currentGen] \in Record
        /\ Exec(frameCount) \in Record
    BY <2>1, <1>2, CallerType, RecordTypes DEF IInv, Exec
  <2>3. ASSUME NEW r \in Record, NEW e \in Record, cpp' = cpp \o <<r, e>>
        PROVE  /\ cpp' \in Seq(Record) /\ Len(cpp') = n + 2 /\ \A k \in 1 .. n : cpp'[k] = cpp[k]
               /\ cpp'[n + 1] = r /\ cpp'[n + 2] = e
    BY <2>1, <2>3, AppendedTwo
  <2> QED BY <1>1, <2>2, <2>3
<1>7. /\ frames' \in [1 .. FramesMax -> Nat] /\ frames'[frameCount + 1] = g
      /\ \A i \in 1 .. frameCount : frames'[i] = frames[i]
      /\ frameCount' \in 1 .. FramesMax
  <2>1. frames \in [1 .. FramesMax -> Nat] /\ g \in Nat /\ FramesMax \in Nat
    BY <1>4, TypeFacts DEF IInv, TypeOK, TypeFact
  <2>2. frameCount + 1 \in 1 .. FramesMax
    BY <2>1, <1>1, <1>2
  <2>3. \A i \in 1 .. frameCount : i # frameCount + 1 /\ i \in 1 .. FramesMax
    BY <2>1, <1>1, <1>2
  <2> QED BY <2>1, <2>2, <2>3, <1>1
<1>8. /\ \A i \in 1 .. frameCount : open'[i] = open[i] /\ runs'[i] = runs[i]
      /\ open'[frameCount + 1] = 0 /\ runs'[frameCount + 1] = "gen"
  <2>1. /\ \A i \in 1 .. frameCount : i \in 1 .. frameCount'
        /\ frameCount + 1 \in 1 .. frameCount'
    BY <1>1, <1>2
  <2> QED BY <2>1, <1>3, <1>4, <1>7 DEF open, runs
<1>9. TypeOK'
  <2>1. generator' \in [state : {"none", "created", "running", "suspended", "completed"}, act : Nat]
    BY <1>1 DEF IInv, TypeOK
  <2>2. currentGen' \in GenRec
    BY <1>1, <1>2 DEF GenRec
  <2>3. frameCount' \in 0 .. FramesMax
    BY <1>7
  <2> QED BY <2>1, <2>2, <2>3, <1>3, <1>6, <1>7 DEF IInv, TypeOK
<1>10. Kept(n)
  <2>1. HandlersKept(n)
    BY <1>2, <1>3, SameHandlers
  <2>2. \A i \in 1 .. F : i \in 1 .. frameCount
    BY <1>2
  <2>3. /\ Len(defers) \in Nat /\ \A d \in Len(defers) + 1 .. Len(defers') : FALSE
        /\ Len(kind) \in Nat
    BY <1>3, TypeFacts DEF IInv, TypeFact
  <2>4. /\ n - 1 <= Len(cpp') /\ \A k \in 1 .. n - 1 : cpp'[k] = cpp[k] /\ k \in DOMAIN cpp
        /\ cpp'[n] = cpp[n] /\ F <= frameCount'
    BY <1>1, <1>2, <1>6
  <2>5. \A k \in 1 .. n - 1 : cpp[k].fn # "resume"
    BY <2>4, <1>4
  <2>6. \A i \in 1 .. F : /\ frames'[i] = frames[i] /\ open'[i] = open[i]
                          /\ runs'[i] = runs[i] /\ deferStack'[i] = deferStack[i]
    BY <2>2, <1>3, <1>7, <1>8
  <2>7. Len(kind) <= Len(kind') /\ \A a \in 1 .. Len(kind) : kind'[a] = kind[a]
    BY <2>3, <1>3
  <2> QED BY <2>1, <2>3, <2>4, <2>5, <2>6, <2>7, <1>2, <1>3 DEF Kept, HandlersKept
<1>11. /\ Calls(cpp'[n + 1]) /\ cpp'[n + 1].caller = Caller /\ cpp'[n + 1].fn = "resume"
       /\ cpp'[n + 1].caller.n = frameCount
       /\ cpp'[n + 2].fn = "execute" /\ Mark(cpp'[n + 1]) = frameCount
  BY <1>6 DEF Calls, Exec, Mark, Caller
<1>12. StackAbove(n)'
  <2>1. F + 1 \in 1 .. frameCount /\ F < frameCount'
    BY <1>1, <1>2
  <2>2. n > 1 => DeferFrameAt(n - 1)'
    BY <2>1, <1>2, <1>8, <1>10, FrameKept
  <2>3. ResumeAt(n + 1)'
    BY <1>1, <1>5, <1>6, <1>11 DEF ResumeAt
  <2> QED BY <2>2, <2>3, <1>1, <1>2, <1>3, <1>6, <1>7, <1>9, <1>10, <1>11, CallsOnTop
<1>13. Reported' /\ TopFrames' /\ OverClosed'
  <2>1. Top' = cpp'[n + 2] /\ cpp' # <<>>
    BY <1>2, <1>6, <1>9, NextTop
  <2>2. Floor(n + 2)' = frameCount
    BY <1>2, <1>11 DEF Floor
  <2>3. Reported'
    BY <2>1, <1>2, <1>3, <1>11 DEF Reported, Ends, Calls
  <2>4. TopFrames' /\ OverClosed'
    BY <2>1, <2>2, <1>1, <1>2, <1>3, <1>6, <1>11 DEF TopFrames, OverClosed, Calls
  <2> QED BY <2>3, <2>4
<1>14. FramesAbove(n)'
  <2>1. Floor(n)' = Floor(n)
    BY <1>2, <1>6, <1>9, <1>10, ExecKept
  <2>2. /\ Len(cpp) <= Len(cpp') /\ DOMAIN cpp' = 1 .. Len(cpp') /\ Len(cpp') \in Nat
        /\ \A k \in DOMAIN cpp : cpp'[k] = cpp[k]
    BY <1>2, <1>6
  <2>3. \A k \in DOMAIN cpp' : k > Len(cpp) =>
          cpp'[k].fn \in {"native", "posted", "resume", "execute"}
    <3>1. \A k \in DOMAIN cpp' : k > n => k = n + 1 \/ k = n + 2
      BY <2>2, <1>2, <1>6
    <3> QED BY <3>1, <1>11
  <2>4. frameCount \in marks' /\ frameCount + 1 \in resumed'
    <3>1. n + 1 \in DOMAIN cpp' /\ Waits(cpp'[n + 1])
      BY <2>2, <1>2, <1>6, <1>11 DEF Waits
    <3> QED BY <3>1, <1>11 DEF marks, resumed
  <2>5. OneGenerator'
    <3>1. generator'.act = g /\ generator'.state = "running"
      BY <1>1 DEF IInv, TypeOK
    <3>2. \A a \in 1 .. Len(kind) : kind[a] = "gen" => a = g /\ trys[a] = 0
      BY DEF IInv, OneGenerator
    <3> QED BY <3>1, <3>2, <1>3 DEF OneGenerator
  <2>6. \A d \in 1 .. Len(defers) : defers[d].owner # g
    BY <1>4 DEF IInv, NoneLost
  <2>7. resumed' # {}
    BY <2>4
  <2>8. Len(kind) \in Nat
    BY TypeFacts DEF IInv, TypeFact
  <2>9. /\ Len(kind') \in Nat /\ Len(kind) <= Len(kind') /\ g \in 1 .. Len(kind')
        /\ \A a \in 1 .. Len(kind) : kind'[a] = kind[a]
    BY <2>8, <1>3, <1>4
  <2>10. UNCHANGED <<handlers, deferStack, ret, defers>> /\ gone' = gone
    BY <1>3
  <2>11. /\ runs'[frameCount + 1] # "defer" /\ open'[frameCount + 1] = 0
         /\ runs'[frameCount + 1] = "gen" => frameCount + 1 \in resumed'
         /\ runs[frameCount] = "defer" /\ open[frameCount] > 0 => frameCount \in marks'
         /\ currentGen'.set => resumed' # {}
    BY <2>4, <2>7, <1>8
  <2>12. /\ \A i \in 1 .. frameCount : /\ frames'[i] = frames[i] /\ open'[i] = open[i]
                                       /\ runs'[i] = runs[i]
         /\ frames'[frameCount + 1] = g /\ frameCount' = frameCount + 1 /\ g \notin gone
         /\ \A i \in 1 .. frameCount : frames[i] # g
    BY <1>1, <1>4, <1>7, <1>8
  <2>13. n \in DOMAIN cpp /\ Floor(n) \in Nat /\ Floor(n) < frameCount
    BY <1>2
  <2>14. FrameStep(n, g)
    BY <2>1, <2>2, <2>3, <2>5, <2>6, <2>8, <2>9, <2>10, <2>11, <2>12, <2>13, <1>1 DEF FrameStep
  <2> QED BY <2>13, <2>14, <1>1, FrameAdded
<1>15. Above(n)'
  BY <1>12, <1>13, <1>14 DEF Above
<1> QED BY <1>2, <1>9, <1>10, <1>15, Assembled

\* What names a frame above those below m is above m.
LEMMA NamesAbove ==
  ASSUME IInv, NEW m \in DOMAIN cpp, cpp[m].fn = "execute", NEW i \in Nat, i > Floor(m),
         NEW k \in DOMAIN cpp
  PROVE  /\ Waits(cpp[k]) /\ Mark(cpp[k]) = i => k > m
         /\ cpp[k].fn = "defers" /\ cpp[k].saved = i => k > m
         /\ cpp[k].fn = "catch" /\ cpp[k].handler.frame = i => k > m
         /\ Ends(cpp[k]) /\ Lim(k) = i => k > m
         /\ cpp[k].fn = "resume" /\ cpp[k].caller.n + 1 = i => k >= m - 1
<1>1. /\ m \in Nat \ {0} /\ Len(cpp) \in Nat /\ m <= Len(cpp) /\ DOMAIN cpp = 1 .. Len(cpp)
      /\ frameCount \in Nat /\ Floor(m) \in Nat /\ k \in Nat
  BY BelowExec
<1>2. SUFFICES ASSUME ~(k > m)
               PROVE  /\ ~(Waits(cpp[k]) /\ Mark(cpp[k]) = i)
                      /\ ~(cpp[k].fn = "defers" /\ cpp[k].saved = i)
                      /\ ~(cpp[k].fn = "catch" /\ cpp[k].handler.frame = i)
                      /\ ~(Ends(cpp[k]) /\ Lim(k) = i)
                      /\ cpp[k].fn = "resume" /\ cpp[k].caller.n + 1 = i => k >= m - 1
  <2>1. k > m => k >= m - 1
    BY <1>1
  <2> QED BY <2>1
<1>3. k = m => ~Waits(cpp[k]) /\ ~Ends(cpp[k]) /\ cpp[k].fn = "execute"
  BY DEF Waits, Ends, Calls
<1>4. k # m => k \in 1 .. m - 1
  BY <1>1, <1>2
<1>5. Waits(cpp[k]) => /\ Mark(cpp[k]) \in Nat /\ Mark(cpp[k]) <= Floor(m)
                       /\ k < m - 1 => Mark(cpp[k]) < Floor(m)
  BY <1>3, <1>4, BelowExec
<1>6. Ends(cpp[k]) => Lim(k) \in Nat /\ Lim(k) <= Floor(m)
  BY <1>3, <1>4, BelowExec
<1>7. cpp[k].fn = "catch" => cpp[k].handler.frame \in Nat /\ cpp[k].handler.frame <= Lim(k)
  <2>1. cpp[k] \in Record /\ StopAt(k)
    BY TypeFacts DEF IInv, TypeFact, EndsStop
  <2> QED BY <2>1, RecordFacts DEF StopAt, Stop, Handler
<1>8. ~(Waits(cpp[k]) /\ Mark(cpp[k]) = i) /\ ~(Ends(cpp[k]) /\ Lim(k) = i)
  BY <1>1, <1>5, <1>6
<1>9. ~(cpp[k].fn = "defers" /\ cpp[k].saved = i)
  BY <1>8 DEF Waits, Mark
<1>10. ~(cpp[k].fn = "catch" /\ cpp[k].handler.frame = i)
  BY <1>1, <1>6, <1>7 DEF Ends
<1>11. ASSUME cpp[k].fn = "resume", cpp[k].caller.n + 1 = i
       PROVE  k >= m - 1
  <2>1. Waits(cpp[k]) /\ Mark(cpp[k]) = cpp[k].caller.n
    BY <1>11 DEF Waits, Calls, Mark
  <2>2. ~(k < m - 1)
    BY <2>1, <1>1, <1>5, <1>11
  <2> QED BY <2>2, <1>1
<1> QED BY <1>8, <1>9, <1>10, <1>11

\* When nothing is ending above m: its frames have their handlers, a deferred
\* expression has a try block open only at the top, and no defer has started.
LEMMA CalmFacts ==
  ASSUME IInv, NEW m \in DOMAIN cpp, cpp[m].fn = "execute",
         Len(cpp) = m \/ (Len(cpp) = m + 1 /\ Calls(cpp[m + 1]))
  PROVE  /\ Floor(m) < frameCount
         /\ \A i \in Floor(m) + 1 .. frameCount :
              /\ open[i] \in Nat
              /\ \A d \in Nat : d < open[i] => <<i, d>> \in handled
              /\ runs[i] = "defer" /\ open[i] > 0 => i = frameCount
              /\ i \notin ending
              /\ \A d \in 1 .. Len(defers) : Pending(d, i) => \E x \in DOMAIN deferStack[i] : deferStack[i][x] = d
<1>1. /\ m \in Nat \ {0} /\ Len(cpp) \in Nat /\ m <= Len(cpp) /\ DOMAIN cpp = 1 .. Len(cpp)
      /\ frameCount \in Nat /\ Floor(m) \in Nat /\ Floor(m) <= frameCount /\ FramesMax \in Nat
      /\ \A x \in DOMAIN cpp : cpp[x] \in Record
  BY BelowExec, TypeFacts DEF IInv, TypeFact
<1>2. Top = cpp[Len(cpp)] /\ cpp # <<>>
  <2>1. cpp \in Seq(Record) /\ cpp # <<>>
    BY <1>1 DEF IInv, TypeOK
  <2> QED BY <2>1, FrontLast DEF Top
<1>3. \A k \in DOMAIN cpp : k > m => /\ k = m + 1 /\ Calls(cpp[k]) /\ ~Ends(cpp[k])
                                     /\ Mark(cpp[k]) = frameCount
  <2>1. Calls(Top) => frameCount = Top.caller.n
    BY <1>2 DEF IInv, TopFrames
  <2> QED BY <2>1, <1>1, <1>2 DEF Calls, Ends, Mark
<1>4. Floor(m) < frameCount
  <2>1. CASE Len(cpp) = m
    BY <2>1, <1>2 DEF IInv, TopFrames
  <2>2. CASE Len(cpp) = m + 1 /\ Calls(cpp[m + 1])
    <3>1. m + 1 \in m .. Len(cpp) /\ Waits(cpp[m + 1]) /\ m + 1 \in DOMAIN cpp /\ m + 1 > m
      BY <2>2, <1>1 DEF Waits
    <3>2. Mark(cpp[m + 1]) > Floor(m)
      BY <3>1, AboveExec
    <3> QED BY <3>1, <3>2, <1>1, <1>3
  <2> QED BY <2>1, <2>2
<1>5. ASSUME NEW i \in Floor(m) + 1 .. frameCount
      PROVE  /\ open[i] \in Nat
             /\ \A d \in Nat : d < open[i] => <<i, d>> \in handled
             /\ runs[i] = "defer" /\ open[i] > 0 => i = frameCount
             /\ i \notin ending
             /\ \A d \in 1 .. Len(defers) : Pending(d, i) =>
                  \E x \in DOMAIN deferStack[i] : deferStack[i][x] = d
  <2>1. i \in Nat /\ i > Floor(m) /\ i \in 1 .. frameCount
    BY <1>1
  <2>2. open[i] \in Nat
    <3>1. frames[i] \in 1 .. Len(kind)
      BY <2>1 DEF IInv, Live
    <3>2. trys \in Seq(Nat) /\ Len(trys) = Len(kind)
      BY DEF IInv, TypeOK
    <3>3. trys[frames[i]] \in Nat
      BY <3>1, <3>2, ElementOfSeq
    <3> QED BY <2>1, <3>3 DEF open
  <2>3. \A k \in DOMAIN cpp : ~(cpp[k].fn = "catch" /\ cpp[k].handler.frame = i)
    <3>1. \A k \in DOMAIN cpp : cpp[k].fn = "catch" /\ cpp[k].handler.frame = i => k > m
      BY <2>1, NamesAbove
    <3> QED BY <3>1, <1>3 DEF Calls
  <2>4. \A d \in Nat : d < open[i] => <<i, d>> \in handled
    <3>1. \A d \in Nat : d < open[i] => <<i, d>> \in handled \cup caught
      BY <2>1 DEF IInv, OpenHandled
    <3> QED BY <2>3, <3>1 DEF caught
  <2>5. ASSUME runs[i] = "defer", open[i] > 0, i # frameCount
        PROVE  FALSE
    <3>1. i \in marks
      BY <2>1, <2>5, <1>1 DEF IInv, DeferOpens
    <3>2. PICK k \in DOMAIN cpp : Waits(cpp[k]) /\ Mark(cpp[k]) = i
      BY <3>1 DEF marks
    <3>3. k > m
      BY <3>2, <2>1, NamesAbove
    <3> QED BY <3>2, <3>3, <2>5, <1>3
  <2>6. i \notin ending
    <3> SUFFICES ASSUME i \in ending
                 PROVE  FALSE
      OBVIOUS
    <3>1. PICK k \in DOMAIN cpp : Lim(k) = i /\ Ends(cpp[k])
      BY DEF ending, Ends
    <3> QED BY <3>1, <2>1, <1>3, NamesAbove
  <2>7. ASSUME NEW d \in 1 .. Len(defers), Pending(d, i)
        PROVE  \E x \in DOMAIN deferStack[i] : deferStack[i][x] = d
    <3>1. \A k \in DOMAIN cpp : ~(cpp[k].fn = "defers" /\ cpp[k].saved = i)
      <4>1. \A k \in DOMAIN cpp : cpp[k].fn = "defers" /\ cpp[k].saved = i => k > m
        BY <2>1, NamesAbove
      <4> QED BY <4>1, <1>3 DEF Calls
    <3> QED BY <3>1, <2>7 DEF Pending
  <2> QED BY <2>2, <2>4, <2>5, <2>6, <2>7
<1> QED BY <1>4, <1>5

\* The generator's activation when no frame and no resumeGenerator is added.
LEMMA GeneratorKept ==
  ASSUME IInv, generator' = generator, kind' = kind, frameCount' <= frameCount, frameCount' \in Nat,
         \A a \in 1 .. Len(kind) : kind[a] = "gen" => trys'[a] = trys[a],
         \A i \in 1 .. frameCount' : frames'[i] = frames[i],
         \A a \in gone' : a \in gone \/ \E i \in 1 .. frameCount : a = frames[i],
         \A k \in DOMAIN cpp' : cpp'[k].fn = "resume" =>
           /\ k \in DOMAIN cpp /\ cpp[k].fn = "resume"
           /\ k < Len(cpp) \/ k = Len(cpp')
  PROVE  OneGenerator'
<1>1. frameCount \in Nat /\ \A i \in 1 .. frameCount' : i \in 1 .. frameCount
  BY TypeFacts DEF IInv, TypeFact
<1>2. (/\ \A a \in 1 .. Len(kind) : kind[a] = "gen" => a = generator.act /\ trys[a] = 0
       /\ generator.state = "none" => /\ \A a \in 1 .. Len(kind) : kind[a] # "gen"
                                      /\ \A k \in DOMAIN cpp : cpp[k].fn # "resume")'
  BY DEF IInv, OneGenerator
<1>3. ASSUME generator.state \in {"created", "suspended"}
      PROVE  /\ generator.act \in 1 .. Len(kind) /\ kind[generator.act] = "gen"
             /\ generator.act \notin gone'
             /\ \A i \in 1 .. frameCount' : frames'[i] # generator.act
             /\ \A k \in DOMAIN cpp' : cpp'[k].fn = "resume" => k = Len(cpp')
  <2>1. /\ generator.act \in 1 .. Len(kind) /\ kind[generator.act] = "gen"
        /\ generator.act \notin gone
        /\ \A i \in 1 .. frameCount : frames[i] # generator.act
        /\ \A k \in DOMAIN cpp : cpp[k].fn = "resume" => k = Len(cpp)
    BY <1>3 DEF IInv, OneGenerator
  <2>2. Len(cpp) \in Nat /\ ~(Len(cpp) < Len(cpp))
    BY TypeFacts DEF IInv, TypeFact
  <2>3. generator.act \notin gone'
    BY <2>1
  <2>4. \A i \in 1 .. frameCount' : frames'[i] # generator.act
    BY <1>1, <2>1
  <2>5. \A k \in DOMAIN cpp' : cpp'[k].fn = "resume" => k = Len(cpp')
    BY <2>1, <2>2
  <2> QED BY <2>1, <2>3, <2>4, <2>5
<1> QED BY <1>2, <1>3 DEF OneGenerator

\* What the invariant says of the frames from m on, when none is added.
LEMMA FramesLeft ==
  ASSUME IInv, TypeOK', NEW m \in DOMAIN cpp, cpp[m].fn = "execute", Floor(m)' = Floor(m),
         Floor(m) <= frameCount', frameCount' <= frameCount,
         \A i \in 1 .. frameCount' : frames'[i] = frames[i] /\ open'[i] = open[i] /\ runs'[i] = runs[i],
         \A a \in gone' : a \in gone \/ \E i \in frameCount' + 1 .. frameCount : a = frames[i],
         Len(kind) <= Len(kind'), \A a \in 1 .. Len(kind) : kind'[a] = kind[a],
         \A j \in DOMAIN handlers' :
           j \in DOMAIN handlers /\ handlers'[j] = handlers[j] /\ handlers[j].frame <= frameCount',
         defers' = defers,
         \A i \in 1 .. FramesMax : /\ deferStack'[i] = deferStack[i] \/ deferStack'[i] = <<>>
                                   /\ i > frameCount' => deferStack'[i] = <<>>,
         OneGenerator', currentGen'.set => resumed' # {},
         \A i \in Floor(m) + 1 .. frameCount' : runs[i] = "gen" => i \in resumed',
         \A i \in Floor(m) + 1 .. frameCount' : \A d \in Nat :
           d < open[i] /\ <<i, d>> \in handled \cup caught => <<i, d>> \in handled' \cup caught',
         \A i \in Floor(m) + 1 .. frameCount' :
           runs[i] = "defer" /\ open[i] > 0 /\ i < frameCount' => i \in marks',
         ret' = "exit" => ExitFree(Len(cpp) + 1, frameCount)',
         \A i \in Floor(m) + 1 .. frameCount : \A d \in 1 .. Len(defers) :
           defers[d].started = 0 /\ Pending(d, i) => i <= frameCount' /\ Pending(d, i)',
         \A i \in Floor(m) + 1 .. frameCount' : i \in ending => i \in ending'
  PROVE  FramesAbove(m)'
<1> SUFFICES ASSUME NEW F, F = Floor(m)
             PROVE  FramesAbove(m)'
  OBVIOUS
<1>1. /\ frameCount \in Nat /\ frameCount' \in Nat /\ F \in Nat /\ FramesMax \in Nat
      /\ frameCount <= FramesMax /\ Len(kind) \in Nat /\ Len(kind') \in Nat
      /\ DOMAIN handlers = 1 .. Len(handlers) /\ Len(defers) \in Nat
      /\ DOMAIN defers = 1 .. Len(defers)
  BY BelowExec, TypeFacts, NextTypeFacts DEF IInv, TypeFact
<1>2. /\ \A i \in 1 .. frameCount' : i \in 1 .. frameCount
      /\ \A i \in F + 1 .. frameCount' : i \in 1 .. frameCount'
      /\ \A a \in 1 .. Len(kind) : a \in 1 .. Len(kind')
  BY <1>1
<1>3. Live'
  <2>1. \A i \in 1 .. frameCount : frames[i] \in 1 .. Len(kind) /\ frames[i] \notin gone
    BY DEF IInv, Live
  <2>2. \A i, j \in 1 .. frameCount : i # j => frames[i] # frames[j]
    BY DEF IInv, Live
  <2>3. \A i \in 1 .. frameCount' : \A j \in frameCount' + 1 .. frameCount :
          j \in 1 .. frameCount /\ i # j
    BY <1>1
  <2>4. ASSUME NEW i \in 1 .. frameCount'
        PROVE  frames'[i] \in 1 .. Len(kind') /\ frames'[i] \notin gone'
    <3>1. \A j \in frameCount' + 1 .. frameCount : frames[i] # frames[j]
      BY <1>2, <2>2, <2>3
    <3>2. frames[i] \in 1 .. Len(kind) /\ frames[i] \notin gone /\ frames'[i] = frames[i]
      BY <1>2, <2>1
    <3> QED BY <3>1, <3>2, <1>2
  <2>5. \A i, j \in 1 .. frameCount' : i # j => frames'[i] # frames'[j]
    BY <1>2, <2>2
  <2> QED BY <2>4, <2>5 DEF Live
<1>4. HandlersRise'
  <2>1. \A i, j \in DOMAIN handlers : i < j =>
          \/ handlers[i].frame < handlers[j].frame
          \/ handlers[i].frame = handlers[j].frame /\ handlers[i].depth < handlers[j].depth
    BY DEF IInv, HandlersRise
  <2> QED BY <2>1 DEF HandlersRise
<1>5. LastSlot'
  <2> SUFFICES ASSUME frameCount' = FramesMax, runs'[FramesMax] # "defer"
               PROVE  handlers' = <<>>
    BY DEF LastSlot
  <2>1. frameCount = FramesMax
    BY <1>1
  <2>2. ~(frameCount = 0)
    BY <2>1, BoundAssumption
  <2>3. runs'[FramesMax] = runs[FramesMax]
    BY <2>1, <2>2, <1>1
  <2>4. handlers = <<>>
    BY <2>1, <2>3 DEF IInv, LastSlot
  <2>5. DOMAIN handlers = {}
    BY <2>4
  <2>6. handlers' \in Seq(Handler) /\ DOMAIN handlers' = {}
    BY <2>5 DEF TypeOK
  <2> QED BY <2>6
<1>6. DefersLifo'
  BY DEF IInv, DefersLifo
<1>7. (\A i \in Floor(m) + 1 .. frameCount : runs[i] = "gen" => i \in resumed)'
  BY <1>2
<1>8. (\A i \in Floor(m) + 1 .. frameCount : \A d \in Nat :
         d < open[i] => <<i, d>> \in handled \cup caught)'
  <2>1. \A i \in 1 .. frameCount : \A d \in Nat : d < open[i] => <<i, d>> \in handled \cup caught
    BY DEF IInv, OpenHandled
  <2> QED BY <2>1, <1>2
<1>9. (\A i \in Floor(m) + 1 .. frameCount : runs[i] = "defer" /\ open[i] > 0 /\ i < frameCount =>
         i \in marks)'
  BY <1>2
<1>10. (\A j \in DOMAIN handlers : handlers[j].frame > Floor(m) =>
          /\ handlers[j].frame <= frameCount
          /\ handlers[j].act = frames[handlers[j].frame]
          /\ handlers[j].depth < open[handlers[j].frame])'
  <2>1. \A j \in DOMAIN handlers :
          /\ handlers[j].frame \in 1 .. frameCount
          /\ handlers[j].act = frames[handlers[j].frame]
          /\ handlers[j].depth < open[handlers[j].frame]
    BY DEF IInv, HandlersLive
  <2>2. \A j \in DOMAIN handlers' : handlers'[j].frame \in 1 .. frameCount'
    BY <2>1, <1>1
  <2> QED BY <2>1, <2>2, <1>1
<1>11. (\A i \in Floor(m) + 1 .. FramesMax : ListAt(i))'
  <2> SUFFICES ASSUME NEW i \in F + 1 .. FramesMax
               PROVE  ListAt(i)'
    OBVIOUS
  <2>1. i \in 1 .. FramesMax /\ i \in Nat
    BY <1>1
  <2>2. CASE deferStack'[i] = <<>>
    <3>1. \A a : Pends(deferStack[i], a)'
      BY <2>2 DEF Pends, Rising
    <3> QED BY <2>2, <3>1 DEF ListAt, Pends, Rising
  <2>3. CASE deferStack'[i] # <<>>
    <3>1. deferStack'[i] = deferStack[i] /\ ~(i > frameCount') /\ i \in 1 .. frameCount'
      BY <2>1, <2>3, <1>1
    <3>2. ListAt(i)
      BY <2>1 DEF IInv, ListsExact
    <3>3. i <= frameCount
      BY <3>1, <1>2, <1>1
    <3> QED BY <3>1, <3>2, <3>3, <1>1, ListSame
  <2> QED BY <2>2, <2>3
<1>12. (\A d \in 1 .. Len(defers) : /\ defers[d].owner \in 1 .. Len(kind)
                                    /\ kind[defers[d].owner] \notin {"defer", "gen"}
                                    /\ defers[d].started \in {0, 1})'
  <2>1. \A d \in 1 .. Len(defers) : /\ defers[d].owner \in 1 .. Len(kind)
                                    /\ kind[defers[d].owner] \notin {"defer", "gen"}
                                    /\ defers[d].started \in {0, 1}
    BY DEF IInv, NoneLost
  <2> QED BY <2>1, <1>2
<1>13. (\A d \in 1 .. Len(defers) : defers[d].started = 0 =>
          \/ \E i \in 1 .. Floor(m) : frames[i] = defers[d].owner
          \/ \E i \in Floor(m) + 1 .. frameCount : frames[i] = defers[d].owner /\ Pending(d, i))'
  <2> SUFFICES ASSUME NEW d \in 1 .. Len(defers), defers[d].started = 0
               PROVE  \/ \E i \in 1 .. F : frames'[i] = defers[d].owner
                      \/ \E i \in F + 1 .. frameCount' : frames'[i] = defers[d].owner /\ Pending(d, i)'
    OBVIOUS
  <2>1. PICK i \in 1 .. frameCount : frames[i] = defers[d].owner /\ Pending(d, i)
    BY DEF IInv, NoneLost
  <2>2. CASE i \in 1 .. F
    <3>1. i \in 1 .. frameCount'
      BY <2>2, <1>1
    <3> QED BY <2>1, <2>2, <3>1
  <2>3. CASE i \in F + 1 .. frameCount
    <3>1. i <= frameCount' /\ Pending(d, i)'
      BY <2>1, <2>3
    <3>2. i \in F + 1 .. frameCount' /\ i \in 1 .. frameCount'
      BY <2>3, <3>1, <1>1
    <3> QED BY <2>1, <3>1, <3>2
  <2>4. i \in 1 .. F \/ i \in F + 1 .. frameCount
    BY <1>1
  <2> QED BY <2>2, <2>3, <2>4
<1>14. (\A d \in 1 .. Len(defers) : defers[d].started = 1 =>
          \A i \in Floor(m) + 1 .. frameCount : frames[i] = defers[d].owner => i \in ending)'
  <2>1. \A d \in 1 .. Len(defers) : defers[d].started = 1 =>
          \A i \in 1 .. frameCount : frames[i] = defers[d].owner => i \in ending
    BY DEF IInv, StartedEnds
  <2> QED BY <2>1, <1>2
<1> QED BY <1>3, <1>4, <1>5, <1>6, <1>7, <1>8, <1>9, <1>10, <1>11, <1>12, <1>13, <1>14
        DEF FramesAbove

\* A generator's frame above m is the first, under its resumeGenerator.
LEMMA GenFrame ==
  ASSUME IInv, NEW m \in DOMAIN cpp, cpp[m].fn = "execute",
         \A k \in DOMAIN cpp : k > m /\ cpp[k].fn = "resume" => cpp[k].caller.n = frameCount,
         NEW i \in Floor(m) + 1 .. frameCount, runs[i] = "gen"
  PROVE  m > 1 /\ cpp[m - 1].fn = "resume" /\ i = cpp[m - 1].caller.n + 1
<1>1. /\ m \in Nat \ {0} /\ Len(cpp) \in Nat /\ m <= Len(cpp) /\ DOMAIN cpp = 1 .. Len(cpp)
      /\ frameCount \in Nat /\ Floor(m) \in Nat
  BY BelowExec
<1>2. i \in 1 .. frameCount /\ i \in Nat /\ i > Floor(m) /\ i <= frameCount
  BY <1>1
<1>3. i \in resumed
  BY <1>2 DEF IInv, Resumes
<1>4. PICK k \in DOMAIN cpp : cpp[k].fn = "resume" /\ cpp[k].caller.n + 1 = i
  BY <1>3 DEF resumed
<1>5. k >= m - 1
  BY <1>2, <1>4, NamesAbove
<1>6. k # m
  BY <1>4
<1>7. ~(k > m)
  <2>1. ~(frameCount + 1 = i)
    BY <1>1, <1>2
  <2> QED BY <2>1, <1>4
<1>8. k = m - 1 /\ k >= 1
  BY <1>1, <1>5, <1>6, <1>7
<1> QED BY <1>1, <1>4, <1>8

\* Nothing is ending above m.
Calm(m) == Len(cpp) = m \/ (Len(cpp) = m + 1 /\ Calls(cpp[m + 1]))

LEMMA CalmTop ==
  ASSUME IInv, NEW m \in DOMAIN cpp, cpp[m].fn = "execute", Calm(m)
  PROVE  /\ m \in Nat \ {0} /\ m <= Len(cpp) /\ Len(cpp) \in Nat
         /\ Len(cpp) = m => Top = cpp[m]
         /\ Len(cpp) # m => Top = cpp[m + 1] /\ m + 1 \in DOMAIN cpp
         /\ \A k \in DOMAIN cpp : k > m => /\ k = m + 1 /\ Len(cpp) = m + 1 /\ Calls(cpp[k])
                                           /\ cpp[k].caller.n = frameCount
<1>1. /\ m \in Nat \ {0} /\ Len(cpp) \in Nat /\ m <= Len(cpp) /\ DOMAIN cpp = 1 .. Len(cpp)
  BY BelowExec
<1>2. Top = cpp[Len(cpp)] /\ cpp # <<>>
  <2>1. cpp \in Seq(Record) /\ cpp # <<>>
    BY <1>1 DEF IInv, TypeOK
  <2> QED BY <2>1, FrontLast DEF Top
<1>3. Calls(Top) => frameCount = Top.caller.n
  BY <1>2 DEF IInv, TopFrames
<1> QED BY <1>1, <1>2, <1>3 DEF Calm

\* A step that changes no frame keeps what is above the execute() at m.
LEMMA CalmFrames ==
  ASSUME IInv, TypeOK', NEW m \in DOMAIN cpp, cpp[m].fn = "execute", Calm(m), Kept(m),
         m <= Len(cpp'), UNCHANGED <<frames, frameCount, kind, trys, gone, deferStack, defers>>,
         \A j \in DOMAIN handlers' : j \in DOMAIN handlers /\ handlers'[j] = handlers[j],
         \A i \in Floor(m) + 1 .. frameCount : \A d \in Nat :
           <<i, d>> \in handled => <<i, d>> \in handled' \cup caught',
         OneGenerator', currentGen'.set => resumed' # {},
         ret' = "exit" => ExitFree(Len(cpp) + 1, frameCount)'
  PROVE  FramesAbove(m)'
<1> SUFFICES ASSUME NEW F, F = Floor(m)
             PROVE  FramesAbove(m)'
  OBVIOUS
<1>1. /\ m \in Nat \ {0} /\ Len(cpp) \in Nat /\ DOMAIN cpp = 1 .. Len(cpp)
      /\ frameCount \in Nat /\ F \in Nat /\ F <= frameCount /\ FramesMax \in Nat
      /\ Len(kind) \in Nat /\ DOMAIN cpp' = 1 .. Len(cpp') /\ Len(cpp') \in Nat
  BY BelowExec, TypeFacts, NextTypeFacts DEF IInv, TypeFact
<1>2. frames' = frames /\ frameCount' = frameCount /\ kind' = kind /\ trys' = trys /\ gone' = gone
      /\ deferStack' = deferStack /\ defers' = defers
  OBVIOUS
<1>3. runs' = runs /\ open' = open
  BY <1>2 DEF runs, open
<1>4. \A i \in F + 1 .. frameCount :
        /\ \A d \in Nat : d < open[i] => <<i, d>> \in handled
        /\ runs[i] = "defer" /\ open[i] > 0 => i = frameCount
        /\ i \notin ending
        /\ \A d \in 1 .. Len(defers) : Pending(d, i) =>
             \E x \in DOMAIN deferStack[i] : deferStack[i][x] = d
  BY CalmFacts DEF Calm
<1>5. Floor(m)' = Floor(m)
  BY ExecKept
<1>6. \A i \in F + 1 .. frameCount : runs[i] = "gen" => i \in resumed'
  <2> SUFFICES ASSUME NEW i \in F + 1 .. frameCount, runs[i] = "gen"
               PROVE  i \in resumed'
    OBVIOUS
  <2>1. \A k \in DOMAIN cpp : k > m /\ cpp[k].fn = "resume" => cpp[k].caller.n = frameCount
    BY CalmTop
  <2>2. m > 1 /\ cpp[m - 1].fn = "resume" /\ i = cpp[m - 1].caller.n + 1
    BY <2>1, GenFrame
  <2>3. m - 1 \in DOMAIN cpp' /\ m - 1 \in 1 .. m - 1
    BY <2>2, <1>1
  <2>4. cpp'[m - 1] = cpp[m - 1]
    BY <2>3 DEF Kept
  <2> QED BY <2>2, <2>3, <2>4 DEF resumed
<1>7. \A i \in F + 1 .. frameCount : \A d \in Nat :
        d < open[i] /\ <<i, d>> \in handled \cup caught => <<i, d>> \in handled' \cup caught'
  BY <1>4
<1>8. \A i \in F + 1 .. frameCount :
        runs[i] = "defer" /\ open[i] > 0 /\ i < frameCount => i \in marks'
  BY <1>1, <1>4
<1>9. \A i \in F + 1 .. frameCount : \A d \in 1 .. Len(defers) :
        defers[d].started = 0 /\ Pending(d, i) => i <= frameCount' /\ Pending(d, i)'
  <2> SUFFICES ASSUME NEW i \in F + 1 .. frameCount, NEW d \in 1 .. Len(defers), Pending(d, i)
               PROVE  i <= frameCount' /\ Pending(d, i)'
    OBVIOUS
  <2>1. \E x \in DOMAIN deferStack[i] : deferStack[i][x] = d
    BY <1>4
  <2> QED BY <2>1, <1>1, <1>2 DEF Pending
<1>10. \A j \in DOMAIN handlers' : handlers[j].frame <= frameCount'
  BY <1>1, <1>2 DEF IInv, HandlersLive
<1>11. \A i \in 1 .. FramesMax : i > frameCount' => deferStack'[i] = <<>>
  BY <1>1, <1>2 DEF IInv, ListsExact, ListAt
<1>12. F <= frameCount' /\ frameCount' <= frameCount /\ Len(kind) <= Len(kind')
  BY <1>1, <1>2
<1> QED BY <1>2, <1>3, <1>4, <1>5, <1>6, <1>7, <1>8, <1>9, <1>10, <1>11, <1>12, FramesLeft

\* resumeGenerator has returned, or the generator is left alone.
GeneratorDone(m) ==
  \/ /\ generator' = generator /\ currentGen' = currentGen
     /\ Len(cpp) = m \/ cpp[m + 1].fn # "resume"
  \/ /\ Len(cpp) = m + 1 /\ cpp[m + 1].fn = "resume" /\ currentGen' = cpp[m + 1].previous
     /\ generator' = generator \/ generator' = [generator EXCEPT !.state = "completed"]

\* The generator after a step that may have ended it.
LEMMA GeneratorAfter ==
  ASSUME IInv, NEW m \in DOMAIN cpp, cpp[m].fn = "execute", Calm(m), GeneratorDone(m),
         UNCHANGED <<frames, frameCount, kind, trys, gone>>,
         m - 1 <= Len(cpp'), Len(cpp') \in Nat, DOMAIN cpp' = 1 .. Len(cpp'),
         \A k \in 1 .. m - 1 : cpp'[k] = cpp[k],
         \A k \in DOMAIN cpp' : cpp'[k].fn = "resume" => k \in 1 .. m - 1
  PROVE  /\ OneGenerator' /\ currentGen' \in GenRec
         /\ generator' \in [state : {"none", "created", "running", "suspended", "completed"}, act : Nat]
         /\ currentGen' = currentGen \/ \A k \in 1 .. m - 1 : cpp[k].fn # "resume"
         /\ currentGen'.set => resumed' # {}
<1>1. /\ m \in Nat \ {0} /\ Len(cpp) \in Nat /\ m <= Len(cpp) /\ DOMAIN cpp = 1 .. Len(cpp)
      /\ frameCount \in Nat
      /\ \A k \in DOMAIN cpp : k > m => k = m + 1 /\ Len(cpp) = m + 1
      /\ \A k \in 1 .. m - 1 : k \in DOMAIN cpp' /\ k \in DOMAIN cpp /\ k < Len(cpp) /\ k # m + 1
  BY CalmTop, BelowExec
<1>2. \A k \in DOMAIN cpp' : cpp'[k].fn = "resume" =>
        k \in DOMAIN cpp /\ cpp[k].fn = "resume" /\ k < Len(cpp)
  BY <1>1
<1>3. ASSUME Len(cpp) = m + 1, cpp[m + 1].fn = "resume"
      PROVE  /\ cpp[m + 1].previous \in GenRec /\ ~cpp[m + 1].previous.set
             /\ \A k \in 1 .. m - 1 : cpp[k].fn # "resume"
  <2>1. m + 1 \in DOMAIN cpp
    BY <1>3, <1>1
  <2>2. cpp[m + 1] \in Record /\ ResumeAt(m + 1)
    BY <2>1, TypeFacts DEF IInv, TypeFact, Resumes
  <2>3. cpp[m + 1].previous \in GenRec /\ ~cpp[m + 1].previous.set
    BY <2>2, <1>3, RecordFacts DEF ResumeAt
  <2>4. ASSUME NEW k \in 1 .. m - 1, cpp[k].fn = "resume"
        PROVE  FALSE
    <3>1. k \in DOMAIN cpp /\ k < m + 1
      BY <1>1
    <3>2. cpp[k].caller.n = cpp[m + 1].caller.n
      BY <3>1, <2>1, <1>3, <2>4 DEF IInv, Resumes, ResumeAt
    <3>3. Waits(cpp[k]) /\ Waits(cpp[m + 1]) /\ Mark(cpp[k]) = Mark(cpp[m + 1])
      BY <3>2, <1>3, <2>4 DEF Waits, Calls, Mark
    <3>4. Mark(cpp[k]) < Mark(cpp[m + 1]) /\ Mark(cpp[k]) \in Nat
      <4>1. cpp[k] \in Record
        BY <3>1, TypeFacts DEF IInv, TypeFact
      <4> QED BY <4>1, <3>1, <2>1, <3>3, RecordFacts DEF IInv, MarksRise
    <3> QED BY <3>3, <3>4
  <2> QED BY <2>3, <2>4
<1>4. CASE generator' = generator
  <2>1. OneGenerator'
    BY <1>1, <1>2, <1>4, GeneratorKept
  <2>2. generator' \in [state : {"none", "created", "running", "suspended", "completed"}, act : Nat]
    BY <1>4 DEF IInv, TypeOK
  <2>3. CASE currentGen' = currentGen /\ (Len(cpp) = m \/ cpp[m + 1].fn # "resume")
    <3>1. currentGen' \in GenRec
      BY <2>3 DEF IInv, TypeOK
    <3>2. ASSUME currentGen'.set
          PROVE  resumed' # {}
      <4>1. resumed # {}
        BY <2>3, <3>2 DEF IInv, Resumes
      <4>2. PICK k \in DOMAIN cpp : cpp[k].fn = "resume"
        BY <4>1 DEF resumed
      <4>3. k # m /\ ~(k > m)
        BY <4>2, <2>3, <1>1
      <4>4. k \in 1 .. m - 1
        BY <4>3, <1>1
      <4>5. k \in DOMAIN cpp' /\ cpp'[k].fn = "resume"
        BY <4>2, <4>4, <1>1
      <4> QED BY <4>5 DEF resumed
    <3> QED BY <2>1, <2>2, <2>3, <3>1, <3>2
  <2>4. CASE Len(cpp) = m + 1 /\ cpp[m + 1].fn = "resume" /\ currentGen' = cpp[m + 1].previous
    BY <2>1, <2>2, <2>4, <1>3
  <2> QED BY <1>4, <2>3, <2>4 DEF GeneratorDone
<1>5. CASE /\ Len(cpp) = m + 1 /\ cpp[m + 1].fn = "resume" /\ currentGen' = cpp[m + 1].previous
           /\ generator' = [generator EXCEPT !.state = "completed"]
  <2>1. /\ generator' \in [state : {"none", "created", "running", "suspended", "completed"}, act : Nat]
        /\ generator'.act = generator.act /\ generator'.state = "completed"
    BY <1>5 DEF IInv, TypeOK
  <2>2. OneGenerator'
    <3>1. \A a \in 1 .. Len(kind) : kind[a] = "gen" => a = generator.act /\ trys[a] = 0
      BY DEF IInv, OneGenerator
    <3> QED BY <2>1, <3>1 DEF OneGenerator
  <2> QED BY <2>1, <2>2, <1>3, <1>5
<1> QED BY <1>4, <1>5 DEF GeneratorDone

\* A step that leaves the frames and the execute() at m as they are.
Steady(m) ==
  /\ UNCHANGED <<frames, frameCount, kind, trys, gone, deferStack, defers, used>>
  /\ cpp' \in Seq(Record) /\ m <= Len(cpp') /\ \A k \in 1 .. m : cpp'[k] = cpp[k]
  /\ \A k \in DOMAIN cpp' : k > m => Ends(cpp'[k])
  /\ handlers' \in Seq(Handler) /\ HandlersKept(m)
  /\ \A j \in DOMAIN handlers' : j \in DOMAIN handlers /\ handlers'[j] = handlers[j]
  /\ ret' \in {"none", "exit"}
  /\ GeneratorDone(m)

\* What both keep below.
LEMMA SteadyFacts ==
  ASSUME IInv, NEW m \in DOMAIN cpp, cpp[m].fn = "execute", Calm(m), Steady(m)
  PROVE  /\ TypeOK' /\ Kept(m) /\ OneGenerator' /\ (currentGen'.set => resumed' # {})
         /\ m > 1 => DeferFrameAt(m - 1)'
         /\ runs' = runs /\ open' = open /\ frameCount' = frameCount /\ frames' = frames
         /\ Floor(m)' = Floor(m) /\ Floor(m) < frameCount
<1> SUFFICES ASSUME NEW F, F = Floor(m)
             PROVE  /\ TypeOK' /\ Kept(m) /\ OneGenerator' /\ (currentGen'.set => resumed' # {})
                    /\ m > 1 => DeferFrameAt(m - 1)'
                    /\ runs' = runs /\ open' = open /\ frameCount' = frameCount /\ frames' = frames
                    /\ Floor(m)' = Floor(m) /\ Floor(m) < frameCount
  OBVIOUS
<1>1. /\ m \in Nat \ {0} /\ Len(cpp) \in Nat /\ frameCount \in Nat /\ F \in Nat /\ F < frameCount
      /\ Len(kind) \in Nat /\ Len(defers) \in Nat
  <2>1. m \in Nat \ {0} /\ Len(cpp) \in Nat /\ frameCount \in Nat /\ F \in Nat
    BY BelowExec
  <2>2. F < frameCount
    BY CalmFacts DEF Calm
  <2> QED BY <2>1, <2>2, TypeFacts DEF IInv, TypeFact
<1>3. /\ frames' = frames /\ frameCount' = frameCount /\ kind' = kind /\ trys' = trys /\ gone' = gone
      /\ deferStack' = deferStack /\ defers' = defers /\ used' = used
  BY DEF Steady
<1>4. runs' = runs /\ open' = open
  BY <1>3 DEF runs, open
<1>5. /\ cpp' \in Seq(Record) /\ Len(cpp') \in Nat /\ DOMAIN cpp' = 1 .. Len(cpp')
      /\ m <= Len(cpp') /\ m - 1 <= Len(cpp')
      /\ \A k \in 1 .. m : cpp'[k] = cpp[k]
      /\ \A k \in 1 .. m - 1 : k \in 1 .. m
      /\ cpp'[m] = cpp[m]
  <2>1. cpp' \in Seq(Record) /\ m <= Len(cpp') /\ \A k \in 1 .. m : cpp'[k] = cpp[k]
    BY DEF Steady
  <2>2. Len(cpp') \in Nat /\ DOMAIN cpp' = 1 .. Len(cpp')
    BY <2>1
  <2> QED BY <2>1, <2>2, <1>1
<1>6. \A k \in DOMAIN cpp' : cpp'[k].fn = "resume" => k \in 1 .. m - 1
  <2>1. \A k \in DOMAIN cpp' : k > m => cpp'[k].fn # "resume"
    BY DEF Steady, Ends
  <2>2. \A k \in DOMAIN cpp' : k > m \/ k = m \/ k \in 1 .. m - 1
    BY <1>1, <1>5
  <2>3. cpp'[m].fn # "resume"
    BY <1>5
  <2> QED BY <2>1, <2>2, <2>3
<1>7. /\ OneGenerator' /\ currentGen' \in GenRec
      /\ generator' \in [state : {"none", "created", "running", "suspended", "completed"}, act : Nat]
      /\ currentGen' = currentGen \/ \A k \in 1 .. m - 1 : cpp[k].fn # "resume"
      /\ currentGen'.set => resumed' # {}
  <2>1. GeneratorDone(m)
    BY DEF Steady
  <2>2. UNCHANGED <<frames, frameCount, kind, trys, gone>>
    BY <1>3
  <2> QED BY <2>1, <2>2, <1>5, <1>6, GeneratorAfter
<1>8. TypeOK'
  <2>1. handlers' \in Seq(Handler) /\ ret' \in {"none", "ok", "error", "exit"}
    BY DEF Steady
  <2> QED BY <2>1, <1>3, <1>5, <1>7 DEF IInv, TypeOK
<1>9. Kept(m)
  <2>1. HandlersKept(m)
    BY DEF Steady
  <2>2. \A i \in 1 .. F : /\ frames'[i] = frames[i] /\ open'[i] = open[i]
                          /\ runs'[i] = runs[i] /\ deferStack'[i] = deferStack[i]
    BY <1>3, <1>4
  <2>3. \A d \in Len(defers) + 1 .. Len(defers') : FALSE
    BY <1>1, <1>3
  <2>4. m - 1 <= Len(cpp') /\ (\A k \in 1 .. m - 1 : cpp'[k] = cpp[k]) /\ cpp'[m] = cpp[m]
    BY <1>5
  <2>5. Len(kind) <= Len(kind') /\ \A a \in 1 .. Len(kind) : kind'[a] = kind[a]
    BY <1>1, <1>3
  <2>6. Floor(m) <= frameCount' /\ Len(defers) <= Len(defers') /\ \A d \in 1 .. Len(defers) : defers'[d] = defers[d]
    BY <1>1, <1>3
  <2> QED BY <2>1, <2>2, <2>3, <2>4, <2>5, <2>6, <1>7 DEF Kept, HandlersKept
<1>10. m > 1 => DeferFrameAt(m - 1)'
  BY <1>1, <1>3, <1>4, <1>9, FrameKept
<1>11. Floor(m)' = Floor(m)
  BY <1>5, <1>8, <1>9, ExecKept
<1> QED BY <1>1, <1>3, <1>4, <1>7, <1>8, <1>9, <1>10, <1>11

\* ... in particular when the execute() at m goes on, or an exit begins in it.
LEMMA GoesOn ==
  ASSUME IInv, NEW m \in DOMAIN cpp, cpp[m].fn = "execute", Calm(m), Steady(m), Len(cpp') = m,
         handlers' = handlers,
         ret' = "exit" => /\ ExitFree(Len(cpp) + 1, frameCount)'
                          /\ \A k \in DOMAIN cpp' : cpp'[k].fn # "defers"
  PROVE  IInv'
<1> SUFFICES ASSUME NEW F, F = Floor(m)
             PROVE  IInv'
  OBVIOUS
<1>1. /\ TypeOK' /\ Kept(m) /\ OneGenerator' /\ (currentGen'.set => resumed' # {})
      /\ m > 1 => DeferFrameAt(m - 1)'
      /\ frameCount' = frameCount
      /\ Floor(m)' = F /\ F < frameCount
  BY SteadyFacts
<1>2. m \in Nat \ {0} /\ m <= Len(cpp') /\ cpp'[m] = cpp[m]
  BY CalmTop, <1>1, ExecKept
<1>3. StackAbove(m)'
  BY <1>1, ExecOnTop
<1>4. Reported' /\ TopFrames' /\ OverClosed'
  <2>1. Top' = cpp'[m] /\ cpp' # <<>>
    BY <1>1, <1>2, NextTop
  <2>2. ret' \in {"none", "exit"}
    BY DEF Steady
  <2>3. Reported'
    BY <2>1, <2>2, <1>2 DEF Reported, Ends, Calls
  <2>4. TopFrames' /\ OverClosed'
    BY <2>1, <1>1, <1>2 DEF TopFrames, OverClosed, Calls
  <2> QED BY <2>3, <2>4
<1>5. FramesAbove(m)'
  <2>1. \A i \in Floor(m) + 1 .. frameCount : \A d \in Nat :
          <<i, d>> \in handled => <<i, d>> \in handled' \cup caught'
    BY DEF handled
  <2>2. \A j \in DOMAIN handlers' : j \in DOMAIN handlers /\ handlers'[j] = handlers[j]
    OBVIOUS
  <2>3. UNCHANGED <<frames, frameCount, kind, trys, gone, deferStack, defers>>
    BY DEF Steady
  <2> QED BY <2>1, <2>2, <2>3, <1>1, <1>2, CalmFrames
<1>6. Above(m)'
  BY <1>3, <1>4, <1>5 DEF Above
<1> QED BY <1>1, <1>6, Assembled

\* ... or something is about to end in it.
LEMMA EndsBegin ==
  ASSUME IInv, NEW m \in DOMAIN cpp, cpp[m].fn = "execute", Calm(m), Steady(m), Len(cpp') = m + 1,
         ret' = "none",
         cpp'[m + 1].fn = "unwind" => cpp'[m + 1].target = cpp[m].base,
         StopAt(m + 1)', ClosedAt(m + 1)', ExitAt(m + 1)',
         \A i \in Floor(m) + 1 .. frameCount : \A d \in Nat :
           <<i, d>> \in handled => <<i, d>> \in handled' \cup caught'
  PROVE  IInv'
<1> SUFFICES ASSUME NEW F, F = Floor(m)
             PROVE  IInv'
  OBVIOUS
<1>1. /\ TypeOK' /\ Kept(m) /\ OneGenerator' /\ (currentGen'.set => resumed' # {})
      /\ m > 1 => DeferFrameAt(m - 1)'
      /\ frameCount' = frameCount
      /\ Floor(m)' = F /\ F < frameCount
  BY SteadyFacts
<1>2. m \in Nat \ {0} /\ m <= Len(cpp') /\ cpp'[m] = cpp[m]
  BY CalmTop, <1>1, ExecKept
<1>3. Ends(cpp'[m + 1])
  <2>1. cpp' \in Seq(Record) /\ \A k \in DOMAIN cpp' : k > m => Ends(cpp'[k])
    BY DEF Steady
  <2>2. m + 1 \in DOMAIN cpp' /\ m + 1 > m
    BY <2>1, <1>2
  <2> QED BY <2>1, <2>2
<1>4. StackAbove(m)'
  BY <1>1, <1>3, EndOnTop
<1>5. Reported' /\ TopFrames' /\ OverClosed'
  <2>1. Top' = cpp'[m + 1] /\ cpp' # <<>>
    BY <1>1, <1>2, NextTop
  <2>2. ~Calls(cpp'[m + 1]) /\ cpp'[m + 1].fn # "execute" /\ cpp'[m + 1].fn # "defers"
    BY <1>3 DEF Ends, Calls
  <2> QED BY <2>1, <2>2, <1>3 DEF Reported, TopFrames, OverClosed
<1>6. FramesAbove(m)'
  <2>1. \A j \in DOMAIN handlers' : j \in DOMAIN handlers /\ handlers'[j] = handlers[j]
    BY DEF Steady
  <2>2. UNCHANGED <<frames, frameCount, kind, trys, gone, deferStack, defers>>
    BY DEF Steady
  <2> QED BY <2>1, <2>2, <1>1, <1>2, CalmFrames
<1>7. Above(m)'
  BY <1>4, <1>5, <1>6 DEF Above
<1> QED BY <1>1, <1>7, Assembled

\* Raise takes the innermost open try block of this execute(), and when it has
\* none, none of its frames has one.
LEMMA RaiseKeeps ==
  ASSUME IInv, NEW m \in DOMAIN cpp, cpp[m].fn = "execute", Calm(m), GeneratorDone(m),
         NEW stack \in Seq(Record), Len(stack) = m, \A k \in 1 .. m : stack[k] = cpp[k],
         Raise(stack), ret' = "none",
         UNCHANGED <<frames, frameCount, kind, trys, gone, deferStack, defers, used>>
  PROVE  IInv'
<1> SUFFICES ASSUME NEW F, F = Floor(m)
             PROVE  IInv'
  OBVIOUS
<1>1. /\ m \in Nat \ {0} /\ frameCount \in Nat /\ F \in Nat /\ F < frameCount
      /\ Len(handlers) \in Nat /\ DOMAIN handlers = 1 .. Len(handlers)
      /\ \A j \in DOMAIN handlers : /\ handlers[j] \in Handler /\ handlers[j].frame \in Nat
                                    /\ handlers[j].act \in Nat /\ handlers[j].depth \in Nat
      /\ handlers \in Seq(Handler)
  <2>1. m \in Nat \ {0} /\ frameCount \in Nat /\ F \in Nat
    BY BelowExec
  <2>2. F < frameCount
    BY CalmFacts DEF Calm
  <2>3. handlers \in Seq(Handler)
    BY DEF IInv, TypeOK
  <2> QED BY <2>1, <2>2, <2>3, TypeFacts DEF IInv, TypeFact
<1>2. \A i \in F + 1 .. frameCount :
        /\ i \in 1 .. frameCount /\ open[i] \in Nat
        /\ \A d \in Nat : d < open[i] =>
             \E j \in DOMAIN handlers : handlers[j].frame = i /\ handlers[j].depth = d
  <2>1. \A i \in F + 1 .. frameCount :
          /\ open[i] \in Nat
          /\ \A d \in Nat : d < open[i] => <<i, d>> \in handled
    BY CalmFacts DEF Calm
  <2>2. \A i \in F + 1 .. frameCount : i \in 1 .. frameCount
    BY <1>1
  <2> QED BY <2>1, <2>2 DEF handled
<1>3. stack # <<>> /\ Last(stack) = cpp[m]
  <2>1. stack # <<>>
    BY <1>1
  <2>2. Last(stack) = stack[Len(stack)]
    BY <2>1, FrontLast
  <2>3. m \in 1 .. m
    BY <1>1
  <2> QED BY <2>1, <2>2, <2>3
<1>4. /\ cpp[m].floor \in Nat /\ cpp[m].base \in Nat /\ cpp[m].base \in {F, F + 1}
      /\ \A j \in DOMAIN handlers : j <= cpp[m].floor <=> handlers[j].frame <= F
  <2>1. m = 1 => cpp[m].base = 0 /\ F = 0
    BY FloorFacts
  <2>2. m # 1 => m > 1
    BY <1>1
  <2> QED BY <2>1, <2>2, FloorFacts
<1>5. ASSUME NEW x \in Record, Ends(x), cpp' = Append(stack, x)
      PROVE  /\ cpp' \in Seq(Record) /\ Len(cpp') = m + 1 /\ m <= Len(cpp')
             /\ \A k \in 1 .. m : cpp'[k] = cpp[k]
             /\ cpp'[m + 1] = x /\ \A k \in DOMAIN cpp' : k > m => Ends(cpp'[k])
             /\ m + 1 \in DOMAIN cpp' /\ Lim(m + 1)' = frameCount
  <2>1. cpp' \in Seq(Record) /\ Len(cpp') = m + 1 /\ cpp'[m + 1] = x
        /\ \A k \in 1 .. m : cpp'[k] = stack[k]
    BY <1>5, Appended
  <2>2. DOMAIN cpp' = 1 .. m + 1 /\ m + 1 \in 1 .. m + 1
    BY <2>1, <1>1
  <2>3. \A k \in DOMAIN cpp' : k > m => k = m + 1
    BY <2>2, <1>1
  <2>4. Lim(m + 1)' = frameCount
    BY <2>1 DEF Lim
  <2> QED BY <2>1, <2>2, <2>3, <2>4, <1>1, <1>5
<1>6. CASE Len(handlers) > cpp[m].floor
  <2> DEFINE N == Len(handlers)
  <2> SUFFICES ASSUME NEW h, h = handlers[N]
               PROVE  IInv'
    OBVIOUS
  <2>1. /\ handlers' = Front(handlers)
        /\ cpp' = Append(stack, [fn |-> "catch", handler |-> Last(handlers)])
    BY <1>3, <1>6 DEF Raise
  <2>2. /\ HandlersKept(m) /\ handlers' \in Seq(Handler)
        /\ Len(handlers') = N - 1 /\ DOMAIN handlers' = 1 .. N - 1
        /\ \A j \in DOMAIN handlers' : j \in DOMAIN handlers /\ handlers'[j] = handlers[j]
        /\ Last(handlers) = h /\ N \in DOMAIN handlers
        /\ h.frame > F
    BY <2>1, <1>6, PoppedHandler DEF Popped
  <2>3. h \in Handler /\ h.frame \in Nat /\ h.depth \in Nat
    BY <2>2, <1>1
  <2>4. [fn |-> "catch", handler |-> h] \in Record /\ Ends([fn |-> "catch", handler |-> h])
    BY <2>3, RecordTypes DEF Ends
  <2>5. /\ cpp' \in Seq(Record) /\ Len(cpp') = m + 1 /\ m <= Len(cpp')
        /\ \A k \in 1 .. m : cpp'[k] = cpp[k]
        /\ cpp'[m + 1] = [fn |-> "catch", handler |-> h]
        /\ \A k \in DOMAIN cpp' : k > m => Ends(cpp'[k])
        /\ m + 1 \in DOMAIN cpp' /\ Lim(m + 1)' = frameCount
    BY <2>1, <2>2, <2>4, <1>5
  <2>6. Steady(m)
    BY <2>2, <2>5 DEF Steady
  <2>7. /\ runs' = runs /\ open' = open /\ frameCount' = frameCount /\ frames' = frames
        /\ Floor(m)' = F
    BY <2>6, SteadyFacts
  <2>8. /\ h.frame \in 1 .. frameCount /\ h.act = frames[h.frame] /\ h.depth < open[h.frame]
    BY <2>2 DEF IInv, HandlersLive
  <2>9. \A j \in DOMAIN handlers : j < N =>
          \/ handlers[j].frame < h.frame
          \/ handlers[j].frame = h.frame /\ handlers[j].depth < h.depth
    BY <2>2 DEF IInv, HandlersRise
  <2>10. \A j \in DOMAIN handlers : j = N \/ j < N
    BY <1>1
  <2>11. StopAt(m + 1)'
    <3>1. Floor(m + 1 - 1)' = F /\ Stop(cpp'[m + 1]) = h.frame
      BY <1>1, <2>5, <2>7 DEF Stop
    <3>2. ~(m + 1 < Len(cpp')) /\ h.frame <= frameCount
      BY <1>1, <2>5, <2>8
    <3>3. (Stop(cpp[m + 1]))' = h.frame
      BY <2>5 DEF Stop
    <3> QED BY <3>1, <3>2, <3>3, <2>2, <2>5 DEF StopAt
  <2>12. \A i \in h.frame + 1 .. frameCount : open[i] = 0
    <3> SUFFICES ASSUME NEW i \in h.frame + 1 .. frameCount, open[i] # 0
                 PROVE  FALSE
      OBVIOUS
    <3>1. i \in F + 1 .. frameCount /\ i > h.frame
      BY <1>1, <2>2, <2>3
    <3>2. 0 < open[i]
      BY <3>1, <1>2
    <3>3. PICK j \in DOMAIN handlers : handlers[j].frame = i
      BY <3>1, <3>2, <1>2
    <3>4. handlers[j].frame <= h.frame
      <4>1. j = N => handlers[j].frame = h.frame
        BY <2>2
      <4>2. j < N => handlers[j].frame < h.frame \/ handlers[j].frame = h.frame
        BY <2>9
      <4>3. handlers[j].frame \in Nat /\ h.frame \in Nat
        BY <2>3, <1>1
      <4> QED BY <4>1, <4>2, <4>3, <2>10
    <3>5. i \in Nat
      BY <3>1, <1>1
    <3> QED BY <3>1, <3>3, <3>4, <3>5, <2>3
  <2>13. open[h.frame] = h.depth + 1
    <3>1. h.frame \in F + 1 .. frameCount
      BY <1>1, <2>2, <2>3, <2>8
    <3>2. open[h.frame] \in Nat
      BY <3>1, <1>2
    <3>3. ASSUME h.depth + 1 < open[h.frame]
          PROVE  FALSE
      <4>1. h.depth + 1 \in Nat
        BY <2>3
      <4>2. PICK j \in DOMAIN handlers : handlers[j].frame = h.frame /\ handlers[j].depth = h.depth + 1
        BY <4>1, <3>1, <3>3, <1>2
      <4>3. handlers[j].depth <= h.depth
        <5>1. j = N => handlers[j].depth = h.depth
          OBVIOUS
        <5>2. ~(handlers[j].frame < h.frame)
          BY <4>2, <2>3
        <5>3. j < N => handlers[j].depth < h.depth
          BY <5>2, <2>9
        <5> QED BY <5>1, <5>3, <2>10, <2>3, <1>1
      <4> QED BY <4>2, <4>3, <2>3
    <3> QED BY <3>2, <3>3, <2>3, <2>8
  <2>14. \A j \in DOMAIN handlers' : handlers'[j].frame = h.frame => handlers'[j].depth < h.depth
    <3>1. \A j \in DOMAIN handlers' : j < N /\ j \in DOMAIN handlers /\ handlers'[j] = handlers[j]
      BY <1>1, <2>2
    <3> QED BY <3>1, <2>9, <1>1, <2>3
  <2>15. ClosedAt(m + 1)'
    <3>2. (\A i \in cpp[m + 1].handler.frame + 1 .. Lim(m + 1) : open[i] = 0)'
      BY <2>5, <2>7, <2>12
    <3>3. (LET g == cpp[m + 1].handler IN
           /\ g.act = frames[g.frame] /\ open[g.frame] = g.depth + 1
           /\ \A j \in DOMAIN handlers : handlers[j].frame = g.frame => handlers[j].depth < g.depth)'
      BY <2>5, <2>7, <2>8, <2>13, <2>14
    <3> QED BY <3>2, <3>3, <2>5 DEF ClosedAt
  <2>16. ExitAt(m + 1)'
    BY <2>5 DEF ExitAt
  <2>17. \A i \in Floor(m) + 1 .. frameCount : \A d \in Nat :
           <<i, d>> \in handled => <<i, d>> \in handled' \cup caught'
    <3> SUFFICES ASSUME NEW i \in F + 1 .. frameCount, NEW d \in Nat, <<i, d>> \in handled
                 PROVE  <<i, d>> \in handled' \cup caught'
      OBVIOUS
    <3>1. PICK j \in DOMAIN handlers : handlers[j].frame = i /\ handlers[j].depth = d
      BY DEF handled
    <3>2. CASE j = N
      BY <3>1, <3>2, <2>5 DEF caught
    <3>3. CASE j < N
      <4>1. j \in DOMAIN handlers'
        BY <3>3, <2>2, <1>1
      <4> QED BY <4>1, <3>1, <2>2 DEF handled
    <3> QED BY <3>2, <3>3, <2>10
  <2> QED BY <2>5, <2>6, <2>11, <2>15, <2>16, <2>17, EndsBegin
<1>7. CASE ~(Len(handlers) > cpp[m].floor)
  <2> SUFFICES ASSUME NEW b, b = cpp[m].base
               PROVE  IInv'
    OBVIOUS
  <2>1. /\ handlers' = handlers
        /\ cpp' = Append(stack, [fn |-> "unwind", target |-> b, how |-> "error"])
    BY <1>3, <1>7 DEF Raise, UnwindAll
  <2>2. /\ [fn |-> "unwind", target |-> b, how |-> "error"] \in Record
        /\ Ends([fn |-> "unwind", target |-> b, how |-> "error"])
    BY <1>4, RecordTypes DEF Ends
  <2>3. /\ cpp' \in Seq(Record) /\ Len(cpp') = m + 1 /\ m <= Len(cpp')
        /\ \A k \in 1 .. m : cpp'[k] = cpp[k]
        /\ cpp'[m + 1] = [fn |-> "unwind", target |-> b, how |-> "error"]
        /\ \A k \in DOMAIN cpp' : k > m => Ends(cpp'[k])
        /\ m + 1 \in DOMAIN cpp' /\ Lim(m + 1)' = frameCount
    BY <2>1, <2>2, <1>5
  <2>4. HandlersKept(m)
    BY <2>1, SameHandlers
  <2>5. Steady(m)
    BY <2>1, <2>3, <2>4, <1>1 DEF Steady
  <2>6. /\ runs' = runs /\ open' = open /\ frameCount' = frameCount /\ frames' = frames
        /\ Floor(m)' = F
    BY <2>5, SteadyFacts
  <2>7. (Stop(cpp[m + 1]))' = b /\ b <= frameCount /\ b >= F /\ b \in Nat
    <3>1. (Stop(cpp[m + 1]))' = b
      BY <2>3 DEF Stop
    <3> QED BY <3>1, <1>1, <1>4
  <2>8. StopAt(m + 1)'
    <3>1. ~(m + 1 < Len(cpp'))
      BY <1>1, <2>3
    <3> QED BY <3>1, <2>3, <2>7 DEF StopAt
  <2>9. \A i \in F + 1 .. frameCount : open[i] = 0
    <3> SUFFICES ASSUME NEW i \in F + 1 .. frameCount, open[i] # 0
                 PROVE  FALSE
      OBVIOUS
    <3>1. i \in F + 1 .. frameCount /\ i > F
      BY <1>1
    <3>2. 0 < open[i]
      BY <3>1, <1>2
    <3>3. PICK j \in DOMAIN handlers : handlers[j].frame = i
      BY <3>1, <3>2, <1>2
    <3>4. j <= cpp[m].floor
      BY <3>3, <1>1, <1>4, <1>7
    <3> QED BY <3>1, <3>3, <3>4, <1>1, <1>4
  <2>10. ClosedAt(m + 1)'
    <3>1. Floor(m + 1 - 1)' = F
      BY <1>1, <2>6
    <3>2. (\A i \in Floor(m + 1 - 1) + 1 .. Lim(m + 1) : open[i] = 0)'
      BY <3>1, <2>3, <2>6, <2>9
    <3> QED BY <3>2, <2>3 DEF ClosedAt
  <2>11. ExitAt(m + 1)'
    BY <2>3 DEF ExitAt
  <2>12. \A i \in Floor(m) + 1 .. frameCount : \A d \in Nat :
           <<i, d>> \in handled => <<i, d>> \in handled' \cup caught'
    BY <2>1 DEF handled
  <2> QED BY <2>3, <2>5, <2>8, <2>10, <2>11, <2>12, EndsBegin
<1> QED BY <1>6, <1>7

\* Instructions that leave the frames as they are.
LEMMA RunCalm ==
  ASSUME IInv, Running, NEW n, n = Len(cpp)
  PROVE  /\ n \in Nat \ {0} /\ n \in DOMAIN cpp /\ cpp[n].fn = "execute" /\ Calm(n)
         /\ cpp \in Seq(Record) /\ handlers \in Seq(Handler)
         /\ UNCHANGED <<generator, currentGen>> => GeneratorDone(n)
  BY RunFacts DEF Calm, GeneratorDone, IInv, TypeOK

LEMMA ThrowKeeps ==
  ASSUME IInv, Throw
  PROVE  IInv'
<1> SUFFICES ASSUME NEW n, n = Len(cpp)
             PROVE  IInv'
  OBVIOUS
<1>1. /\ Running /\ Raise(cpp) /\ ret' = ret /\ UNCHANGED <<generator, currentGen>>
      /\ UNCHANGED <<frames, frameCount, kind, trys, gone, deferStack, defers, used>>
  BY DEF Throw, frameVars, genVars
<1>2. /\ n \in Nat \ {0} /\ n \in DOMAIN cpp /\ cpp[n].fn = "execute" /\ Calm(n)
      /\ cpp \in Seq(Record) /\ GeneratorDone(n)
  BY <1>1, RunCalm
<1>3. ret' = "none"
  BY <1>1 DEF Running
<1> QED BY <1>1, <1>2, <1>3, RaiseKeeps

\* Outside every try block of this execute() it makes no difference whether an
\* error is offered to one.
LEMMA EscapesRaise ==
  ASSUME Plain, NEW stack, Escapes(stack)
  PROVE  Raise(stack)
BY DEF Plain, Escapes, Raise

LEMMA EscapeKeeps ==
  ASSUME Plain, IInv, Escape
  PROVE  IInv'
<1>1. Running /\ Raise(cpp) /\ UNCHANGED <<deferStack, ret, genVars, defers, used>>
  BY EscapesRaise DEF Escape
<1>2. DropTo(frameCount)
  BY DEF Escape, FrameCounts, Plain
<1>3. {frames[i] : i \in frameCount + 1 .. frameCount} = {}
  BY DEF IInv, TypeOK
<1>4. UNCHANGED frameVars
  BY <1>2, <1>3 DEF DropTo, frameVars
<1> QED BY <1>1, <1>4, ThrowKeeps DEF Throw

LEMMA ReturnKeeps ==
  ASSUME IInv, Return
  PROVE  IInv'
<1> SUFFICES ASSUME NEW n, n = Len(cpp), NEW F, F = Floor(n)
             PROVE  IInv'
  OBVIOUS
<1>1. /\ Running /\ trys[Current] = 0 /\ cpp' = Append(cpp, [fn |-> "return"])
      /\ UNCHANGED <<generator, currentGen>> /\ handlers' = handlers /\ ret' = ret
      /\ UNCHANGED <<frames, frameCount, kind, trys, gone, deferStack, defers, used>>
  BY DEF Return, frameVars, genVars
<1>2. /\ n \in Nat \ {0} /\ n \in DOMAIN cpp /\ cpp[n].fn = "execute" /\ Calm(n)
      /\ cpp \in Seq(Record) /\ GeneratorDone(n) /\ handlers \in Seq(Handler)
  BY <1>1, RunCalm
<1>3. /\ cpp' \in Seq(Record) /\ Len(cpp') = n + 1 /\ \A k \in 1 .. n : cpp'[k] = cpp[k]
      /\ cpp'[n + 1] = [fn |-> "return"]
  BY <1>1, <1>2, RecordTypes, Appended
<1>4. Steady(n)
  <2>1. \A k \in DOMAIN cpp' : k > n => k = n + 1
    BY <1>2, <1>3
  <2>2. HandlersKept(n)
    BY <1>1, <1>2, SameHandlers
  <2>3. n <= Len(cpp') /\ ret' = "none" /\ handlers' \in Seq(Handler)
    BY <1>1, <1>2, <1>3 DEF Running
  <2>4. \A k \in DOMAIN cpp' : k > n => Ends(cpp'[k])
    BY <2>1, <1>3 DEF Ends
  <2> QED BY <2>2, <2>3, <2>4, <1>1, <1>2, <1>3 DEF Steady
<1>5. open' = open /\ frameCount' = frameCount /\ Floor(n)' = F /\ F < frameCount
  BY <1>2, <1>4, SteadyFacts
<1>6. Lim(n + 1)' = frameCount /\ Floor(n + 1 - 1)' = F
  BY <1>2, <1>3, <1>5 DEF Lim
<1>7. StopAt(n + 1)'
  BY <1>3, <1>5, <1>6 DEF StopAt
<1>8. ClosedAt(n + 1)'
  <2>1. open[frameCount] = 0
    BY <1>1, RunFacts
  <2> QED BY <2>1, <1>3, <1>5, <1>6 DEF ClosedAt
<1>9. ExitAt(n + 1)'
  BY <1>3 DEF ExitAt
<1>10. \A i \in Floor(n) + 1 .. frameCount : \A d \in Nat :
         <<i, d>> \in handled => <<i, d>> \in handled' \cup caught'
  BY <1>1 DEF handled
<1>11. ret' = "none" /\ cpp'[n + 1].fn # "unwind"
  BY <1>1, <1>3 DEF Running
<1> QED BY <1>2, <1>3, <1>4, <1>7, <1>8, <1>9, <1>10, <1>11, EndsBegin

\* A set of naturals has a least element.
LEMMA Smallest ==
  ASSUME NEW S \in SUBSET Nat, S # {}
  PROVE  \E n \in S : \A k \in S : n <= k
<1> DEFINE R == OpToRel(<, Nat)
<1>1. IsWellFoundedOn(R, Nat)
  BY NatLessThanWellFounded
<1>2. \A k, n \in Nat : k < n => <<k, n>> \in R
  BY DEF OpToRel
<1> HIDE DEF R
<1>3. PICK n \in S : \A k \in S : ~(<<k, n>> \in R)
  BY <1>1, WFMin
<1>4. \A k \in S : k \in Nat /\ n \in Nat /\ ~(k < n)
  BY <1>2, <1>3
<1> QED BY <1>4

\* So the C++ stack has a topmost activation of what it holds.
LEMMA TopmostFacts ==
  ASSUME TypeOK, NEW fn, \E i \in DOMAIN cpp : cpp[i].fn = fn
  PROVE  /\ Topmost(fn) \in DOMAIN cpp /\ cpp[Topmost(fn)].fn = fn
         /\ \A j \in DOMAIN cpp : cpp[j].fn = fn => j <= Topmost(fn)
<1> DEFINE S == {Len(cpp) - i : i \in {x \in DOMAIN cpp : cpp[x].fn = fn}}
<1>1. Len(cpp) \in Nat /\ DOMAIN cpp = 1 .. Len(cpp)
  BY TypeFacts DEF TypeFact
<1>2. S \in SUBSET Nat /\ S # {}
  BY <1>1
<1>3. PICK s \in S : \A t \in S : s <= t
  <2> HIDE DEF S
  <2> QED BY <1>2, Smallest
<1>4. PICK i \in DOMAIN cpp : cpp[i].fn = fn /\ s = Len(cpp) - i
  BY <1>3
<1>5. \A j \in DOMAIN cpp : cpp[j].fn = fn => j <= i
  <2> SUFFICES ASSUME NEW j \in DOMAIN cpp, cpp[j].fn = fn
               PROVE  j <= i
    OBVIOUS
  <2>1. Len(cpp) - j \in S
    OBVIOUS
  <2>2. s <= Len(cpp) - j
    <3> HIDE DEF S
    <3> QED BY <2>1, <1>3
  <2> QED BY <2>2, <1>1, <1>4
<1>6. /\ Topmost(fn) \in DOMAIN cpp /\ cpp[Topmost(fn)].fn = fn
      /\ \A j \in DOMAIN cpp : cpp[j].fn = fn => j <= Topmost(fn)
  BY <1>4, <1>5 DEF Topmost
<1> QED BY <1>6

\* What runs under a record that waits is an execute().
LEMMA ExecUnder ==
  ASSUME IInv, NEW k \in DOMAIN cpp, Waits(cpp[k]), k < Len(cpp)
  PROVE  /\ k + 1 \in DOMAIN cpp /\ cpp[k + 1].fn = "execute"
         /\ Floor(k + 1) = Mark(cpp[k]) /\ FloorAt(k + 1)
<1>1. k + 1 \in DOMAIN cpp /\ k + 1 > 1 /\ k + 1 # 1 /\ k + 1 - 1 = k
  BY TypeFacts DEF IInv, TypeFact
<1>2. cpp[k + 1] \in Record /\ NestedAt(k + 1) /\ FloorAt(k + 1)
  BY <1>1, TypeFacts DEF IInv, TypeFact, Nested, FloorsExact
<1>3. ~Ends(cpp[k]) /\ cpp[k].fn # "execute"
  BY DEF Waits, Calls, Ends
<1>4. ~Ends(cpp[k + 1]) /\ ~Calls(cpp[k + 1]) /\ cpp[k + 1].fn # "defers"
  BY <1>1, <1>2, <1>3 DEF NestedAt
<1>5. cpp[k + 1].fn = "execute"
  BY <1>2, <1>4, RecordFacts DEF Waits
<1>6. Floor(k + 1) = Mark(cpp[k])
  BY <1>1 DEF Floor
<1> QED BY <1>1, <1>2, <1>5, <1>6

\* An exit that the code handles well (see the constants) is free to go.
LEMMA ExitIsFree ==
  ASSUME Plain, IInv, Exit
  PROVE  /\ \A k \in DOMAIN cpp : cpp[k].fn # "defers"
         /\ ExitFree(Len(cpp) + 1, frameCount)
<1> SUFFICES ASSUME NEW n, n = Len(cpp)
             PROVE  /\ \A k \in DOMAIN cpp : cpp[k].fn # "defers"
                    /\ ExitFree(n + 1, frameCount)
  OBVIOUS
<1>1. /\ Running /\ \A k \in DOMAIN cpp : cpp[k].fn # "defers"
      /\ ~(Len(handlers) > Len(ExitEnd.handlers))
      /\ ~(currentGen.set /\ currentGen.base >= ExitEnd.n)
  BY DEF Exit, Plain
<1>2. /\ n \in Nat \ {0} /\ n \in DOMAIN cpp /\ cpp[n].fn = "execute" /\ DOMAIN cpp = 1 .. n
      /\ \A k \in 1 .. n + 1 - 1 : k \in DOMAIN cpp /\ k \in Nat /\ k <= n
      /\ \A k \in DOMAIN cpp : k \in 1 .. n + 1 - 1 /\ k \in Nat /\ cpp[k] \in Record
      /\ Len(handlers) \in Nat /\ DOMAIN handlers = 1 .. Len(handlers)
      /\ \A j \in DOMAIN handlers : handlers[j].frame \in Nat
  BY <1>1, RunFacts, TypeFacts DEF IInv, TypeFact
<1>3. \A k \in DOMAIN cpp : k # n /\ Waits(cpp[k]) => k < n
  BY <1>2
<1>4. ASSUME NEW t \in DOMAIN cpp, cpp[t].fn = "posted", ExitEnd = cpp[t].caller,
             \A j \in DOMAIN cpp : cpp[j].fn = "posted" => j <= t
      PROVE  ExitFree(n + 1, frameCount)
  <2>1. Waits(cpp[t]) /\ Calls(cpp[t]) /\ Mark(cpp[t]) = cpp[t].caller.n /\ t < n
    BY <1>2, <1>3, <1>4 DEF Waits, Calls, Mark
  <2>2. /\ cpp[t].caller.n \in Nat /\ Len(cpp[t].caller.handlers) \in Nat
    BY <1>2, <2>1, RecordFacts, LenProperties
  <2>3. ASSUME NEW j \in DOMAIN cpp, cpp[j].fn = "resume"
        PROVE  t \in j .. n + 1 - 1
    <3>1. currentGen.set /\ currentGen.base = cpp[j].caller.n
      BY <2>3 DEF IInv, Resumes, ResumeAt
    <3>2. Waits(cpp[j]) /\ Calls(cpp[j]) /\ Mark(cpp[j]) = cpp[j].caller.n
      BY <2>3 DEF Waits, Calls, Mark
    <3>3. cpp[j].caller.n \in Nat
      BY <1>2, <3>2, RecordFacts
    <3>4. ~(cpp[j].caller.n >= cpp[t].caller.n)
      BY <3>1, <1>1, <1>4
    <3>5. ~(t < j)
      BY <3>2, <3>3, <3>4, <2>1, <2>2 DEF IInv, MarksRise
    <3> QED BY <3>5, <1>2
  <2>4. ASSUME NEW i \in 1 .. frameCount, open[i] # 0
        PROVE  i <= cpp[t].caller.n
    <3>1. open[i] \in Nat
      <4>1. frames[i] \in 1 .. Len(kind) /\ trys \in Seq(Nat) /\ Len(trys) = Len(kind)
        BY DEF IInv, Live, TypeOK
      <4>2. trys[frames[i]] \in Nat
        BY <4>1, ElementOfSeq
      <4> QED BY <4>2 DEF open
    <3>2. <<i, 0>> \in handled \cup caught
      BY <3>1, <2>4 DEF IInv, OpenHandled
    <3>3. <<i, 0>> \notin caught
      <4>1. ASSUME NEW k \in DOMAIN cpp, cpp[k].fn = "catch"
            PROVE  FALSE
        <5>1. k \in 1 .. n - 1 /\ Ends(cpp[k])
          <6>1. k # n
            BY <4>1, <1>2
          <6> QED BY <6>1, <4>1, <1>2 DEF Ends
        <5>2. k + 1 < n /\ cpp[k + 1].fn = "defers"
          BY <5>1, <1>2, BelowExec
        <5> QED BY <5>1, <5>2, <1>1, <1>2
      <4> QED BY <4>1 DEF caught
    <3>4. PICK j \in DOMAIN handlers : handlers[j].frame = i
      BY <3>2, <3>3 DEF handled
    <3>5. /\ t + 1 \in DOMAIN cpp /\ cpp[t + 1].fn = "execute"
          /\ Floor(t + 1) = cpp[t].caller.n /\ FloorAt(t + 1)
      BY <2>1, <1>2, ExecUnder
    <3>6. cpp[t + 1].floor = Len(cpp[t].caller.handlers)
      BY <2>1, <1>2 DEF IInv, CallersKept, CallerAt
    <3>7. j <= cpp[t + 1].floor
      BY <3>6, <1>1, <1>2, <1>4, <2>2
    <3> QED BY <3>4, <3>5, <3>7 DEF FloorAt
  <2>5. \A i \in 1 .. frameCount : open[i] # 0 =>
          \E p \in 1 .. n + 1 - 1 : cpp[p].fn = "posted" /\ i <= cpp[p].caller.n
    BY <2>4, <1>2, <1>4
  <2>6. \A j \in 1 .. n + 1 - 1 : cpp[j].fn = "resume" =>
          \E p \in j .. n + 1 - 1 : cpp[p].fn = "posted"
    BY <2>3, <1>2, <1>4
  <2>7. \A j \in 1 .. n + 1 - 1 : cpp[j].fn # "defers"
    BY <1>1, <1>2
  <2> QED BY <2>5, <2>6, <2>7 DEF ExitFree
<1>5. ASSUME ~\E i \in DOMAIN cpp : cpp[i].fn = "posted"
      PROVE  ExitFree(n + 1, frameCount)
  <2>1. ExitEnd = [n |-> 0, handlers |-> <<>>]
    BY <1>5 DEF ExitEnd
  <2>2. ExitEnd.n = 0 /\ Len(ExitEnd.handlers) = 0
    BY <2>1
  <2>3. \A j \in DOMAIN cpp : cpp[j].fn # "resume"
    <3> SUFFICES ASSUME NEW j \in DOMAIN cpp, cpp[j].fn = "resume"
                 PROVE  FALSE
      OBVIOUS
    <3>1. currentGen.set /\ currentGen.base = cpp[j].caller.n
      BY DEF IInv, Resumes, ResumeAt
    <3>2. cpp[j].caller.n \in Nat
      BY <1>2, RecordFacts DEF Calls
    <3> QED BY <3>1, <3>2, <2>2, <1>1
  <2>4. DOMAIN handlers = {}
    BY <2>2, <1>1, <1>2
  <2>5. ASSUME NEW i \in 1 .. frameCount, open[i] # 0
        PROVE  FALSE
    <3>1. open[i] \in Nat
      <4>1. frames[i] \in 1 .. Len(kind) /\ trys \in Seq(Nat) /\ Len(trys) = Len(kind)
        BY DEF IInv, Live, TypeOK
      <4>2. trys[frames[i]] \in Nat
        BY <4>1, ElementOfSeq
      <4> QED BY <4>2 DEF open
    <3>2. <<i, 0>> \in handled \cup caught
      BY <3>1, <2>5 DEF IInv, OpenHandled
    <3>3. <<i, 0>> \notin handled
      BY <2>4 DEF handled
    <3>4. PICK k \in DOMAIN cpp : cpp[k].fn = "catch"
      BY <3>2, <3>3 DEF caught
    <3>5. k \in 1 .. n - 1 /\ Ends(cpp[k])
      <4>1. k # n
        BY <3>4, <1>2
      <4> QED BY <4>1, <3>4, <1>2 DEF Ends
    <3>6. k + 1 < n /\ cpp[k + 1].fn = "defers"
      BY <3>5, <1>2, BelowExec
    <3> QED BY <3>5, <3>6, <1>1, <1>2
  <2>6. \A j \in 1 .. n + 1 - 1 : cpp[j].fn # "defers" /\ cpp[j].fn # "resume"
    BY <1>1, <1>2, <2>3
  <2> QED BY <2>5, <2>6 DEF ExitFree
<1>6. CASE \E i \in DOMAIN cpp : cpp[i].fn = "posted"
  <2>1. TypeOK
    BY DEF IInv
  <2>2. ExitEnd = cpp[Topmost("posted")].caller
    BY <1>6 DEF ExitEnd
  <2> QED BY <2>1, <2>2, <1>1, <1>4, <1>6, TopmostFacts
<1> QED BY <1>1, <1>5, <1>6

LEMMA ExitKeeps ==
  ASSUME Plain, IInv, Exit
  PROVE  IInv'
<1> SUFFICES ASSUME NEW n, n = Len(cpp)
             PROVE  IInv'
  OBVIOUS
<1>1. /\ Running /\ ret' = "exit" /\ cpp' = cpp /\ handlers' = handlers
      /\ UNCHANGED <<generator, currentGen>>
      /\ UNCHANGED <<frames, frameCount, kind, trys, gone, deferStack, defers, used>>
  BY DEF Exit, frameVars, genVars
<1>2. /\ n \in Nat \ {0} /\ n \in DOMAIN cpp /\ cpp[n].fn = "execute" /\ Calm(n)
      /\ cpp \in Seq(Record) /\ handlers \in Seq(Handler) /\ GeneratorDone(n)
  BY <1>1, RunCalm
<1>3. Steady(n)
  <2>1. HandlersKept(n)
    BY <1>1, <1>2, SameHandlers
  <2>2. \A k \in DOMAIN cpp' : ~(k > n)
    BY <1>1, <1>2
  <2> QED BY <2>1, <2>2, <1>1, <1>2 DEF Steady
<1>4. ExitFree(Len(cpp) + 1, frameCount)' /\ \A k \in DOMAIN cpp' : cpp'[k].fn # "defers"
  <2>1. open' = open
    BY <1>1 DEF open
  <2> QED BY <2>1, <1>1, ExitIsFree DEF ExitFree
<1> QED BY <1>1, <1>2, <1>3, <1>4, GoesOn

\* What a native, a posted callback or resumeGenerator that is done finds.
LEMMA CallFacts ==
  ASSUME IInv, cpp # <<>>, Calls(Top), NEW n, n = Len(cpp)
  PROVE  /\ n \in Nat /\ n > 1 /\ Top = cpp[n] /\ cpp[n] \in Record
         /\ n - 1 \in DOMAIN cpp /\ cpp[n - 1].fn = "execute" /\ Calm(n - 1)
         /\ n = n - 1 + 1
         /\ Below \in Seq(Record) /\ Len(Below) = n - 1 /\ \A k \in 1 .. n - 1 : Below[k] = cpp[k]
         /\ handlers \in Seq(Handler) /\ frameCount \in Nat
         /\ frameCount = Top.caller.n /\ Len(handlers) = Len(Top.caller.handlers)
<1>1. /\ n \in Nat \ {0} /\ Top = cpp[n] /\ n \in DOMAIN cpp /\ cpp[n] \in Record
      /\ Below \in Seq(Record) /\ Len(Below) = n - 1 /\ \A k \in 1 .. n - 1 : Below[k] = cpp[k]
  <2>1. cpp \in Seq(Record)
    BY DEF IInv, TypeOK
  <2>2. /\ Front(cpp) \in Seq(Record) /\ Len(Front(cpp)) = n - 1
        /\ \A i \in 1 .. n - 1 : Front(cpp)[i] = cpp[i]
        /\ Last(cpp) = cpp[n] /\ n \in Nat \ {0}
    BY <2>1, FrontLast
  <2>3. DOMAIN cpp = 1 .. n /\ \A k \in DOMAIN cpp : cpp[k] \in Record
    BY TypeFacts DEF IInv, TypeFact
  <2>4. n \in DOMAIN cpp
    BY <2>2, <2>3
  <2> QED BY <2>2, <2>3, <2>4 DEF Top, Below
<1>2. NestedAt(n)
  BY <1>1 DEF IInv, Nested
<1>3. n # 1
  BY <1>1, <1>2 DEF NestedAt, Calls
<1>4. n > 1 /\ n - 1 \in DOMAIN cpp /\ n = n - 1 + 1
  BY <1>1, <1>3, TypeFacts DEF IInv, TypeFact
<1>5. cpp[n - 1].fn = "execute"
  BY <1>1, <1>2, <1>4 DEF NestedAt
<1>6. Calm(n - 1)
  BY <1>1, <1>4 DEF Calm
<1>7. handlers \in Seq(Handler) /\ frameCount \in Nat /\ frameCount = Top.caller.n
  BY TypeFacts DEF IInv, TypeOK, TypeFact, TopFrames
<1>8. Len(handlers) = Len(Top.caller.handlers)
  BY <1>1 DEF IInv, CallersKept, CallerAt
<1> QED BY <1>1, <1>4, <1>5, <1>6, <1>7, <1>8

\* It goes on when the call has succeeded, or its failure was logged.
LEMMA CallReturns ==
  ASSUME IInv, cpp # <<>>, Calls(Top), NEW n, n = Len(cpp), GeneratorDone(n - 1),
         cpp' = Below, ret' = "none", handlers' = handlers,
         UNCHANGED <<frames, frameCount, kind, trys, gone, deferStack, defers, used>>
  PROVE  IInv'
<1>1. /\ n \in Nat /\ n > 1
      /\ n - 1 \in DOMAIN cpp /\ cpp[n - 1].fn = "execute" /\ Calm(n - 1)
      /\ cpp' \in Seq(Record) /\ Len(cpp') = n - 1 /\ \A k \in 1 .. n - 1 : cpp'[k] = cpp[k]
      /\ handlers \in Seq(Handler)
  BY CallFacts
<1>2. Steady(n - 1)
  <2>1. HandlersKept(n - 1)
    BY <1>1, SameHandlers
  <2>2. \A k \in DOMAIN cpp' : ~(k > n - 1)
    BY <1>1
  <2>3. n - 1 <= Len(cpp')
    BY <1>1
  <2> QED BY <2>1, <2>2, <2>3, <1>1 DEF Steady
<1> QED BY <1>1, <1>2, GoesOn

LEMMA NativeBackKeeps ==
  ASSUME Plain, IInv, NativeBack
  PROVE  IInv'
<1> SUFFICES ASSUME NEW n, n = Len(cpp)
             PROVE  IInv'
  OBVIOUS
<1>1. /\ cpp # <<>> /\ Top.fn = "native" /\ ret' = "none"
      /\ \/ ret = "ok" /\ cpp' = Below /\ handlers' = handlers
         \/ Raise(Below)
      /\ UNCHANGED <<generator, currentGen>>
      /\ UNCHANGED <<frames, frameCount, kind, trys, gone, deferStack, defers, used>>
  BY EscapesRaise DEF NativeBack, CalleeFails, Resumed, frameVars, genVars
<1>2. Calls(Top)
  BY <1>1 DEF Calls
<1>3. /\ n \in Nat /\ n > 1 /\ Top = cpp[n] /\ n = n - 1 + 1
      /\ n - 1 \in DOMAIN cpp /\ cpp[n - 1].fn = "execute" /\ Calm(n - 1)
      /\ Below \in Seq(Record) /\ Len(Below) = n - 1 /\ \A k \in 1 .. n - 1 : Below[k] = cpp[k]
  BY <1>1, <1>2, CallFacts
<1>4. GeneratorDone(n - 1)
  BY <1>1, <1>3 DEF GeneratorDone
<1>5. CASE cpp' = Below /\ handlers' = handlers
  BY <1>1, <1>2, <1>4, <1>5, CallReturns
<1>6. CASE Raise(Below)
  BY <1>1, <1>3, <1>4, <1>6, RaiseKeeps
<1> QED BY <1>1, <1>5, <1>6

LEMMA GeneratorBackKeeps ==
  ASSUME Plain, IInv, GeneratorBack
  PROVE  IInv'
<1> SUFFICES ASSUME NEW n, n = Len(cpp)
             PROVE  IInv'
  OBVIOUS
<1>1. /\ cpp # <<>> /\ Top.fn = "resume" /\ ret' = "none" /\ currentGen' = Top.previous
      /\ \/ cpp' = Below /\ handlers' = handlers /\ generator' = generator
         \/ generator' = [generator EXCEPT !.state = "completed"] /\ Raise(Below)
      /\ UNCHANGED <<frames, frameCount, kind, trys, gone, deferStack, defers, used>>
  BY EscapesRaise DEF GeneratorBack, CalleeFails, Resumed, frameVars
<1>2. Calls(Top)
  BY <1>1 DEF Calls
<1>3. /\ n \in Nat /\ n > 1 /\ Top = cpp[n] /\ n = n - 1 + 1
      /\ n - 1 \in DOMAIN cpp /\ cpp[n - 1].fn = "execute" /\ Calm(n - 1)
      /\ Below \in Seq(Record) /\ Len(Below) = n - 1 /\ \A k \in 1 .. n - 1 : Below[k] = cpp[k]
  BY <1>1, <1>2, CallFacts
<1>4. GeneratorDone(n - 1)
  BY <1>1, <1>3 DEF GeneratorDone
<1>5. CASE cpp' = Below /\ handlers' = handlers
  BY <1>1, <1>2, <1>4, <1>5, CallReturns
<1>6. CASE Raise(Below)
  BY <1>1, <1>3, <1>4, <1>6, RaiseKeeps
<1> QED BY <1>1, <1>5, <1>6

\* drainPosted finds the frames and handlers it restores as they were.
LEMMA PostedBackKeeps ==
  ASSUME IInv, PostedBack
  PROVE  IInv'
<1> SUFFICES ASSUME NEW n, n = Len(cpp)
             PROVE  IInv'
  OBVIOUS
<1>1. /\ cpp # <<>> /\ Top.fn = "posted" /\ ret' = "none" /\ cpp' = Below
      /\ \/ UNCHANGED <<frames, frameCount, kind, trys, gone, handlers>>
         \/ /\ DropTo(Top.caller.n)
            /\ handlers' = IF Len(handlers) > Len(Top.caller.handlers)
                             THEN SubSeq(handlers, 1, Len(Top.caller.handlers)) ELSE handlers
      /\ UNCHANGED <<generator, currentGen>>
      /\ UNCHANGED <<deferStack, defers, used>>
  BY DEF PostedBack, Resumed, frameVars, genVars
<1>2. Calls(Top)
  BY <1>1 DEF Calls
<1>3. /\ n \in Nat /\ n > 1 /\ Top = cpp[n] /\ n = n - 1 + 1
      /\ handlers \in Seq(Handler) /\ frameCount \in Nat
      /\ frameCount = Top.caller.n /\ Len(handlers) = Len(Top.caller.handlers)
  BY <1>1, <1>2, CallFacts
<1>4. UNCHANGED <<frames, frameCount, kind, trys, gone>> /\ handlers' = handlers
  <2>1. CASE DropTo(Top.caller.n) /\ handlers' = IF Len(handlers) > Len(Top.caller.handlers)
                             THEN SubSeq(handlers, 1, Len(Top.caller.handlers)) ELSE handlers
    <3>1. ~(Len(handlers) > Len(Top.caller.handlers))
      BY <1>3
    <3>2. frameCount + 1 .. frameCount = {}
      BY <1>3
    <3>3. {frames[i] : i \in frameCount + 1 .. frameCount} = {}
      BY <3>2
    <3> QED BY <3>1, <3>3, <2>1, <1>3 DEF DropTo
  <2> QED BY <2>1, <1>1
<1>5. GeneratorDone(n - 1)
  BY <1>1, <1>3 DEF GeneratorDone
<1> QED BY <1>1, <1>2, <1>4, <1>5, CallReturns

\* A step that changes how many try blocks are open in the top frame.
LEMMA TopOpens ==
  ASSUME IInv, frameCount # 0, UNCHANGED <<frames, frameCount, kind>>, NEW o \in Nat,
         trys' = [trys EXCEPT ![Current] = o]
  PROVE  /\ trys' \in Seq(Nat) /\ Len(trys') = Len(trys) /\ frameCount \in 1 .. frameCount
         /\ open'[frameCount] = o /\ open[frameCount] = trys[Current]
         /\ runs' = runs
         /\ \A i \in 1 .. frameCount : i # frameCount => open'[i] = open[i]
         /\ \A a \in 1 .. Len(kind) : a # Current => trys'[a] = trys[a]
         /\ trys'[Current] = o /\ Current \in 1 .. Len(kind) /\ frames[frameCount] = Current
<1>1. frameCount \in Nat /\ frameCount \in 1 .. frameCount
  BY TypeFacts DEF IInv, TypeFact
<1>2. Current \in 1 .. Len(kind) /\ frames[frameCount] = Current
  BY <1>1 DEF IInv, Live, Current
<1>3. trys \in Seq(Nat) /\ Len(trys) = Len(kind) /\ DOMAIN trys = 1 .. Len(kind)
  BY TypeFacts DEF IInv, TypeOK, TypeFact
<1>4. /\ trys' \in Seq(Nat) /\ Len(trys') = Len(trys)
      /\ \A a \in 1 .. Len(kind) : a # Current => trys'[a] = trys[a]
      /\ trys'[Current] = o
  BY <1>2, <1>3
<1>5. ASSUME NEW i \in 1 .. frameCount, i # frameCount
      PROVE  open'[i] = open[i]
  <2>1. frames[i] \in 1 .. Len(kind) /\ frames[i] # Current
    BY <1>1, <1>2, <1>5 DEF IInv, Live
  <2> QED BY <2>1, <1>4 DEF open
<1>6. open'[frameCount] = o /\ open[frameCount] = trys[Current]
  BY <1>1, <1>2, <1>4 DEF open
<1>7. runs' = runs
  BY DEF runs
<1> QED BY <1>1, <1>2, <1>4, <1>5, <1>6, <1>7

\* A step that only opens or closes a try block of the frame of the execute()
\* at m, with what ended functions above it off the stack.
TryStep(m, o) ==
  /\ Floor(m) < frameCount
  /\ \A k \in DOMAIN cpp : k > m => Ends(cpp[k])
  /\ \A i \in Floor(m) + 1 .. frameCount : i \notin ending
  /\ UNCHANGED <<frames, frameCount, kind, gone, deferStack, defers, generator, currentGen>>
  /\ ret' = "none" /\ used' \in [trys : Nat, yields : Nat]
  /\ cpp' \in Seq(Record) /\ Len(cpp') = m /\ \A k \in 1 .. m : cpp'[k] = cpp[k]
  /\ o \in Nat /\ trys' = [trys EXCEPT ![Current] = o]
  /\ kind[Current] = "gen" => o = trys[Current]
  /\ handlers' \in Seq(Handler) /\ HandlersKept(m) /\ HandlersRise'
  /\ \A j \in DOMAIN handlers' : handlers'[j].frame > Floor(m) =>
       /\ handlers'[j].frame <= frameCount
       /\ handlers'[j].act = frames[handlers'[j].frame]
       /\ handlers'[j].depth < open'[handlers'[j].frame]
  /\ \A i \in Floor(m) + 1 .. frameCount : \A d \in Nat :
       d < open'[i] => \E j \in DOMAIN handlers' : handlers'[j].frame = i /\ handlers'[j].depth = d
  /\ frameCount = FramesMax /\ runs[FramesMax] # "defer" => handlers' = <<>>

\* Entering or leaving a try block keeps the invariant.
LEMMA TryChanges ==
  ASSUME IInv, NEW m \in DOMAIN cpp, cpp[m].fn = "execute", NEW o, TryStep(m, o)
  PROVE  IInv'
<1> SUFFICES ASSUME NEW F, F = Floor(m)
             PROVE  IInv'
  OBVIOUS
<1>a. /\ \A k \in DOMAIN cpp : k > m => Ends(cpp[k])
      /\ \A i \in F + 1 .. frameCount : i \notin ending
  BY DEF TryStep
<1>b. cpp' \in Seq(Record) /\ Len(cpp') = m /\ \A k \in 1 .. m : cpp'[k] = cpp[k]
  BY DEF TryStep
<1>c. ret' = "none" /\ used' \in [trys : Nat, yields : Nat]
  BY DEF TryStep
<1>d. o \in Nat /\ trys' = [trys EXCEPT ![Current] = o] /\ (kind[Current] = "gen" => o = trys[Current])
  BY DEF TryStep
<1>e. handlers' \in Seq(Handler) /\ HandlersKept(m) /\ HandlersRise'
  BY DEF TryStep
<1>f. \A j \in DOMAIN handlers' : handlers'[j].frame > F =>
        /\ handlers'[j].frame <= frameCount
        /\ handlers'[j].act = frames[handlers'[j].frame]
        /\ handlers'[j].depth < open'[handlers'[j].frame]
  BY DEF TryStep
<1>g. \A i \in F + 1 .. frameCount : \A d \in Nat :
        d < open'[i] => \E j \in DOMAIN handlers' : handlers'[j].frame = i /\ handlers'[j].depth = d
  BY DEF TryStep
<1>1. /\ m \in Nat \ {0} /\ Len(cpp) \in Nat /\ m <= Len(cpp) /\ DOMAIN cpp = 1 .. Len(cpp)
      /\ frameCount \in Nat /\ F \in Nat /\ F < frameCount /\ frameCount # 0
      /\ FramesMax \in Nat /\ frameCount <= FramesMax
      /\ Len(kind) \in Nat /\ Len(defers) \in Nat
  <2>1. /\ m \in Nat \ {0} /\ Len(cpp) \in Nat /\ m <= Len(cpp) /\ F \in Nat
    BY BelowExec
  <2>2. F < frameCount
    BY DEF TryStep
  <2>3. /\ frameCount \in Nat /\ FramesMax \in Nat /\ frameCount <= FramesMax
        /\ Len(kind) \in Nat /\ Len(defers) \in Nat /\ DOMAIN cpp = 1 .. Len(cpp)
    BY TypeFacts DEF IInv, TypeFact
  <2> QED BY <2>1, <2>2, <2>3
<1>2. /\ trys' \in Seq(Nat) /\ Len(trys') = Len(trys) /\ frameCount \in 1 .. frameCount
      /\ runs' = runs
      /\ \A i \in 1 .. frameCount : i # frameCount => open'[i] = open[i]
      /\ \A a \in 1 .. Len(kind) : a # Current => trys'[a] = trys[a]
      /\ trys'[Current] = o
  <2>1. UNCHANGED <<frames, frameCount, kind>>
    BY DEF TryStep
  <2> QED BY <2>1, <1>1, <1>d, TopOpens
<1>3. /\ frames' = frames /\ frameCount' = frameCount /\ kind' = kind /\ gone' = gone
      /\ deferStack' = deferStack /\ defers' = defers /\ generator' = generator
      /\ currentGen' = currentGen
  BY DEF TryStep
<1>4. TypeOK'
  <2>1. /\ frames' \in [1 .. FramesMax -> Nat] /\ frameCount' \in 0 .. FramesMax
        /\ deferStack' \in [1 .. FramesMax -> Seq(Nat)]
        /\ generator' \in [state : {"none", "created", "running", "suspended", "completed"}, act : Nat]
        /\ currentGen' \in GenRec
        /\ kind' \in Seq({"script", "func", "gen", "defer"})
        /\ defers' \in Seq([owner : Nat, started : Nat])
        /\ gone' \subseteq 1 .. Len(kind')
    BY <1>3 DEF IInv, TypeOK
  <2>2. trys' \in Seq(Nat) /\ Len(trys') = Len(kind')
    BY <1>2, <1>3 DEF IInv, TypeOK
  <2>3. handlers' \in Seq(Handler) /\ cpp' \in Seq(Record)
    BY <1>b, <1>e
  <2>4. ret' \in {"none", "ok", "error", "exit"} /\ used' \in [trys : Nat, yields : Nat]
    BY <1>c
  <2> QED BY <2>1, <2>2, <2>3, <2>4 DEF TypeOK
<1>5. Kept(m)
  <2>1. \A i \in 1 .. F : i \in 1 .. frameCount /\ i # frameCount
    BY <1>1
  <2>2. \A i \in 1 .. F : /\ frames'[i] = frames[i] /\ open'[i] = open[i]
                          /\ runs'[i] = runs[i] /\ deferStack'[i] = deferStack[i]
    BY <2>1, <1>2, <1>3
  <2>3. \A d \in Len(defers) + 1 .. Len(defers') : FALSE
    BY <1>1, <1>3
  <2>4. m - 1 <= Len(cpp') /\ (\A k \in 1 .. m - 1 : cpp'[k] = cpp[k]) /\ cpp'[m] = cpp[m]
    BY <1>1, <1>b
  <2>5. Len(kind) <= Len(kind') /\ \A a \in 1 .. Len(kind) : kind'[a] = kind[a]
    BY <1>1, <1>3
  <2>6. Floor(m) <= frameCount' /\ Len(defers) <= Len(defers') /\ \A d \in 1 .. Len(defers) : defers'[d] = defers[d]
    BY <1>1, <1>3
  <2>7. HandlersKept(m)
    BY <1>e
  <2> QED BY <2>2, <2>3, <2>4, <2>5, <2>6, <2>7, <1>3 DEF Kept, HandlersKept
<1>6. /\ Floor(m)' = Floor(m) /\ m <= Len(cpp') /\ cpp'[m] = cpp[m]
      /\ DOMAIN cpp' = 1 .. m
  <2>1. m <= Len(cpp') /\ DOMAIN cpp' = 1 .. m
    BY <1>1, <1>b
  <2> QED BY <2>1, <1>4, <1>5, ExecKept
<1>7. StackAbove(m)'
  <2>1. m > 1 => DeferFrameAt(m - 1)'
    BY <1>1, <1>2, <1>3, <1>5, FrameKept
  <2>2. Len(cpp') = m
    BY <1>b
  <2> QED BY <2>1, <2>2, <1>4, <1>5, ExecOnTop
<1>8. Reported' /\ TopFrames' /\ OverClosed'
  <2>1. Top' = cpp'[m] /\ cpp' # <<>>
    BY <1>1, <1>4, <1>b, NextTop
  <2>2. Reported'
    BY <2>1, <1>6, <1>c DEF Reported, Ends, Calls
  <2>3. TopFrames' /\ OverClosed'
    <3>1. Len(cpp') = m
      BY <1>b
    <3> QED BY <2>1, <3>1, <1>1, <1>3, <1>6 DEF TopFrames, OverClosed, Calls
  <2> QED BY <2>2, <2>3
<1>9. \A k \in DOMAIN cpp : k > m => ~Waits(cpp[k]) /\ cpp[k].fn # "resume" /\ cpp[k].fn # "defers"
  BY <1>a DEF Ends, Waits, Calls
<1>10. OneGenerator'
  <2>1. \A a \in 1 .. Len(kind) : kind[a] = "gen" => trys'[a] = trys[a]
    BY <1>2, <1>d
  <2>2. \A k \in DOMAIN cpp' : cpp'[k].fn = "resume" =>
          /\ k \in DOMAIN cpp /\ cpp[k].fn = "resume"
          /\ k < Len(cpp) \/ k = Len(cpp')
    BY <1>1, <1>6, <1>b
  <2> QED BY <2>1, <2>2, <1>1, <1>3, GeneratorKept
<1>11. currentGen'.set => resumed' # {}
  <2> SUFFICES ASSUME currentGen'.set
               PROVE  resumed' # {}
    OBVIOUS
  <2>1. resumed # {}
    BY <1>3 DEF IInv, Resumes
  <2>2. PICK k \in DOMAIN cpp : cpp[k].fn = "resume"
    BY <2>1 DEF resumed
  <2>3. k \in DOMAIN cpp' /\ cpp'[k].fn = "resume"
    BY <2>2, <1>1, <1>6, <1>9, <1>b
  <2>4. cpp'[k].caller.n + 1 \in resumed'
    BY <2>3 DEF resumed
  <2> QED BY <2>4
<1>12. \A i \in F + 1 .. frameCount : runs[i] = "gen" => i \in resumed'
  <2> SUFFICES ASSUME NEW i \in F + 1 .. frameCount, runs[i] = "gen"
               PROVE  i \in resumed'
    OBVIOUS
  <2>1. m > 1 /\ cpp[m - 1].fn = "resume" /\ i = cpp[m - 1].caller.n + 1
    <3>1. i \in F + 1 .. frameCount /\ runs[i] = "gen" /\ \A k \in DOMAIN cpp : k > m => cpp[k].fn # "resume"
      BY <1>9
    <3> QED BY <3>1, <1>9, GenFrame
  <2>2. m - 1 \in DOMAIN cpp' /\ cpp'[m - 1] = cpp[m - 1]
    BY <2>1, <1>1, <1>6, <1>b
  <2> QED BY <2>1, <2>2 DEF resumed
<1>13. \A i \in F + 1 .. frameCount : runs[i] = "defer" /\ open'[i] > 0 => i = frameCount
  <2> SUFFICES ASSUME NEW i \in F + 1 .. frameCount, runs[i] = "defer", open'[i] > 0, i # frameCount
               PROVE  FALSE
    OBVIOUS
  <2>1. i \in 1 .. frameCount /\ i < frameCount /\ i \in Nat /\ i > F
    BY <1>1
  <2>2. i \in marks
    BY <2>1, <1>2 DEF IInv, DeferOpens
  <2>3. PICK k \in DOMAIN cpp : Waits(cpp[k]) /\ Mark(cpp[k]) = i
    BY <2>2 DEF marks
  <2>4. k > m
    BY <2>1, <2>3, NamesAbove
  <2> QED BY <2>3, <2>4, <1>9
<1>14. FramesAbove(m)'
  <2>1. Live'
    BY <1>3 DEF IInv, Live
  <2>2. LastSlot'
    <3>1. frameCount = FramesMax /\ runs[FramesMax] # "defer" => handlers' = <<>>
      BY DEF TryStep
    <3> QED BY <3>1, <1>2, <1>3 DEF LastSlot
  <2>3. DefersLifo'
    BY <1>3 DEF IInv, DefersLifo
  <2>4. (\A i \in Floor(m) + 1 .. frameCount : \A d \in Nat :
           d < open[i] => <<i, d>> \in handled \cup caught)'
    <3> SUFFICES ASSUME NEW i \in F + 1 .. frameCount, NEW d \in Nat, d < open'[i]
                 PROVE  <<i, d>> \in handled'
      BY <1>3, <1>6
    <3> QED BY <1>g DEF handled
  <2>5. (\A i \in Floor(m) + 1 .. frameCount : runs[i] = "defer" /\ open[i] > 0 /\ i < frameCount =>
           i \in marks)'
    <3> SUFFICES ASSUME NEW i \in F + 1 .. frameCount, runs[i] = "defer", open'[i] > 0, i < frameCount
                 PROVE  FALSE
      BY <1>2, <1>3, <1>6
    <3> QED BY <1>1, <1>13
  <2>6. (\A j \in DOMAIN handlers : handlers[j].frame > Floor(m) =>
           /\ handlers[j].frame <= frameCount
           /\ handlers[j].act = frames[handlers[j].frame]
           /\ handlers[j].depth < open[handlers[j].frame])'
    BY <1>3, <1>6, <1>f
  <2>7. (\A i \in Floor(m) + 1 .. FramesMax : ListAt(i))'
    <3> SUFFICES ASSUME NEW i \in F + 1 .. FramesMax
                 PROVE  ListAt(i)'
      BY <1>6
    <3>1. ListAt(i) /\ i \in Nat
      BY <1>1 DEF IInv, ListsExact
    <3>2. CASE i > frameCount
      <4>1. deferStack'[i] = <<>> /\ ~(i <= frameCount')
        BY <1>1, <1>3, <3>1, <3>2 DEF ListAt
      <4> QED BY <4>1 DEF ListAt
    <3>3. CASE i <= frameCount
      <4>1. ~(i > frameCount')
        BY <1>1, <1>3, <3>1, <3>3
      <4> QED BY <4>1, <1>2, <1>3, <3>1, <3>3, ListSame
    <3> QED BY <1>1, <3>1, <3>2, <3>3
  <2>8. (\A d \in 1 .. Len(defers) : /\ defers[d].owner \in 1 .. Len(kind)
                                     /\ kind[defers[d].owner] \notin {"defer", "gen"}
                                     /\ defers[d].started \in {0, 1})'
    BY <1>3 DEF IInv, NoneLost
  <2>9. (\A d \in 1 .. Len(defers) : defers[d].started = 0 =>
           \/ \E i \in 1 .. Floor(m) : frames[i] = defers[d].owner
           \/ \E i \in Floor(m) + 1 .. frameCount : frames[i] = defers[d].owner /\ Pending(d, i))'
    <3> SUFFICES ASSUME NEW d \in 1 .. Len(defers), defers[d].started = 0
                 PROVE  \/ \E i \in 1 .. F : frames[i] = defers[d].owner
                        \/ \E i \in F + 1 .. frameCount : frames[i] = defers[d].owner /\ Pending(d, i)'
      BY <1>3, <1>6
    <3>1. PICK i \in 1 .. frameCount : frames[i] = defers[d].owner /\ Pending(d, i)
      BY DEF IInv, NoneLost
    <3>2. ASSUME i \in F + 1 .. frameCount
          PROVE  Pending(d, i)'
      <4>1. i \in Nat /\ i > F
        BY <1>1, <3>2
      <4>2. \A k \in DOMAIN cpp : ~(cpp[k].fn = "defers" /\ cpp[k].saved = i)
        BY <4>1, <1>9, NamesAbove
      <4>3. \E x \in DOMAIN deferStack[i] : deferStack[i][x] = d
        BY <3>1, <4>2 DEF Pending
      <4> QED BY <4>3, <1>3 DEF Pending
    <3>3. i \in 1 .. F \/ i \in F + 1 .. frameCount
      BY <1>1
    <3> QED BY <3>1, <3>2, <3>3
  <2>10. (\A d \in 1 .. Len(defers) : defers[d].started = 1 =>
            \A i \in Floor(m) + 1 .. frameCount : frames[i] = defers[d].owner => i \in ending)'
    <3>1. \A d \in 1 .. Len(defers) : defers[d].started = 1 =>
            \A i \in 1 .. frameCount : frames[i] = defers[d].owner => i \in ending
      BY DEF IInv, StartedEnds
    <3>2. \A i \in F + 1 .. frameCount : i \in 1 .. frameCount
      BY <1>1
    <3> SUFFICES ASSUME NEW d \in 1 .. Len(defers), defers[d].started = 1,
                        NEW i \in F + 1 .. frameCount, frames[i] = defers[d].owner
                 PROVE  FALSE
      BY <1>3, <1>6
    <3> QED BY <3>1, <3>2, <1>a
  <2>11. (\A i \in Floor(m) + 1 .. frameCount : runs[i] = "gen" => i \in resumed)'
    BY <1>2, <1>3, <1>6, <1>12
  <2>12. (ret = "exit" => ExitFree(Len(cpp) + 1, frameCount))'
    BY <1>c
  <2>13. HandlersRise'
    BY <1>e
  <2> QED BY <2>1, <2>2, <2>3, <2>4, <2>5, <2>6, <2>7, <2>8, <2>9, <2>10, <2>11, <2>12,
             <2>13, <1>10, <1>11 DEF FramesAbove
<1>15. Above(m)'
  BY <1>7, <1>8, <1>14 DEF Above
<1> QED BY <1>4, <1>5, <1>15, Assembled

LEMMA TryBeginKeeps ==
  ASSUME Plain, IInv, TryBegin
  PROVE  IInv'
<1> SUFFICES ASSUME NEW n, n = Len(cpp), NEW F, F = Floor(n), NEW N, N = Len(handlers),
                    NEW h, h = [frame |-> frameCount, act |-> Current, depth |-> trys[Current]]
             PROVE  IInv'
  OBVIOUS
<1>1. /\ Running /\ frameCount # FramesMax /\ kind[Current] # "gen"
      /\ handlers' = Append(handlers, h)
      /\ trys' = [trys EXCEPT ![Current] = trys[Current] + 1]
      /\ used' = [used EXCEPT !.trys = @ + 1] /\ cpp' = cpp /\ ret' = ret
      /\ UNCHANGED <<frames, frameCount, kind, gone, deferStack, defers, generator, currentGen>>
  BY DEF TryBegin, Plain, genVars
<1>2. /\ n \in Nat \ {0} /\ n \in DOMAIN cpp /\ cpp[n].fn = "execute" /\ Calm(n)
      /\ cpp \in Seq(Record) /\ handlers \in Seq(Handler)
      /\ DOMAIN cpp = 1 .. n /\ ret = "none"
      /\ F \in Nat /\ F < frameCount /\ frameCount \in Nat /\ frameCount # 0
      /\ N \in Nat /\ DOMAIN handlers = 1 .. N
      /\ \A j \in DOMAIN handlers : handlers[j].frame \in Nat /\ handlers[j].depth \in Nat
  BY <1>1, RunCalm, RunFacts, TypeFacts DEF IInv, TypeFact
<1>3. trys[Current] \in Nat /\ Current \in Nat
  <2>1. trys \in Seq(Nat) /\ Len(trys) = Len(kind) /\ Current \in 1 .. Len(kind) /\ Len(kind) \in Nat
    BY <1>1, RunFacts, TypeFacts DEF IInv, TypeOK, TypeFact
  <2> QED BY <2>1, ElementOfSeq
<1> SUFFICES ASSUME NEW o, o = trys[Current]
             PROVE  IInv'
  OBVIOUS
<1>4. /\ trys' \in Seq(Nat) /\ open'[frameCount] = o + 1 /\ open[frameCount] = o
      /\ \A i \in 1 .. frameCount : i # frameCount => open'[i] = open[i]
      /\ frames[frameCount] = Current
  <2>1. o + 1 \in Nat /\ trys' = [trys EXCEPT ![Current] = o + 1]
    BY <1>1, <1>3
  <2> QED BY <2>1, <1>1, <1>2, TopOpens
<1>5. h \in Handler /\ h.frame = frameCount /\ h.act = Current /\ h.depth = o
  BY <1>2, <1>3 DEF Handler
<1>6. /\ HandlersKept(n) /\ handlers' \in Seq(Handler)
      /\ \A j \in DOMAIN handlers : j \in DOMAIN handlers' /\ handlers'[j] = handlers[j]
      /\ handlers'[N + 1] = h /\ DOMAIN handlers' = 1 .. N + 1
      /\ \A j \in DOMAIN handlers' : j \in DOMAIN handlers \/ j = N + 1
  BY <1>1, <1>2, <1>5, PushedHandler
<1>7. \A j \in DOMAIN handlers : /\ handlers[j].frame \in 1 .. frameCount
                                 /\ handlers[j].act = frames[handlers[j].frame]
                                 /\ handlers[j].depth < open[handlers[j].frame]
  BY DEF IInv, HandlersLive
<1>8. HandlersRise'
  <2> SUFFICES ASSUME NEW i \in DOMAIN handlers', NEW j \in DOMAIN handlers', i < j
               PROVE  \/ handlers'[i].frame < handlers'[j].frame
                      \/ /\ handlers'[i].frame = handlers'[j].frame
                         /\ handlers'[i].depth < handlers'[j].depth
    BY DEF HandlersRise
  <2>1. CASE j \in DOMAIN handlers
    <3>1. i \in DOMAIN handlers
      BY <2>1, <1>2, <1>6
    <3> QED BY <2>1, <3>1, <1>6 DEF IInv, HandlersRise
  <2>2. CASE j = N + 1
    <3>1. i \in DOMAIN handlers
      BY <2>2, <1>2, <1>6
    <3>2. handlers'[i] = handlers[i] /\ handlers'[j] = h
      BY <2>2, <3>1, <1>6
    <3>3. handlers[i].frame = frameCount => handlers[i].depth < o
      BY <3>1, <1>4, <1>7
    <3>4. handlers[i].frame <= frameCount /\ handlers[i].frame \in Nat
      BY <3>1, <1>2, <1>7
    <3> QED BY <3>2, <3>3, <3>4, <1>2, <1>5
  <2> QED BY <2>1, <2>2, <1>6
<1>9. \A j \in DOMAIN handlers' :
        /\ handlers'[j].frame <= frameCount
        /\ handlers'[j].act = frames[handlers'[j].frame]
        /\ handlers'[j].depth < open'[handlers'[j].frame]
  <2> SUFFICES ASSUME NEW j \in DOMAIN handlers'
               PROVE  /\ handlers'[j].frame <= frameCount
                      /\ handlers'[j].act = frames[handlers'[j].frame]
                      /\ handlers'[j].depth < open'[handlers'[j].frame]
    OBVIOUS
  <2>1. CASE j \in DOMAIN handlers
    <3>1. handlers'[j] = handlers[j]
      BY <2>1, <1>6
    <3>2. handlers[j].frame = frameCount => handlers[j].depth < o + 1
      BY <2>1, <1>2, <1>3, <1>4, <1>7
    <3>3. handlers[j].frame # frameCount => handlers[j].depth < open'[handlers[j].frame]
      BY <2>1, <1>4, <1>7
    <3> QED BY <2>1, <3>1, <3>2, <3>3, <1>2, <1>4, <1>7
  <2>2. CASE j = N + 1
    BY <2>2, <1>2, <1>3, <1>4, <1>5, <1>6
  <2> QED BY <2>1, <2>2, <1>6
<1>10. \A i \in F + 1 .. frameCount : \A d \in Nat :
         d < open'[i] => \E j \in DOMAIN handlers' : handlers'[j].frame = i /\ handlers'[j].depth = d
  <2> SUFFICES ASSUME NEW i \in F + 1 .. frameCount, NEW d \in Nat, d < open'[i]
               PROVE  \E j \in DOMAIN handlers' : handlers'[j].frame = i /\ handlers'[j].depth = d
    OBVIOUS
  <2>1. CASE i = frameCount /\ d = o
    <3>1. N + 1 \in DOMAIN handlers'
      BY <1>2, <1>6
    <3> QED BY <3>1, <2>1, <1>5, <1>6
  <2>2. CASE ~(i = frameCount /\ d = o)
    <3>1. d < open[i]
      BY <2>2, <1>2, <1>3, <1>4
    <3>2. <<i, d>> \in handled
      BY <3>1, <1>2, CalmFacts DEF Calm
    <3>3. PICK j \in DOMAIN handlers : handlers[j].frame = i /\ handlers[j].depth = d
      BY <3>2 DEF handled
    <3> QED BY <3>3, <1>6
  <2> QED BY <2>1, <2>2
<1>11. \A i \in F + 1 .. frameCount : i \notin ending
  BY <1>2, CalmFacts DEF Calm
<1>12. /\ \A k \in DOMAIN cpp : k > n => Ends(cpp[k])
       /\ used' \in [trys : Nat, yields : Nat] /\ ret' = "none"
  <2>1. \A k \in DOMAIN cpp : ~(k > n)
    BY <1>2
  <2>2. used \in [trys : Nat, yields : Nat]
    BY DEF IInv, TypeOK
  <2> QED BY <2>1, <2>2, <1>1, <1>2
<1>13. o + 1 \in Nat
  BY <1>3
<1> QED BY <1>1, <1>2, <1>6, <1>8, <1>9, <1>10, <1>11, <1>12, <1>13, TryChanges DEF TryStep

LEMMA TryEndKeeps ==
  ASSUME IInv, TryEnd
  PROVE  IInv'
<1> SUFFICES ASSUME NEW n, n = Len(cpp), NEW F, F = Floor(n), NEW N, N = Len(handlers)
             PROVE  IInv'
  OBVIOUS
<1>1. /\ Running /\ trys[Current] > 0
      /\ handlers' = IF handlers = <<>> THEN handlers ELSE Front(handlers)
      /\ trys' = [trys EXCEPT ![Current] = trys[Current] - 1]
      /\ used' = used /\ cpp' = cpp /\ ret' = ret
      /\ UNCHANGED <<frames, frameCount, kind, gone, deferStack, defers, generator, currentGen>>
  BY DEF TryEnd, genVars
<1>2. /\ n \in Nat \ {0} /\ n \in DOMAIN cpp /\ cpp[n].fn = "execute" /\ Calm(n)
      /\ cpp \in Seq(Record) /\ handlers \in Seq(Handler)
      /\ DOMAIN cpp = 1 .. n /\ ret = "none"
      /\ F \in Nat /\ F < frameCount /\ frameCount \in Nat /\ frameCount # 0
      /\ N \in Nat /\ DOMAIN handlers = 1 .. N
      /\ \A j \in DOMAIN handlers : handlers[j].frame \in Nat /\ handlers[j].depth \in Nat
  BY <1>1, RunCalm, RunFacts, TypeFacts DEF IInv, TypeFact
<1>3. trys[Current] \in Nat /\ trys[Current] - 1 \in Nat
  <2>1. trys \in Seq(Nat) /\ Len(trys) = Len(kind) /\ Current \in 1 .. Len(kind) /\ Len(kind) \in Nat
    BY <1>1, RunFacts, TypeFacts DEF IInv, TypeOK, TypeFact
  <2>2. trys[Current] \in Nat
    BY <2>1, ElementOfSeq
  <2> QED BY <2>2, <1>1
<1> SUFFICES ASSUME NEW o \in Nat, trys[Current] = o + 1, trys[Current] - 1 = o
             PROVE  IInv'
  BY <1>3
<1>4. /\ trys' \in Seq(Nat) /\ open'[frameCount] = o /\ open[frameCount] = o + 1
      /\ \A i \in 1 .. frameCount : i # frameCount => open'[i] = open[i]
      /\ frames[frameCount] = Current
  BY <1>1, <1>2, <1>3, TopOpens
<1>5. \A i \in F + 1 .. frameCount : \A d \in Nat : d < open[i] =>
        \E j \in DOMAIN handlers : handlers[j].frame = i /\ handlers[j].depth = d
  <2>1. \A i \in F + 1 .. frameCount : \A d \in Nat : d < open[i] => <<i, d>> \in handled
    BY <1>2, CalmFacts DEF Calm
  <2> QED BY <2>1 DEF handled
<1>6. \A j \in DOMAIN handlers : /\ handlers[j].frame \in 1 .. frameCount
                                 /\ handlers[j].act = frames[handlers[j].frame]
                                 /\ handlers[j].depth < open[handlers[j].frame]
  BY DEF IInv, HandlersLive
<1>7. \A i, j \in DOMAIN handlers : i < j =>
        \/ handlers[i].frame < handlers[j].frame
        \/ handlers[i].frame = handlers[j].frame /\ handlers[i].depth < handlers[j].depth
  BY DEF IInv, HandlersRise
<1>8. /\ N \in DOMAIN handlers /\ handlers[N].frame = frameCount /\ handlers[N].depth = o
  <2>1. frameCount \in F + 1 .. frameCount /\ o < open[frameCount]
    BY <1>2, <1>4
  <2>2. PICK j \in DOMAIN handlers : handlers[j].frame = frameCount /\ handlers[j].depth = o
    BY <2>1, <1>5
  <2>3. N \in DOMAIN handlers /\ j <= N /\ j \in Nat
    BY <2>2, <1>2
  <2>4. handlers[N].frame <= frameCount
    BY <2>3, <1>6, <1>2
  <2>5. j < N => FALSE
    <3> HAVE j < N
    <3>1. \/ handlers[j].frame < handlers[N].frame
          \/ handlers[j].frame = handlers[N].frame /\ handlers[j].depth < handlers[N].depth
      BY <2>3, <1>7
    <3>2. handlers[N].frame = frameCount /\ o < handlers[N].depth
      BY <3>1, <2>2, <2>3, <2>4, <1>2
    <3>3. handlers[N].depth < o + 1
      BY <3>2, <2>3, <1>4, <1>6
    <3> QED BY <3>2, <3>3, <2>3, <1>2
  <2> QED BY <2>2, <2>3, <2>5, <1>2
<1>9. N > cpp[n].floor /\ handlers # <<>>
  <2>1. /\ cpp[n].floor \in Nat
        /\ \A j \in DOMAIN handlers : j <= cpp[n].floor <=> handlers[j].frame <= F
    BY <1>2, FloorFacts
  <2>2. ~(N <= cpp[n].floor)
    BY <2>1, <1>2, <1>8
  <2>3. handlers # <<>>
    BY <1>8
  <2> QED BY <2>1, <2>2, <2>3, <1>2
<1>10. /\ HandlersKept(n) /\ handlers' \in Seq(Handler)
       /\ DOMAIN handlers' = 1 .. N - 1
       /\ \A j \in DOMAIN handlers' : j \in DOMAIN handlers /\ handlers'[j] = handlers[j]
  BY <1>1, <1>2, <1>9, PoppedHandler DEF Popped
<1>11. HandlersRise'
  BY <1>7, <1>10 DEF HandlersRise
<1>12. \A j \in DOMAIN handlers' :
         /\ handlers'[j].frame <= frameCount
         /\ handlers'[j].act = frames[handlers'[j].frame]
         /\ handlers'[j].depth < open'[handlers'[j].frame]
  <2> SUFFICES ASSUME NEW j \in DOMAIN handlers'
               PROVE  /\ handlers[j].frame <= frameCount
                      /\ handlers[j].act = frames[handlers[j].frame]
                      /\ handlers[j].depth < open'[handlers[j].frame]
    BY <1>10
  <2>1. j \in DOMAIN handlers /\ j < N
    BY <1>2, <1>10
  <2>2. handlers[j].frame = frameCount => handlers[j].depth < o
    BY <2>1, <1>2, <1>7, <1>8
  <2>3. handlers[j].frame # frameCount => handlers[j].depth < open'[handlers[j].frame]
    BY <2>1, <1>4, <1>6
  <2> QED BY <2>1, <2>2, <2>3, <1>2, <1>4, <1>6
<1>13. \A i \in F + 1 .. frameCount : \A d \in Nat :
         d < open'[i] => \E j \in DOMAIN handlers' : handlers'[j].frame = i /\ handlers'[j].depth = d
  <2> SUFFICES ASSUME NEW i \in F + 1 .. frameCount, NEW d \in Nat, d < open'[i]
               PROVE  \E j \in DOMAIN handlers' : handlers'[j].frame = i /\ handlers'[j].depth = d
    OBVIOUS
  <2>1. d < open[i] /\ (i = frameCount => d < o)
    BY <1>2, <1>4
  <2>2. PICK j \in DOMAIN handlers : handlers[j].frame = i /\ handlers[j].depth = d
    BY <2>1, <1>5
  <2>3. j # N
    BY <2>1, <2>2, <1>8
  <2>4. j \in DOMAIN handlers'
    BY <2>2, <2>3, <1>2, <1>10
  <2> QED BY <2>2, <2>4, <1>10
<1>14. \A i \in F + 1 .. frameCount : i \notin ending
  BY <1>2, CalmFacts DEF Calm
<1>15. /\ \A k \in DOMAIN cpp : k > n => Ends(cpp[k])
       /\ used' \in [trys : Nat, yields : Nat] /\ ret' = "none"
  BY <1>1, <1>2 DEF IInv, TypeOK
<1>16. frameCount = FramesMax /\ runs[FramesMax] # "defer" => handlers' = <<>>
  BY <1>9 DEF IInv, LastSlot
<1>17. kind[Current] = "gen" => o = trys[Current]
  <2>1. Current \in 1 .. Len(kind)
    BY <1>1, RunFacts
  <2>2. kind[Current] = "gen" => trys[Current] = 0
    BY <2>1 DEF IInv, OneGenerator
  <2> QED BY <2>2, <1>1
<1> QED BY <1>1, <1>2, <1>10, <1>11, <1>12, <1>13, <1>14, <1>15, <1>16, <1>17, TryChanges DEF TryStep

\* Calling a generator function makes an activation that no frame runs yet.
LEMMA NewGeneratorKeeps ==
  ASSUME IInv, NewGenerator
  PROVE  IInv'
<1> SUFFICES ASSUME NEW n, n = Len(cpp), NEW F, F = Floor(n), NEW K, K = Len(kind)
             PROVE  IInv'
  OBVIOUS
<1>1. /\ Running /\ generator.state = "none"
      /\ generator' = [state |-> "created", act |-> K + 1]
      /\ kind' = Append(kind, "gen") /\ trys' = Append(trys, 0)
      /\ frames' = frames /\ frameCount' = frameCount /\ gone' = gone /\ handlers' = handlers
      /\ deferStack' = deferStack /\ cpp' = cpp /\ ret' = ret /\ currentGen' = currentGen
      /\ defers' = defers /\ used' = used
  BY DEF NewGenerator
<1>2. /\ n \in Nat \ {0} /\ n \in DOMAIN cpp /\ cpp[n].fn = "execute" /\ Top = cpp[n]
      /\ ret = "none" /\ cpp # <<>> /\ frameCount \in Nat /\ F \in Nat /\ F < frameCount
      /\ K \in Nat /\ Len(trys) = K /\ FramesMax \in Nat /\ frameCount <= FramesMax
      /\ Len(defers) \in Nat
  BY <1>1, RunFacts, TypeFacts DEF IInv, TypeFact
<1>3. /\ kind' \in Seq({"script", "func", "gen", "defer"}) /\ Len(kind') = K + 1
      /\ \A a \in 1 .. K : kind'[a] = kind[a]
      /\ kind'[K + 1] = "gen"
  <2>1. kind \in Seq({"script", "func", "gen", "defer"})
    BY DEF IInv, TypeOK
  <2> QED BY <2>1, <1>1, Appended
<1>4. /\ trys' \in Seq(Nat) /\ Len(trys') = K + 1
      /\ \A a \in 1 .. K : trys'[a] = trys[a]
      /\ trys'[K + 1] = 0
  <2>1. trys \in Seq(Nat)
    BY DEF IInv, TypeOK
  <2> QED BY <2>1, <1>1, <1>2, Appended
<1>5. /\ \A i \in 1 .. frameCount : frames[i] \in 1 .. K /\ frames[i] \notin gone
      /\ gone \subseteq 1 .. K
  BY DEF IInv, Live, TypeOK
<1>6. runs' = runs /\ open' = open
  BY <1>1, <1>3, <1>4, <1>5 DEF runs, open
<1>7. TypeOK'
  <2>1. generator' \in [state : {"none", "created", "running", "suspended", "completed"}, act : Nat]
    BY <1>1, <1>2
  <2>2. gone' \subseteq 1 .. Len(kind')
    BY <1>1, <1>2, <1>3, <1>5
  <2> QED BY <2>1, <2>2, <1>1, <1>3, <1>4 DEF IInv, TypeOK
<1>8. Floor(n)' = Floor(n) /\ resumed' = resumed /\ handled' = handled /\ caught' = caught
      /\ marks' = marks /\ ending' = ending
  <2>1. \A k \in DOMAIN cpp : Lim(k)' = Lim(k)
    BY <1>1 DEF Lim
  <2> QED BY <2>1, <1>1 DEF Floor, resumed, handled, caught, marks, ending
<1>9. Kept(n)
  <2>1. HandlersKept(n)
    BY <1>1, <1>2, SameHandlers
  <2>2. \A d \in Len(defers) + 1 .. Len(defers') : FALSE
    BY <1>1, <1>2
  <2>3. Len(kind) <= Len(kind') /\ n - 1 <= Len(cpp') /\ Len(defers) <= Len(defers')
        /\ Floor(n) <= frameCount'
    BY <1>1, <1>2, <1>3
  <2> QED BY <2>1, <2>2, <2>3, <1>1, <1>3, <1>6 DEF Kept, HandlersKept
<1>10. StackAbove(n)'
  <2>1. n > 1 => DeferFrameAt(n - 1)'
    BY <1>1, <1>2, <1>6, <1>9, FrameKept
  <2>2. Len(cpp') = n
    BY <1>1
  <2> QED BY <2>1, <2>2, <1>2, <1>7, <1>9, ExecOnTop
<1>11. OneGenerator'
  <2>1. \A a \in 1 .. K : kind[a] # "gen"
    BY <1>1 DEF IInv, OneGenerator
  <2>2. \A k \in DOMAIN cpp : cpp[k].fn # "resume"
    BY <1>1 DEF IInv, OneGenerator
  <2>3. generator'.act = K + 1 /\ generator'.state = "created" /\ K + 1 \in 1 .. K + 1
    BY <1>1, <1>2
  <2>4. \A a \in 1 .. Len(kind') : a \in 1 .. K \/ a = K + 1
    BY <1>2, <1>3
  <2>5. K + 1 \notin gone' /\ \A i \in 1 .. frameCount' : frames'[i] # K + 1
    BY <1>1, <1>2, <1>5
  <2>6. \A a \in 1 .. Len(kind') : kind'[a] = "gen" => a = K + 1 /\ trys'[a] = 0
    BY <2>1, <2>4, <1>3, <1>4
  <2> QED BY <2>2, <2>3, <2>5, <2>6, <1>1, <1>3 DEF OneGenerator
<1>12. FramesAbove(n)'
  <2>1. /\ \A i \in 1 .. frameCount' : frames'[i] = frames[i] /\ open'[i] = open[i] /\ runs'[i] = runs[i]
        /\ Floor(n) <= frameCount' /\ frameCount' <= frameCount
        /\ \A i \in Floor(n) + 1 .. frameCount' : i \in 1 .. frameCount
        /\ Len(kind) <= Len(kind')
    BY <1>1, <1>2, <1>3, <1>6
  <2>2. \A j \in DOMAIN handlers' :
          j \in DOMAIN handlers /\ handlers'[j] = handlers[j] /\ handlers[j].frame <= frameCount'
    BY <1>1, <1>2 DEF IInv, HandlersLive
  <2>3. \A i \in 1 .. FramesMax : i > frameCount' => deferStack'[i] = <<>>
    BY <1>1 DEF IInv, ListsExact, ListAt
  <2>4. (currentGen'.set => resumed' # {}) /\ \A i \in 1 .. frameCount : runs[i] = "gen" => i \in resumed'
    BY <1>1, <1>8 DEF IInv, Resumes
  <2>5. \A i \in 1 .. frameCount : runs[i] = "defer" /\ open[i] > 0 /\ i < frameCount' => i \in marks'
    BY <1>1, <1>8 DEF IInv, DeferOpens
  <2>6. ret' # "exit"
    BY <1>1, <1>2
  <2>7. \A i \in Floor(n) + 1 .. frameCount : \A d \in 1 .. Len(defers) :
          defers[d].started = 0 /\ Pending(d, i) => i <= frameCount' /\ Pending(d, i)'
    BY <1>1, <1>2 DEF Pending
  <2> QED BY <2>1, <2>2, <2>3, <2>4, <2>5, <2>6, <2>7, <1>1, <1>2, <1>3, <1>7, <1>8, <1>11, FramesLeft
<1>13. Reported' /\ TopFrames' /\ OverClosed'
  <2>1. Top' = Top
    BY <1>1 DEF Top
  <2>2. Reported'
    BY <2>1, <1>1 DEF IInv, Reported
  <2>3. TopFrames'
    BY <2>1, <1>1, <1>8, <1>2 DEF TopFrames, Calls
  <2>4. OverClosed'
    BY <2>1, <1>1, <1>2 DEF OverClosed
  <2> QED BY <2>2, <2>3, <2>4
<1>14. Above(n)'
  BY <1>10, <1>12, <1>13 DEF Above
<1> QED BY <1>2, <1>7, <1>9, <1>14, Assembled

\* A yield gives up the generator's frame, the first of its execute(), with
\* nothing open or pending in it.
LEMMA YieldKeeps ==
  ASSUME IInv, Yield
  PROVE  IInv'
<1>z. SUFFICES ASSUME NEW n, n = Len(cpp), NEW F, F = Floor(n)
               PROVE  IInv'
  OBVIOUS
<1>1. /\ Running /\ kind[Current] = "gen"
      /\ generator' = [generator EXCEPT !.state = "suspended"]
      /\ frameCount' = currentGen.base /\ cpp' = Below /\ ret' = "ok"
      /\ used' = [used EXCEPT !.yields = @ + 1]
      /\ frames' = frames /\ kind' = kind /\ trys' = trys /\ gone' = gone /\ handlers' = handlers
      /\ deferStack' = deferStack /\ currentGen' = currentGen /\ defers' = defers
  BY DEF Yield
<1>2. /\ n \in Nat \ {0} /\ n \in DOMAIN cpp /\ cpp[n].fn = "execute" /\ Top = cpp[n]
      /\ cpp # <<>> /\ frameCount \in Nat /\ F \in Nat /\ F < frameCount
      /\ FramesMax \in Nat /\ frameCount <= FramesMax /\ frameCount \in 1 .. frameCount
      /\ Len(defers) \in Nat /\ Len(kind) \in Nat /\ DOMAIN handlers = 1 .. Len(handlers)
      /\ DOMAIN cpp = 1 .. n /\ Len(handlers) \in Nat
      /\ runs[frameCount] = "gen" /\ Current = frames[frameCount] /\ Current \in 1 .. Len(kind)
      /\ Current \notin gone /\ open[frameCount] = trys[Current] /\ Calm(n)
  BY <1>1, <1>z, RunFacts, RunCalm, TypeFacts DEF IInv, TypeFact
<1>3. n > 1 /\ cpp[n - 1].fn = "resume" /\ frameCount = cpp[n - 1].caller.n + 1
  <2>1. \A k \in DOMAIN cpp : k > n /\ cpp[k].fn = "resume" => cpp[k].caller.n = frameCount
    BY <1>2
  <2>2. frameCount \in F + 1 .. frameCount
    BY <1>2
  <2> QED BY <1>z, <2>1, <2>2, <1>2, GenFrame
<1>4. /\ n - 1 \in DOMAIN cpp /\ cpp[n - 1] \in Record /\ cpp[n - 1].caller.n \in Nat
      /\ F = cpp[n - 1].caller.n /\ currentGen.set /\ currentGen.base = F /\ frameCount = F + 1
      /\ Calls(cpp[n - 1])
  <2>1. n - 1 \in DOMAIN cpp
    BY <1>2, <1>3
  <2>2. cpp[n - 1] \in Record /\ ResumeAt(n - 1) /\ Calls(cpp[n - 1])
    BY <2>1, <1>3, TypeFacts DEF IInv, TypeFact, Resumes, Calls
  <2>3. F = cpp[n - 1].caller.n
    <3>1. n # 1 /\ cpp[n - 1].fn # "defers"
      BY <1>2, <1>3
    <3>2. F = Floor(n)
      BY <1>z
    <3>3. Floor(n) = Mark(cpp[n - 1])
      BY <3>1, Zenon DEF Floor
    <3>4. Mark(cpp[n - 1]) = cpp[n - 1].caller.n
      BY <3>1, Zenon DEF Mark
    <3> QED BY <3>2, <3>3, <3>4
  <2> QED BY <2>1, <2>2, <2>3, <1>3, RecordFacts DEF ResumeAt
<1>5. Current = generator.act /\ open[frameCount] = 0
  BY <1>1, <1>2 DEF IInv, OneGenerator
<1>6. \A j \in DOMAIN handlers : handlers[j].frame \in 1 .. F
  <2>1. \A j \in DOMAIN handlers : /\ handlers[j].frame \in 1 .. frameCount
                                   /\ handlers[j].depth < open[handlers[j].frame]
                                   /\ handlers[j].depth \in Nat
    BY TypeFacts DEF IInv, HandlersLive, TypeFact
  <2>2. \A j \in DOMAIN handlers : handlers[j].frame # frameCount
    BY <2>1, <1>5
  <2>3. F \in Nat /\ frameCount = F + 1
    BY <1>2, <1>4
  <2> QED BY <2>1, <2>2, <2>3, NextUp
<1>7. Len(handlers) = cpp[n].floor
  <2>1. /\ cpp[n].floor \in Nat /\ cpp[n].floor <= Len(handlers)
        /\ \A j \in DOMAIN handlers : j <= cpp[n].floor <=> handlers[j].frame <= F
    BY <1>2, <1>z, FloorFacts
  <2>2. Len(handlers) > cpp[n].floor => Len(handlers) \in DOMAIN handlers
    BY <2>1, <1>2
  <2>3. \A j \in DOMAIN handlers : handlers[j].frame <= F
    BY <1>6, <1>2
  <2> QED BY <2>1, <2>2, <2>3, <1>2
<1>8. cpp' \in Seq(Record) /\ Len(cpp') = n - 1 /\ \A k \in 1 .. n - 1 : cpp'[k] = cpp[k]
  <2>1. cpp \in Seq(Record)
    BY DEF IInv, TypeOK
  <2> QED BY <1>z, <2>1, <1>1, <1>2, FrontLast DEF Below
<1>9. frameCount' = F /\ frameCount' \in Nat
  BY <1>1, <1>2, <1>4
<1>10. TypeOK'
  <2>1. generator' \in [state : {"none", "created", "running", "suspended", "completed"}, act : Nat]
    BY <1>1 DEF IInv, TypeOK
  <2>2. used' \in [trys : Nat, yields : Nat]
    <3>1. used \in [trys : Nat, yields : Nat] /\ used.yields \in Nat
      BY DEF IInv, TypeOK
    <3>2. used.yields + 1 \in Nat
      BY <3>1
    <3>3. used' = [used EXCEPT !.yields = used.yields + 1]
      BY <1>1
    <3> QED BY <3>1, <3>2, <3>3
  <2>3. frameCount' \in 0 .. FramesMax
    BY <1>2, <1>9
  <2> QED BY <2>1, <2>2, <2>3, <1>1, <1>8 DEF IInv, TypeOK
<1>11. /\ DOMAIN cpp' = 1 .. n - 1
       /\ \A k \in DOMAIN cpp' : k \in 1 .. n - 1 /\ k \in DOMAIN cpp /\ cpp'[k] = cpp[k]
       /\ n - 1 \in DOMAIN cpp'
  <2>1. DOMAIN cpp' = 1 .. n - 1
    BY <1>8
  <2>2. \A k \in 1 .. n - 1 : k \in 1 .. n
    BY <1>2
  <2>3. n - 1 \in 1 .. n - 1
    BY <1>2, <1>3
  <2> QED BY <2>1, <2>2, <2>3, <1>2, <1>8
<1>12. \A i \in 1 .. F : /\ i \in 1 .. frameCount
                         /\ frames'[i] = frames[i] /\ open'[i] = open[i] /\ runs'[i] = runs[i]
  <2>1. \A i \in 1 .. F : i \in 1 .. frameCount /\ i \in 1 .. frameCount'
    BY <1>2, <1>9
  <2> QED BY <2>1, <1>1 DEF open, runs
<1>13. Kept(n)
  <2>1. HandlersKept(n)
    BY <1>1, <1>2, SameHandlers
  <2>2. \A d \in Len(defers) + 1 .. Len(defers') : FALSE
    BY <1>1, <1>2
  <2>3. Len(kind) <= Len(kind') /\ n - 1 <= Len(cpp') /\ Len(defers) <= Len(defers')
        /\ Floor(n) <= frameCount' /\ ~(n <= Len(cpp'))
    BY <1>z, <1>1, <1>2, <1>8, <1>9
  <2> QED BY <1>z, <2>1, <2>2, <2>3, <1>1, <1>8, <1>12 DEF Kept, HandlersKept
<1>14. CallerAt(n - 1)' /\ DeferFrameAt(n - 1)'
  <2>1. CallerAt(n - 1)
    BY <1>4 DEF IInv, CallersKept
  <2>2. n - 1 < Len(cpp) /\ n - 1 + 1 = n /\ n - 1 = Len(cpp')
    BY <1>2, <1>8
  <2>3. cpp'[n - 1] = cpp[n - 1]
    BY <1>11
  <2>4. Len(handlers') = Len(cpp'[n - 1].caller.handlers)
    BY <2>1, <2>2, <2>3, <1>1, <1>4, <1>7 DEF CallerAt
  <2>5. DeferFrameAt(n - 1)'
    BY <2>3, <1>3 DEF DeferFrameAt
  <2>6. ~(n - 1 < Len(cpp'))
    BY <1>2, <1>8
  <2> QED BY <2>1, <2>3, <2>4, <2>5, <2>6, <1>1, <1>4 DEF CallerAt
<1>15. StackAbove(n)'
  BY <1>2, <1>8, <1>10, <1>13, <1>14, PopOnTop
<1>16. OneGenerator'
  <2>1. generator'.act = generator.act /\ generator'.state = "suspended"
    BY <1>1 DEF IInv, TypeOK
  <2>2. \A a \in 1 .. Len(kind) : kind[a] = "gen" => a = generator.act /\ trys[a] = 0
    BY DEF IInv, OneGenerator
  <2>3. \A i \in 1 .. F : frames[i] # Current
    <3>1. \A i \in 1 .. F : i \in 1 .. frameCount /\ i # frameCount
      BY <1>2
    <3> QED BY <3>1, <1>2 DEF IInv, Live
  <2>4. ASSUME NEW k \in DOMAIN cpp', cpp'[k].fn = "resume"
        PROVE  k = Len(cpp')
    <3>1. k \in DOMAIN cpp /\ cpp[k].fn = "resume" /\ k \in 1 .. n - 1
      BY <2>4, <1>11
    <3>2. cpp[k].caller.n = F
      BY <3>1, <1>4 DEF IInv, Resumes, ResumeAt
    <3>3. Waits(cpp[k]) /\ Mark(cpp[k]) = F
      BY <3>1, <3>2 DEF Waits, Calls, Mark
    <3>4. k < n - 1 => Mark(cpp[k]) < F
      BY <1>z, <3>1, <3>3, <1>2, BelowExec
    <3>5. ~(k < n - 1)
      BY <3>3, <3>4, <1>2
    <3> QED BY <3>1, <3>5, <1>2, <1>8
  <2> QED BY <2>1, <2>2, <2>3, <2>4, <1>1, <1>2, <1>5, <1>9 DEF OneGenerator
<1>17. Floor(n)' = Floor(n)
  <2>1. n - 1 \in 1 .. n - 1
    BY <1>2, <1>3
  <2> QED BY <2>1, <1>3, <1>8 DEF Floor, Mark
<1>18. FramesAbove(n)'
  <2>1. /\ \A i \in 1 .. frameCount' : frames'[i] = frames[i] /\ open'[i] = open[i] /\ runs'[i] = runs[i]
        /\ Floor(n) <= frameCount' /\ frameCount' <= frameCount
        /\ Len(kind) <= Len(kind')
    BY <1>z, <1>1, <1>2, <1>9, <1>12
  <2>2. \A j \in DOMAIN handlers' :
          j \in DOMAIN handlers /\ handlers'[j] = handlers[j] /\ handlers[j].frame <= frameCount'
    BY <1>1, <1>6, <1>9
  <2>3. deferStack[frameCount] = <<>>
    BY <1>2 DEF IInv, ListsExact, ListAt
  <2>4. \A i \in 1 .. FramesMax : i > frameCount' => deferStack'[i] = <<>>
    <3>1. \A i \in 1 .. FramesMax : i > frameCount' => i > frameCount \/ i = frameCount
      <4>1. F \in Nat /\ frameCount' = F /\ frameCount = F + 1
        BY <1>2, <1>4, <1>9
      <4>2. \A i \in 1 .. FramesMax : i \in Nat
        BY <1>2
      <4> QED BY <4>1, <4>2, NextUp
    <3>2. \A i \in 1 .. FramesMax : i > frameCount => deferStack[i] = <<>>
      BY DEF IInv, ListsExact, ListAt
    <3> QED BY <3>1, <3>2, <2>3, <1>1
  <2>5. resumed' # {}
    BY <1>3, <1>11 DEF resumed
  <2>6. \A i \in Floor(n) + 1 .. frameCount' : FALSE
    BY <1>z, <1>2, <1>9
  <2>7. ret' # "exit"
    BY <1>1
  <2>8. \A i \in Floor(n) + 1 .. frameCount : \A d \in 1 .. Len(defers) : ~Pending(d, i)
    <3>1. \A i \in Floor(n) + 1 .. frameCount : i = frameCount
      BY <1>z, <1>2, <1>4
    <3>2. \A i \in Floor(n) + 1 .. frameCount : \A d \in 1 .. Len(defers) :
            Pending(d, i) => \E x \in DOMAIN deferStack[i] : deferStack[i][x] = d
      BY <1>2, CalmFacts DEF Calm
    <3>3. DOMAIN deferStack[frameCount] = {}
      BY <2>3
    <3> QED BY <3>1, <3>2, <3>3
  <2> QED BY <2>1, <2>2, <2>4, <2>5, <2>6, <2>7, <2>8, <1>1, <1>2, <1>10, <1>16, <1>17, FramesLeft
<1>19. Reported' /\ TopFrames' /\ OverClosed'
  <2>1. Top' = cpp[n - 1] /\ cpp' # <<>>
    <3>1. Len(cpp') # 0 /\ cpp'[Len(cpp')] = cpp[n - 1]
      BY <1>2, <1>3, <1>8, <1>11
    <3> QED BY <3>1, <1>10, NextTop
  <2>2. Reported'
    BY <2>1, <1>1, <1>3 DEF Reported, Ends, Calls
  <2>3. TopFrames'
    BY <2>1, <1>3, <1>4, <1>9 DEF TopFrames
  <2>4. OverClosed'
    BY <2>1, <1>3 DEF OverClosed
  <2> QED BY <2>2, <2>3, <2>4
<1>20. Above(n)'
  BY <1>15, <1>18, <1>19 DEF Above
<1> QED BY <1>2, <1>10, <1>13, <1>20, Assembled

\* A defer is registered at the end of its function's list: that function is
\* not ending, so none of its defers has started.
LEMMA DeferKeeps ==
  ASSUME Plain, IInv, Defer
  PROVE  IInv'
<1>z. SUFFICES ASSUME NEW n, n = Len(cpp), NEW F, F = Floor(n), NEW D, D = Len(defers),
                      NEW s, s = deferStack[frameCount]
               PROVE  IInv'
  OBVIOUS
<1>1. /\ Running /\ kind[Current] # "defer" /\ kind[Current] # "gen"
      /\ deferStack' = [deferStack EXCEPT ![frameCount] = Append(s, D + 1)]
      /\ defers' = Append(defers, [owner |-> Current, started |-> 0])
      /\ frames' = frames /\ frameCount' = frameCount /\ kind' = kind /\ trys' = trys /\ gone' = gone
      /\ handlers' = handlers /\ cpp' = cpp /\ ret' = ret /\ used' = used
      /\ generator' = generator /\ currentGen' = currentGen
  BY <1>z DEF Defer, Plain, frameVars, genVars
<1>2. /\ n \in Nat \ {0} /\ n \in DOMAIN cpp /\ cpp[n].fn = "execute" /\ Top = cpp[n]
      /\ ret = "none" /\ cpp # <<>> /\ frameCount \in Nat /\ F \in Nat /\ F < frameCount
      /\ frameCount \in 1 .. FramesMax /\ FramesMax \in Nat /\ frameCount <= FramesMax
      /\ D \in Nat /\ Len(kind) \in Nat /\ DOMAIN defers = 1 .. D
      /\ Current = frames[frameCount] /\ Current \in 1 .. Len(kind)
      /\ runs[frameCount] = kind[Current] /\ Calm(n) /\ frameCount \in F + 1 .. frameCount
  BY <1>1, <1>z, RunFacts, RunCalm, TypeFacts DEF IInv, TypeFact
<1>3. /\ s \in Seq(Nat) /\ Len(s) \in Nat /\ DOMAIN s = 1 .. Len(s) /\ \A x \in DOMAIN s : s[x] \in Nat
      /\ Append(s, D + 1) \in Seq(Nat)
      /\ DOMAIN Append(s, D + 1) = 1 .. Len(s) + 1
      /\ \A x \in 1 .. Len(s) : Append(s, D + 1)[x] = s[x]
      /\ Append(s, D + 1)[Len(s) + 1] = D + 1
  <2>1. deferStack \in [1 .. FramesMax -> Seq(Nat)]
    BY DEF IInv, TypeOK
  <2>2. s \in Seq(Nat) /\ D + 1 \in Nat
    BY <2>1, <1>2, <1>z
  <2>3. /\ Append(s, D + 1) \in Seq(Nat) /\ Len(Append(s, D + 1)) = Len(s) + 1
        /\ \A x \in 1 .. Len(s) : Append(s, D + 1)[x] = s[x]
        /\ Append(s, D + 1)[Len(s) + 1] = D + 1
    BY <2>2, Appended
  <2> QED BY <2>2, <2>3
<1>4. /\ deferStack' \in [1 .. FramesMax -> Seq(Nat)]
      /\ deferStack'[frameCount] = Append(s, D + 1)
      /\ \A i \in 1 .. FramesMax : i # frameCount => deferStack'[i] = deferStack[i]
  <2>1. deferStack \in [1 .. FramesMax -> Seq(Nat)]
    BY DEF IInv, TypeOK
  <2> QED BY <2>1, <1>1, <1>2, <1>3
<1>5. /\ defers' \in Seq([owner : Nat, started : Nat]) /\ Len(defers') = D + 1
      /\ \A d \in 1 .. D : defers'[d] = defers[d]
      /\ defers'[D + 1].owner = Current /\ defers'[D + 1].started = 0
      /\ DOMAIN defers' = 1 .. D + 1
      /\ \A d \in 1 .. D + 1 : d \in 1 .. D \/ d = D + 1
  <2>1. defers \in Seq([owner : Nat, started : Nat])
    BY DEF IInv, TypeOK
  <2>2. [owner |-> Current, started |-> 0] \in [owner : Nat, started : Nat]
    BY <1>2
  <2>3. /\ defers' \in Seq([owner : Nat, started : Nat]) /\ Len(defers') = D + 1
        /\ \A d \in 1 .. D : defers'[d] = defers[d]
        /\ defers'[D + 1] = [owner |-> Current, started |-> 0]
    BY <1>z, <2>1, <2>2, <1>1, Appended
  <2> QED BY <2>3, <1>2
<1>6. TypeOK'
  BY <1>1, <1>4, <1>5 DEF IInv, TypeOK
<1>7. /\ runs' = runs /\ open' = open /\ Floor(n)' = F /\ resumed' = resumed /\ handled' = handled
      /\ caught' = caught /\ marks' = marks /\ ending' = ending
  <2>1. \A k \in DOMAIN cpp : Lim(k)' = Lim(k)
    BY <1>1 DEF Lim
  <2> QED BY <1>z, <2>1, <1>1 DEF Floor, resumed, handled, caught, marks, ending, runs, open
<1>8. \A i \in 1 .. F : i \in 1 .. FramesMax /\ i \in 1 .. frameCount /\ i # frameCount
  BY <1>2
<1>9. Kept(n)
  <2>1. HandlersKept(n)
    BY <1>1, <1>2, SameHandlers
  <2>2. \A d \in D + 1 .. Len(defers') : d = D + 1
    BY <1>2, <1>5
  <2>3. \A i \in 1 .. F : frames[i] # Current
    BY <1>2, <1>8 DEF IInv, Live
  <2>4. \A d \in Len(defers) + 1 .. Len(defers') : \A i \in 1 .. Floor(n) : frames[i] # defers'[d].owner
    BY <1>z, <2>2, <2>3, <1>5
  <2>5. Len(kind) <= Len(kind') /\ n - 1 <= Len(cpp') /\ Len(defers) <= Len(defers')
        /\ Floor(n) <= frameCount'
    BY <1>z, <1>1, <1>2, <1>5
  <2>6. \A i \in 1 .. F : deferStack'[i] = deferStack[i]
    BY <1>4, <1>8
  <2> QED BY <1>z, <2>1, <2>4, <2>5, <2>6, <1>1, <1>5, <1>7 DEF Kept, HandlersKept
<1>10. StackAbove(n)'
  <2>1. n > 1 => DeferFrameAt(n - 1)'
    BY <1>z, <1>1, <1>2, <1>7, <1>9, FrameKept
  <2>2. Len(cpp') = n
    BY <1>z, <1>1
  <2> QED BY <2>1, <2>2, <1>2, <1>6, <1>9, ExecOnTop
<1>11. Live' /\ OneGenerator' /\ HandlersRise' /\ LastSlot'
  BY <1>1, <1>7 DEF IInv, Live, OneGenerator, HandlersRise, LastSlot
<1>12. frameCount \notin ending
  BY <1>z, <1>2, CalmFacts DEF Calm
<1>13. DefersLifo'
  <2> SUFFICES ASSUME NEW d \in DOMAIN defers', NEW e \in DOMAIN defers', d < e,
                      defers'[d].owner = defers'[e].owner, defers'[d].started = 1
               PROVE  defers'[e].started = 1
    BY DEF DefersLifo
  <2>1. d # D + 1 /\ d \in 1 .. D
    BY <1>5
  <2>2. CASE e \in 1 .. D
    <3>1. defers[d].owner = defers[e].owner /\ defers[d].started = 1
      BY <2>1, <2>2, <1>5
    <3> QED BY <2>1, <2>2, <3>1, <1>2, <1>5 DEF IInv, DefersLifo
  <2>3. CASE e = D + 1
    <3>1. defers[d].owner = Current /\ defers[d].started = 1
      BY <2>1, <2>3, <1>5
    <3>2. frameCount \in 1 .. frameCount
      BY <1>2
    <3> QED BY <3>1, <3>2, <2>1, <1>2, <1>12 DEF IInv, StartedEnds
  <2> QED BY <2>2, <2>3, <1>5
<1>14. /\ currentGen'.set => resumed' # {}
       /\ \A i \in F + 1 .. frameCount : runs'[i] = "gen" => i \in resumed'
       /\ \A i \in F + 1 .. frameCount : \A d \in Nat : d < open'[i] => <<i, d>> \in handled' \cup caught'
       /\ \A i \in F + 1 .. frameCount : runs'[i] = "defer" /\ open'[i] > 0 /\ i < frameCount => i \in marks'
       /\ \A j \in DOMAIN handlers' :
            /\ handlers'[j].frame <= frameCount
            /\ handlers'[j].act = frames'[handlers'[j].frame]
            /\ handlers'[j].depth < open'[handlers'[j].frame]
  <2>1. \A i \in F + 1 .. frameCount : i \in 1 .. frameCount
    BY <1>2
  <2>2. currentGen'.set => resumed' # {}
    BY <1>1, <1>7 DEF IInv, Resumes
  <2>3. \A i \in F + 1 .. frameCount : runs'[i] = "gen" => i \in resumed'
    BY <2>1, <1>1, <1>7 DEF IInv, Resumes
  <2>4. \A i \in F + 1 .. frameCount : \A d \in Nat : d < open'[i] => <<i, d>> \in handled' \cup caught'
    BY <2>1, <1>1, <1>7 DEF IInv, OpenHandled
  <2>5. \A i \in F + 1 .. frameCount : runs'[i] = "defer" /\ open'[i] > 0 /\ i < frameCount => i \in marks'
    BY <2>1, <1>1, <1>7 DEF IInv, DeferOpens
  <2>6. \A j \in DOMAIN handlers' :
            /\ handlers'[j].frame <= frameCount
            /\ handlers'[j].act = frames'[handlers'[j].frame]
            /\ handlers'[j].depth < open'[handlers'[j].frame]
    BY <1>1, <1>2, <1>7 DEF IInv, HandlersLive
  <2> QED BY <2>2, <2>3, <2>4, <2>5, <2>6
<1>15. \A i \in F + 1 .. FramesMax : ListAt(i)'
  <2> SUFFICES ASSUME NEW i \in F + 1 .. FramesMax
               PROVE  ListAt(i)'
    OBVIOUS
  <2>1. i \in 1 .. FramesMax /\ i \in Nat
    BY <1>2
  <2>2. ListAt(i)
    BY <2>1 DEF IInv, ListsExact
  <2>3. CASE i > frameCount
    <3>1. i # frameCount /\ ~(i <= frameCount)
      BY <2>1, <2>3, <1>2
    <3>2. deferStack'[i] = <<>>
      BY <3>1, <2>1, <2>2, <2>3, <1>4 DEF ListAt
    <3> QED BY <3>1, <3>2, <1>1 DEF ListAt
  <2>4. CASE i < frameCount
    <3>1. /\ i <= frameCount /\ ~(i > frameCount') /\ frames'[i] = frames[i]
          /\ deferStack'[i] = deferStack[i] /\ runs'[i] = runs[i]
      BY <2>1, <2>4, <1>1, <1>2, <1>4, <1>7
    <3>2. \A d \in 1 .. D : d \in 1 .. D + 1
      BY <1>2
    <3>3. \A d \in 1 .. Len(defers) : d \in 1 .. Len(defers') /\ defers'[d] = defers[d]
      BY <1>z, <3>2, <1>5
    <3> QED BY <3>1, <3>3, <2>2, ListSame
  <2>5. CASE i = frameCount
    <3>1. Pends(s, Current)
      BY <1>z, <2>2, <2>5, <1>2 DEF ListAt
    <3>2. \A x \in 1 .. Len(s) : /\ s[x] \in 1 .. D /\ s[x] \in Nat
                                 /\ defers'[s[x]].owner = Current /\ defers'[s[x]].started = 0
      <4>1. \A x \in DOMAIN s : /\ s[x] \in 1 .. D
                                /\ defers[s[x]].owner = Current /\ defers[s[x]].started = 0
        BY <1>z, <3>1 DEF Pends
      <4>2. \A x \in DOMAIN s : defers'[s[x]] = defers[s[x]]
        BY <4>1, <1>5
      <4>3. \A x \in 1 .. Len(s) : x \in DOMAIN s
        BY <1>3
      <4> QED BY <4>1, <4>2, <4>3, <1>3
    <3>3. \A x, y \in 1 .. Len(s) : x < y => s[x] < s[y]
      BY <3>1, <1>3 DEF Pends, Rising
    <3> DEFINE t == Append(s, D + 1)
    <3>4. \A x \in DOMAIN t : x \in 1 .. Len(s) \/ x = Len(s) + 1
      BY <1>3
    <3>5. Rising(t)
      <4> SUFFICES ASSUME NEW x \in DOMAIN t, NEW y \in DOMAIN t, x < y
                   PROVE  t[x] < t[y]
        BY DEF Rising
      <4>1. x # Len(s) + 1 /\ x \in 1 .. Len(s)
        BY <1>3
      <4>2. CASE y \in 1 .. Len(s)
        <5>1. t[x] = s[x] /\ t[y] = s[y]
          BY <4>1, <4>2, <1>3
        <5> QED BY <5>1, <4>1, <4>2, <3>3
      <4>3. CASE y = Len(s) + 1
        <5>1. t[x] = s[x] /\ t[y] = D + 1 /\ s[x] \in 1 .. D
          BY <4>1, <4>3, <3>2, <1>3
        <5>2. \A z \in 1 .. D : z < D + 1
          BY <1>2
        <5>3. s[x] < D + 1
          BY <5>1, <5>2
        <5> QED BY <5>1, <5>3
      <4> QED BY <4>2, <4>3, <3>4
    <3>6. \A x \in DOMAIN t : /\ t[x] \in 1 .. D + 1
                              /\ defers'[t[x]].owner = Current /\ defers'[t[x]].started = 0
      <4> SUFFICES ASSUME NEW x \in DOMAIN t
                   PROVE  /\ t[x] \in 1 .. D + 1
                          /\ defers'[t[x]].owner = Current /\ defers'[t[x]].started = 0
        OBVIOUS
      <4>1. CASE x \in 1 .. Len(s)
        <5>1. t[x] = s[x] /\ s[x] \in 1 .. D
          BY <4>1, <3>2, <1>3
        <5>2. \A y \in 1 .. D : y \in 1 .. D + 1
          BY <1>2
        <5>3. t[x] \in 1 .. D + 1
          BY <5>1, <5>2
        <5> QED BY <5>1, <5>3, <4>1, <3>2
      <4>2. CASE x = Len(s) + 1
        <5>1. t[x] = D + 1 /\ D + 1 \in 1 .. D + 1
          BY <4>2, <1>2, <1>3
        <5> QED BY <5>1, <1>5
      <4> QED BY <4>1, <4>2, <3>4
    <3>7. Pends(deferStack[i], frames[i])'
      <4>1. deferStack'[i] = t /\ frames'[i] = Current /\ Len(defers') = D + 1
        BY <2>5, <1>1, <1>2, <1>4, <1>5
      <4>2. Rising(t)' /\ (t = deferStack'[i] => (Rising(deferStack[i]))')
        BY <3>5, <1>4, <2>5 DEF Rising
      <4> QED BY <4>1, <4>2, <3>6 DEF Pends
    <3>8. runs'[i] \notin {"defer", "gen"} /\ ~(i > frameCount')
      BY <2>5, <1>1, <1>2, <1>7
    <3> QED BY <3>7, <3>8 DEF ListAt
  <2> QED BY <2>1, <2>3, <2>4, <2>5, <1>2
<1>16. \A d \in 1 .. Len(defers') : /\ defers'[d].owner \in 1 .. Len(kind')
                                    /\ kind'[defers'[d].owner] \notin {"defer", "gen"}
                                    /\ defers'[d].started \in {0, 1}
  <2>1. \A d \in 1 .. D : /\ defers[d].owner \in 1 .. Len(kind)
                          /\ kind[defers[d].owner] \notin {"defer", "gen"}
                          /\ defers[d].started \in {0, 1}
    BY <1>z DEF IInv, NoneLost
  <2>2. kind' = kind /\ Len(defers') = D + 1
    BY <1>1, <1>5
  <2>3. ASSUME NEW d \in 1 .. D + 1
        PROVE  d = D + 1 \/ (d \in 1 .. D /\ defers'[d] = defers[d])
    BY <1>5
  <2>4. defers'[D + 1].owner = Current /\ defers'[D + 1].started = 0
        /\ Current \in 1 .. Len(kind) /\ kind[Current] \notin {"defer", "gen"}
    BY <1>1, <1>2, <1>5
  <2> QED BY <2>1, <2>2, <2>3, <2>4
<1>17. \A d \in 1 .. Len(defers') : defers'[d].started = 0 =>
          \/ \E i \in 1 .. F : frames'[i] = defers'[d].owner
          \/ \E i \in F + 1 .. frameCount' : frames'[i] = defers'[d].owner /\ Pending(d, i)'
  <2> SUFFICES ASSUME NEW d \in 1 .. D + 1, defers'[d].started = 0
               PROVE  \E i \in 1 .. frameCount : frames[i] = defers'[d].owner /\ Pending(d, i)'
    <3>1. \A i \in 1 .. frameCount : i \in 1 .. F \/ i \in F + 1 .. frameCount
      BY <1>2
    <3> QED BY <3>1, <1>1, <1>5
  <2>1. CASE d = D + 1
    <3>1. Len(s) + 1 \in DOMAIN deferStack'[frameCount] /\ deferStack'[frameCount][Len(s) + 1] = D + 1
      BY <1>3, <1>4
    <3>2. \A i : i = frameCount => Pending(d, i)'
      BY <2>1, <3>1 DEF Pending
    <3>3. frameCount \in 1 .. frameCount /\ frames[frameCount] = defers'[d].owner
      BY <2>1, <1>2, <1>5
    <3> QED BY <3>2, <3>3
  <2>2. CASE d \in 1 .. D
    <3>1. PICK i \in 1 .. frameCount : frames[i] = defers[d].owner /\ Pending(d, i)
      BY <1>z, <2>2, <1>5 DEF IInv, NoneLost
    <3>2. Pending(d, i)'
      <4>1. i \in 1 .. FramesMax
        BY <1>2
      <4>2. CASE \E x \in DOMAIN deferStack[i] : deferStack[i][x] = d
        <5>1. PICK x \in DOMAIN deferStack[i] : deferStack[i][x] = d
          BY <4>2
        <5>2. i # frameCount => deferStack'[i] = deferStack[i]
          BY <4>1, <1>4
        <5>3. ASSUME i = frameCount
              PROVE  x \in DOMAIN deferStack'[i] /\ deferStack'[i][x] = d
          <6>1. x \in 1 .. Len(s) /\ s[x] = d
            BY <1>z, <5>1, <5>3, <1>3
          <6>2. x \in 1 .. Len(s) + 1
            BY <6>1, <1>3
          <6> QED BY <6>1, <6>2, <5>3, <1>3, <1>4
        <5> QED BY <5>1, <5>2, <5>3 DEF Pending
      <4>3. CASE \E k \in DOMAIN cpp : /\ cpp[k].fn = "defers" /\ cpp[k].saved = i
                                       /\ \E x \in DOMAIN cpp[k].todo : cpp[k].todo[x] = d
        BY <4>3, <1>1 DEF Pending
      <4> QED BY <3>1, <4>2, <4>3 DEF Pending
    <3> QED BY <2>2, <3>1, <3>2, <1>5
  <2> QED BY <2>1, <2>2, <1>5
<1>18. \A d \in 1 .. Len(defers') : defers'[d].started = 1 =>
          \A i \in F + 1 .. frameCount' : frames'[i] = defers'[d].owner => i \in ending'
  <2>1. \A i \in F + 1 .. frameCount : i \in 1 .. frameCount
    BY <1>2
  <2> QED BY <2>1, <1>1, <1>5, <1>7 DEF IInv, StartedEnds
<1>19. FramesAbove(n)'
  BY <1>1, <1>2, <1>7, <1>11, <1>13, <1>14, <1>15, <1>16, <1>17, <1>18 DEF FramesAbove
<1>20. Reported' /\ TopFrames' /\ OverClosed'
  <2>1. Top' = Top
    BY <1>1 DEF Top
  <2>2. Reported'
    BY <2>1, <1>1 DEF IInv, Reported
  <2>3. TopFrames'
    BY <1>z, <2>1, <1>1, <1>2, <1>7 DEF TopFrames, Calls
  <2>4. OverClosed'
    BY <2>1, <1>1, <1>2 DEF OverClosed
  <2> QED BY <2>2, <2>3, <2>4
<1>21. Above(n)'
  BY <1>10, <1>19, <1>20 DEF Above
<1> QED BY <1>2, <1>6, <1>9, <1>21, Assembled

-----------------------------------------------------------------------------
(* A return, a catch or an unwinding on top of the execute() at m.           *)

LEMMA InRange ==
  ASSUME NEW a \in Nat \ {0}, NEW b \in Nat, a <= b
  PROVE  a \in 1 .. b
  OBVIOUS

LEMMA Steps ==
  ASSUME NEW a \in Nat \ {0}
  PROVE  /\ a + 1 # a + 2 /\ a + 1 + 1 = a + 2 /\ a + 1 - 1 = a /\ a + 2 - 1 = a + 1
         /\ a + 1 > 1 /\ a - 1 \in Nat /\ a \in Nat /\ a - 1 + 1 = a
         /\ a - 1 < a + 1 /\ ~(a - 1 < a - 1) /\ a - 1 # a + 1
  OBVIOUS

\* The shape of the stack while a function ends.
LEMMA EndFacts ==
  ASSUME IInv, cpp # <<>>, Ends(Top), NEW m, m = Len(cpp) - 1
  PROVE  /\ m \in Nat \ {0} /\ Len(cpp) = m + 1 /\ DOMAIN cpp = 1 .. m + 1
         /\ m \in DOMAIN cpp /\ m + 1 \in DOMAIN cpp /\ cpp[m].fn = "execute"
         /\ Top = cpp[m + 1] /\ Top \in Record /\ Lim(m + 1) = frameCount /\ ret = "none"
         /\ Below \in Seq(Record) /\ Len(Below) = m /\ \A k \in 1 .. m : Below[k] = cpp[k]
         /\ Last(Below) = cpp[m]
         /\ Front(Below) \in Seq(Record) /\ Len(Front(Below)) = m - 1
         /\ \A k \in 1 .. m - 1 : Front(Below)[k] = cpp[k]
         /\ Floor(m) \in Nat /\ Floor(m) <= frameCount /\ frameCount \in Nat
         /\ frameCount <= FramesMax /\ FramesMax \in Nat
         /\ StopAt(m + 1) /\ ClosedAt(m + 1) /\ ExitAt(m + 1) /\ NestedAt(m + 1)
<1>1. cpp \in Seq(Record) /\ Len(cpp) \in Nat \ {0} /\ DOMAIN cpp = 1 .. Len(cpp)
      /\ Top = cpp[Len(cpp)] /\ Len(cpp) \in DOMAIN cpp /\ Top \in Record
  <2>1. cpp \in Seq(Record)
    BY DEF IInv, TypeOK
  <2>2. Top = cpp[Len(cpp)] /\ Top \in Record /\ Len(cpp) \in Nat \ {0}
    BY <2>1, FrontLast DEF Top
  <2> QED BY <2>1, <2>2
<1>2. NestedAt(Len(cpp)) /\ StopAt(Len(cpp)) /\ ClosedAt(Len(cpp)) /\ ExitAt(Len(cpp)) /\ ret = "none"
  BY <1>1 DEF IInv, Nested, EndsStop, EndsClosed, ExitsFree, Reported
<1>3. Len(cpp) # 1
  BY <1>1, <1>2 DEF NestedAt, Ends
<1>4. m \in Nat \ {0} /\ Len(cpp) = m + 1 /\ m \in DOMAIN cpp
  BY <1>1, <1>3
<1>5. cpp[m].fn = "execute"
  BY <1>1, <1>2, <1>3, <1>4 DEF NestedAt
<1>6. Below \in Seq(Record) /\ Len(Below) = m /\ \A k \in 1 .. m : Below[k] = cpp[k]
  BY <1>1, <1>4, FrontLast DEF Below
<1>7. Below # <<>>
  BY <1>4, <1>6
<1>8. /\ Last(Below) = Below[m]
      /\ Front(Below) \in Seq(Record) /\ Len(Front(Below)) = m - 1
      /\ \A k \in 1 .. m - 1 : Front(Below)[k] = Below[k]
  BY <1>6, <1>7, FrontLast
<1>9. m \in 1 .. m /\ \A k \in 1 .. m - 1 : k \in 1 .. m
  BY <1>4
<1>10. Floor(m) \in Nat /\ Floor(m) <= frameCount /\ frameCount \in Nat
  BY <1>4, <1>5, BelowExec
<1>11. frameCount <= FramesMax /\ FramesMax \in Nat
  BY TypeFacts DEF IInv, TypeFact
<1>12. Lim(m + 1) = frameCount
  BY <1>4 DEF Lim
<1> QED BY <1>1, <1>2, <1>4, <1>5, <1>6, <1>8, <1>9, <1>10, <1>11, <1>12

\* What the frames above the floor of m have to do with the records above it.
LEMMA EndNames ==
  ASSUME IInv, cpp # <<>>, Ends(Top), NEW m, m = Len(cpp) - 1,
         NEW i \in Floor(m) + 1 .. frameCount
  PROVE  /\ i \in 1 .. frameCount /\ i \in 1 .. FramesMax
         /\ i \in ending => i = frameCount /\ (Top.fn # "return" => Stop(Top) < frameCount)
         /\ runs[i] = "defer" /\ open[i] > 0 => i = frameCount
         /\ runs[i] = "gen" => m > 1 /\ cpp[m - 1].fn = "resume" /\ i = cpp[m - 1].caller.n + 1
         /\ \A d : Pending(d, i) => \E x \in DOMAIN deferStack[i] : deferStack[i][x] = d
         /\ \A d : <<i, d>> \in caught =>
              Top.fn = "catch" /\ i = Top.handler.frame /\ d = Top.handler.depth
<1>1. /\ m \in Nat \ {0} /\ DOMAIN cpp = 1 .. m + 1 /\ m \in DOMAIN cpp /\ cpp[m].fn = "execute"
      /\ Top = cpp[m + 1] /\ Lim(m + 1) = frameCount
      /\ Floor(m) \in Nat /\ frameCount \in Nat /\ frameCount <= FramesMax /\ FramesMax \in Nat
  BY EndFacts
<1>2. i \in 1 .. frameCount /\ i \in 1 .. FramesMax /\ i \in Nat /\ i > Floor(m) /\ i <= frameCount
  BY <1>1
<1>3. \A k \in DOMAIN cpp : k > m => k = m + 1
  BY <1>1
<1>4. ASSUME i \in ending
      PROVE  i = frameCount /\ (Top.fn # "return" => Stop(Top) < frameCount)
  <2>1. PICK k \in DOMAIN cpp : /\ Lim(k) = i
                                /\ \/ cpp[k].fn = "return"
                                   \/ cpp[k].fn \in {"catch", "unwind"} /\ Stop(cpp[k]) < Lim(k)
    BY <1>4 DEF ending
  <2>2. Ends(cpp[k])
    BY <2>1 DEF Ends
  <2>3. k = m + 1
    BY <2>1, <2>2, <1>1, <1>2, <1>3, NamesAbove
  <2> QED BY <2>1, <2>3, <1>1
<1>5. ASSUME runs[i] = "defer", open[i] > 0
      PROVE  i = frameCount
  <2> SUFFICES ASSUME i < frameCount
               PROVE  FALSE
    BY <1>1, <1>2
  <2>1. i \in marks
    BY <1>2, <1>5 DEF IInv, DeferOpens
  <2>2. PICK k \in DOMAIN cpp : Waits(cpp[k]) /\ Mark(cpp[k]) = i
    BY <2>1 DEF marks
  <2>3. k = m + 1
    BY <2>2, <1>1, <1>2, <1>3, NamesAbove
  <2> QED BY <2>2, <2>3, <1>1 DEF Ends, Waits, Calls
<1>6. ASSUME runs[i] = "gen"
      PROVE  m > 1 /\ cpp[m - 1].fn = "resume" /\ i = cpp[m - 1].caller.n + 1
  <2>1. \A k \in DOMAIN cpp : k > m /\ cpp[k].fn = "resume" => cpp[k].caller.n = frameCount
    BY <1>1, <1>3 DEF Ends
  <2> QED BY <2>1, <1>1, <1>6, GenFrame
<1>7. ASSUME NEW d, Pending(d, i)
      PROVE  \E x \in DOMAIN deferStack[i] : deferStack[i][x] = d
  <2>1. ASSUME NEW k \in DOMAIN cpp, cpp[k].fn = "defers", cpp[k].saved = i
        PROVE  FALSE
    <3>1. k = m + 1
      BY <2>1, <1>1, <1>2, <1>3, NamesAbove
    <3> QED BY <2>1, <3>1, <1>1 DEF Ends
  <2> QED BY <2>1, <1>7 DEF Pending
<1>8. ASSUME NEW d, <<i, d>> \in caught
      PROVE  Top.fn = "catch" /\ i = Top.handler.frame /\ d = Top.handler.depth
  <2>1. PICK k \in DOMAIN cpp : /\ cpp[k].fn = "catch" /\ cpp[k].handler.frame = i
                                /\ cpp[k].handler.depth = d
    BY <1>8 DEF caught
  <2>2. k = m + 1
    BY <2>1, <1>1, <1>2, <1>3, NamesAbove
  <2> QED BY <2>1, <2>2, <1>1
<1> QED BY <1>2, <1>4, <1>5, <1>6, <1>7, <1>8

\* Frames are given up, one with nothing open and nothing pending in it, or
\* none.
EndStep(m) ==
  /\ m = Len(cpp) - 1
  /\ UNCHANGED <<frames, kind, trys, deferStack, defers, used, handlers, currentGen>>
  /\ frameCount' \in Nat /\ Floor(m) <= frameCount' /\ frameCount' <= frameCount
  /\ gone' = gone \cup {frames[i] : i \in frameCount' + 1 .. frameCount}
  /\ \A i \in frameCount' + 1 .. frameCount : open[i] = 0 /\ deferStack[i] = <<>>
  /\ \/ generator' = generator
     \/ generator' = [generator EXCEPT !.state = "completed"]
  /\ cpp' \in Seq(Record) /\ m - 1 <= Len(cpp') /\ Len(cpp') <= m + 1
  /\ \A k \in DOMAIN cpp' : cpp'[k] = cpp[k]
  /\ Len(cpp') = m + 1 \/ Top.fn # "catch"
  /\ ret' \in {"none", "ok", "error", "exit"}
  /\ ret' = "exit" => ExitFree(Len(cpp) + 1, frameCount)'
  /\ \A i \in Floor(m) + 1 .. frameCount' : i \notin ending

\* Dropping the frame on top leaves what is below it.
LEMMA EndLeft ==
  ASSUME IInv, cpp # <<>>, Ends(Top), NEW m, EndStep(m)
  PROVE  /\ TypeOK' /\ Kept(m) /\ FramesAbove(m)' /\ Floor(m)' = Floor(m)
         /\ \A i \in 1 .. frameCount' : i \in 1 .. frameCount /\ open'[i] = open[i] /\ runs'[i] = runs[i]
         /\ \A j \in DOMAIN handlers : handlers[j].frame <= frameCount'
<1>z. SUFFICES ASSUME NEW F, F = Floor(m)
               PROVE  /\ TypeOK' /\ Kept(m) /\ FramesAbove(m)' /\ Floor(m)' = Floor(m)
                      /\ \A i \in 1 .. frameCount' : /\ i \in 1 .. frameCount
                                                     /\ open'[i] = open[i] /\ runs'[i] = runs[i]
                      /\ \A j \in DOMAIN handlers : handlers[j].frame <= frameCount'
  OBVIOUS
<1>0. /\ m = Len(cpp) - 1 /\ frameCount' \in Nat /\ F <= frameCount' /\ frameCount' <= frameCount
      /\ cpp' \in Seq(Record) /\ m - 1 <= Len(cpp') /\ Len(cpp') <= m + 1
  BY <1>z DEF EndStep
<1>a. gone' = gone \cup {frames[i] : i \in frameCount' + 1 .. frameCount}
  BY DEF EndStep
<1>b. \A k \in DOMAIN cpp' : cpp'[k] = cpp[k]
  BY DEF EndStep
<1>d. \A i \in frameCount' + 1 .. frameCount : open[i] = 0 /\ deferStack[i] = <<>>
  BY DEF EndStep
<1>e. generator' = generator \/ generator' = [generator EXCEPT !.state = "completed"]
  BY DEF EndStep
<1>f. /\ ret' \in {"none", "ok", "error", "exit"}
      /\ ret' = "exit" => ExitFree(Len(cpp) + 1, frameCount)'
      /\ Len(cpp') = m + 1 \/ Top.fn # "catch"
  BY DEF EndStep
<1>g. \A i \in F + 1 .. frameCount' : i \notin ending
  BY <1>z DEF EndStep
<1>1. /\ m \in Nat \ {0} /\ Len(cpp) = m + 1 /\ DOMAIN cpp = 1 .. m + 1
      /\ m \in DOMAIN cpp /\ m + 1 \in DOMAIN cpp /\ cpp[m].fn = "execute"
      /\ Top = cpp[m + 1] /\ F \in Nat /\ F <= frameCount /\ frameCount \in Nat
      /\ frameCount <= FramesMax /\ FramesMax \in Nat
  BY <1>0, <1>z, EndFacts
<1>2. frames' = frames /\ kind' = kind /\ trys' = trys /\ deferStack' = deferStack /\ defers' = defers
      /\ used' = used /\ handlers' = handlers /\ currentGen' = currentGen
  BY DEF EndStep
<1>3. Len(cpp') \in Nat /\ DOMAIN cpp' = 1 .. Len(cpp')
  <2>1. cpp' \in Seq(Record)
    BY <1>0
  <2> QED BY <2>1
<1>4. TypeOK'
  <2>1. frameCount' \in 0 .. FramesMax
    BY <1>0, <1>1
  <2>2. gone' \subseteq 1 .. Len(kind)
    <3>1. \A i \in frameCount' + 1 .. frameCount : i \in 1 .. frameCount
      <4>1. frameCount \in Nat /\ frameCount' \in Nat
        BY <1>0, <1>1
      <4> QED BY <4>1, Cut
    <3>2. \A i \in 1 .. frameCount : frames[i] \in 1 .. Len(kind)
      BY DEF IInv, Live
    <3>3. gone \subseteq 1 .. Len(kind)
      BY DEF IInv, TypeOK
    <3> QED BY <3>1, <3>2, <3>3, <1>a
  <2>3. generator' \in [state : {"none", "created", "running", "suspended", "completed"}, act : Nat]
    BY <1>e DEF IInv, TypeOK
  <2> QED BY <2>1, <2>2, <2>3, <1>0, <1>2, <1>f DEF IInv, TypeOK
<1>5. \A i \in 1 .. frameCount' : i \in 1 .. frameCount /\ open'[i] = open[i] /\ runs'[i] = runs[i]
  <2>1. \A i \in 1 .. frameCount' : i \in 1 .. frameCount
    BY <1>0, <1>1
  <2> QED BY <2>1, <1>2 DEF open, runs
<1>6. /\ \A k \in 1 .. m - 1 : k \in DOMAIN cpp' /\ cpp'[k] = cpp[k]
      /\ m <= Len(cpp') => cpp'[m] = cpp[m]
      /\ \A k \in DOMAIN cpp' : k \in DOMAIN cpp
      /\ \A k \in DOMAIN cpp : k \in 1 .. m - 1 \/ k = m \/ k = m + 1
  <2> SUFFICES ASSUME NEW L, L = Len(cpp')
               PROVE  /\ \A k \in 1 .. m - 1 : k \in DOMAIN cpp' /\ cpp'[k] = cpp[k]
                      /\ m <= L => cpp'[m] = cpp[m]
                      /\ \A k \in DOMAIN cpp' : k \in DOMAIN cpp
                      /\ \A k \in DOMAIN cpp : k \in 1 .. m - 1 \/ k = m \/ k = m + 1
    OBVIOUS
  <2>0. L \in Nat /\ m - 1 <= L /\ L <= m + 1 /\ DOMAIN cpp' = 1 .. L /\ m \in Nat \ {0}
    BY <1>0, <1>1, <1>3
  <2>1. \A k \in 1 .. m - 1 : k \in DOMAIN cpp'
    BY <2>0
  <2>2. ASSUME m <= L
        PROVE  m \in DOMAIN cpp'
    <3>1. m \in Nat \ {0}
      BY <1>1
    <3>2. L \in Nat
      BY <2>0
    <3>3. m \in 1 .. L
      BY <3>1, <3>2, <2>2, InRange
    <3> QED BY <3>3, <2>0
  <2>3. \A k \in DOMAIN cpp' : k \in DOMAIN cpp
    BY <2>0, <1>1
  <2>4. \A k \in DOMAIN cpp : k \in 1 .. m - 1 \/ k = m \/ k = m + 1
    BY <1>1
  <2> QED BY <2>1, <2>2, <2>3, <2>4, <1>b
<1>7. /\ \A k \in DOMAIN cpp : cpp[k].fn = "resume" => k \in DOMAIN cpp' /\ k \in 1 .. m - 1
      /\ resumed' = resumed /\ handled' = handled
      /\ caught \subseteq caught'
  <2>1. \A k \in DOMAIN cpp : cpp[k].fn = "resume" => k \in DOMAIN cpp' /\ k \in 1 .. m - 1
    <3>1. \A k \in DOMAIN cpp : cpp[k].fn = "resume" => k # m
      BY <1>1, Zenon
    <3>2. cpp[m + 1].fn # "resume"
      BY <1>1 DEF Ends
    <3>3. \A k \in DOMAIN cpp : cpp[k].fn = "resume" => k # m + 1
      BY <3>2, Zenon
    <3> QED BY <3>1, <3>3, <1>6
  <2>2. resumed' = resumed
    BY <2>1, <1>6, <1>b DEF resumed
  <2>3. handled' = handled
    BY <1>2 DEF handled
  <2>4. ASSUME NEW k \in DOMAIN cpp, cpp[k].fn = "catch"
        PROVE  k \in DOMAIN cpp'
    <3>1. k # m
      BY <2>4, <1>1, Zenon
    <3>2. k = m + 1 => k \in DOMAIN cpp'
      <4>1. k = m + 1 => Top.fn = "catch"
        BY <2>4, <1>1, Zenon
      <4>2. Top.fn = "catch" => m + 1 \in DOMAIN cpp'
        BY <1>1, <1>3, <1>f
      <4> QED BY <4>1, <4>2
    <3> QED BY <3>1, <3>2, <1>6
  <2>5. caught \subseteq caught'
    BY <2>4, <1>6, <1>b DEF caught
  <2> QED BY <2>1, <2>2, <2>3, <2>5
<1>8. Kept(m)
  <2>1. HandlersKept(m)
    BY <1>1, <1>2, SameHandlers
  <2>2. Len(defers) \in Nat /\ Len(kind) \in Nat
    BY TypeFacts DEF IInv, TypeFact
  <2>3. (\A d \in Len(defers) + 1 .. Len(defers') : FALSE)
        /\ Len(kind) <= Len(kind') /\ Len(defers) <= Len(defers')
    BY <2>2, <1>2
  <2>4. \A i \in 1 .. F : i \in 1 .. frameCount'
    BY <1>0, <1>1
  <2>5. m - 1 <= Len(cpp') /\ Floor(m) <= frameCount'
    BY <1>0, <1>z
  <2>6. \A i \in 1 .. Floor(m) : i \in 1 .. frameCount'
    BY <2>4, <1>z
  <2> QED BY <2>1, <2>3, <2>5, <2>6, <1>2, <1>5, <1>6 DEF Kept, HandlersKept
<1>9. \A j \in DOMAIN handlers : handlers[j].frame <= frameCount'
  <2>1. \A j \in DOMAIN handlers : /\ handlers[j].frame \in 1 .. frameCount
                                   /\ handlers[j].depth < open[handlers[j].frame]
                                   /\ handlers[j].depth \in Nat
    BY TypeFacts DEF IInv, HandlersLive, TypeFact
  <2>2. \A j \in DOMAIN handlers : handlers[j].frame \notin frameCount' + 1 .. frameCount
    BY <2>1, <1>d
  <2> QED BY <2>1, <2>2, <1>0, <1>1
<1>10. OneGenerator'
  <2>1. CASE generator' = generator
    <3>1. \A k \in DOMAIN cpp' : cpp'[k].fn = "resume" =>
            /\ k \in DOMAIN cpp /\ cpp[k].fn = "resume"
            /\ k < Len(cpp) \/ k = Len(cpp')
      <4>1. \A k \in 1 .. m - 1 : k < Len(cpp)
        BY <1>1
      <4>2. \A k \in DOMAIN cpp' : cpp'[k].fn = "resume" => k \in DOMAIN cpp /\ cpp[k].fn = "resume"
        BY <1>6, <1>b
      <4> QED BY <4>1, <4>2, <1>7
    <3>2. \A a \in gone' : a \in gone \/ \E i \in 1 .. frameCount : a = frames[i]
      <4>1. \A i \in frameCount' + 1 .. frameCount : i \in 1 .. frameCount
        BY <1>0, <1>1
      <4> QED BY <4>1, <1>a
    <3>3. frameCount' <= frameCount /\ frameCount' \in Nat
      BY <1>0
    <3>4. \A a \in 1 .. Len(kind) : kind[a] = "gen" => trys'[a] = trys[a]
      BY <1>2
    <3>5. \A i \in 1 .. frameCount' : frames'[i] = frames[i]
      BY <1>2
    <3> QED BY <2>1, <3>1, <3>2, <3>3, <3>4, <3>5, <1>2, GeneratorKept
  <2>2. CASE generator' = [generator EXCEPT !.state = "completed"]
    <3>1. generator'.act = generator.act /\ generator'.state = "completed"
      BY <2>2 DEF IInv, TypeOK
    <3>2. \A a \in 1 .. Len(kind) : kind[a] = "gen" => a = generator.act /\ trys[a] = 0
      BY DEF IInv, OneGenerator
    <3> QED BY <3>1, <3>2, <1>2 DEF OneGenerator
  <2> QED BY <2>1, <2>2, <1>e
<1>11. Floor(m)' = Floor(m)
  <2>1. m # 1 => m - 1 \in 1 .. m - 1
    BY <1>1
  <2> QED BY <2>1, <1>6 DEF Floor, Mark
<1>12. FramesAbove(m)'
  <2>1. \A i \in Floor(m) + 1 .. frameCount' : i \in Floor(m) + 1 .. frameCount /\ i \in 1 .. frameCount
    BY <1>0, <1>1, <1>z
  <2>2. \A i \in 1 .. FramesMax : i > frameCount' => deferStack'[i] = <<>>
    <3>1. \A i \in 1 .. FramesMax : i > frameCount => deferStack[i] = <<>>
      BY DEF IInv, ListsExact, ListAt
    <3>2. \A i \in 1 .. FramesMax : i > frameCount' => i > frameCount \/ i \in frameCount' + 1 .. frameCount
      <4>1. frameCount \in Nat /\ frameCount' \in Nat
        BY <1>0, <1>1
      <4>2. \A i \in 1 .. FramesMax : i \in Nat
        BY <1>1
      <4> QED BY <4>1, <4>2, Cut
    <3> QED BY <3>1, <3>2, <1>2, <1>d
  <2>3. currentGen'.set => resumed' # {}
    BY <1>2, <1>7 DEF IInv, Resumes
  <2>4. \A i \in Floor(m) + 1 .. frameCount' : runs[i] = "gen" => i \in resumed'
    BY <2>1, <1>7 DEF IInv, Resumes
  <2>5. \A i \in Floor(m) + 1 .. frameCount' : \A d \in Nat :
          d < open[i] /\ <<i, d>> \in handled \cup caught => <<i, d>> \in handled' \cup caught'
    BY <1>7
  <2>6. \A i \in Floor(m) + 1 .. frameCount' : ~(runs[i] = "defer" /\ open[i] > 0 /\ i < frameCount')
    BY <2>1, <1>0, <1>1, EndNames
  <2>7. \A i \in Floor(m) + 1 .. frameCount : \A d \in 1 .. Len(defers) :
          Pending(d, i) => i <= frameCount' /\ Pending(d, i)'
    <3> SUFFICES ASSUME NEW i \in Floor(m) + 1 .. frameCount, NEW d \in 1 .. Len(defers), Pending(d, i)
                 PROVE  i <= frameCount' /\ Pending(d, i)'
      OBVIOUS
    <3>1. PICK x \in DOMAIN deferStack[i] : deferStack[i][x] = d
      BY <1>0, EndNames
    <3>2. i \notin frameCount' + 1 .. frameCount
      BY <3>1, <1>d
    <3>3. i <= frameCount'
      <4>1. frameCount \in Nat /\ frameCount' \in Nat /\ i \in Nat /\ i <= frameCount
        BY <1>0, <1>1, <1>z
      <4> QED BY <3>2, <4>1, Cut
    <3> QED BY <3>1, <3>3, <1>2 DEF Pending
  <2>8. \A a \in gone' : a \in gone \/ \E i \in frameCount' + 1 .. frameCount : a = frames[i]
    BY <1>a
  <2>9. Len(kind) <= Len(kind') /\ \A a \in 1 .. Len(kind) : kind'[a] = kind[a]
    BY <1>2, TypeFacts DEF IInv, TypeFact
  <2>10. \A j \in DOMAIN handlers' :
           j \in DOMAIN handlers /\ handlers'[j] = handlers[j] /\ handlers[j].frame <= frameCount'
    BY <1>2, <1>9
  <2>11. \A i \in 1 .. frameCount' : frames'[i] = frames[i] /\ open'[i] = open[i] /\ runs'[i] = runs[i]
    BY <1>2, <1>5
  <2>12. \A i \in 1 .. FramesMax : deferStack'[i] = deferStack[i]
    BY <1>2
  <2>13. \A i \in Floor(m) + 1 .. frameCount' : i \notin ending
    BY <1>g, <1>z
  <2> QED BY <2>2, <2>3, <2>4, <2>5, <2>6, <2>7, <2>8, <2>9, <2>10, <2>11, <2>12, <2>13, <1>0, <1>1, <1>2,
             <1>4, <1>10, <1>11, <1>f, <1>z, FramesLeft
<1> QED BY <1>4, <1>5, <1>8, <1>9, <1>11, <1>12

\* It stops above what waits for m, deferred calls keeping their frame.
LEMMA EndRoom ==
  ASSUME IInv, cpp # <<>>, Ends(Top), NEW m, m = Len(cpp) - 1
  PROVE  /\ cpp[m].base \in Nat /\ cpp[m].floor \in Nat
         /\ m = 1 => cpp[m].base = 0 /\ Floor(m) = 0
         /\ m > 1 => Waits(cpp[m - 1]) /\ Mark(cpp[m - 1]) = Floor(m)
         /\ m > 1 /\ cpp[m - 1].fn = "defers" =>
              cpp[m].base = Floor(m) + 1 /\ cpp[m - 1].saved = Floor(m)
         /\ m > 1 /\ Calls(cpp[m - 1]) =>
              cpp[m].base = Floor(m) /\ cpp[m - 1].caller.n = Floor(m)
         /\ Top.fn = "return" => Floor(m) < frameCount
         /\ Top.fn = "unwind" => Top.target = cpp[m].base
         /\ Top.fn # "return" => /\ Stop(Top) \in Nat /\ Floor(m) <= Stop(Top) /\ Stop(Top) <= frameCount
                                 /\ m > 1 /\ cpp[m - 1].fn = "defers" => Floor(m) < Stop(Top)
<1> SUFFICES ASSUME NEW F, F = Floor(m)
             PROVE  /\ cpp[m].base \in Nat /\ cpp[m].floor \in Nat
                    /\ m = 1 => cpp[m].base = 0 /\ F = 0
                    /\ m > 1 => Waits(cpp[m - 1]) /\ Mark(cpp[m - 1]) = F
                    /\ m > 1 /\ cpp[m - 1].fn = "defers" =>
                         cpp[m].base = F + 1 /\ cpp[m - 1].saved = F
                    /\ m > 1 /\ Calls(cpp[m - 1]) =>
                         cpp[m].base = F /\ cpp[m - 1].caller.n = F
                    /\ Top.fn = "return" => F < frameCount
                    /\ Top.fn = "unwind" => Top.target = cpp[m].base
                    /\ Top.fn # "return" =>
                         /\ Stop(Top) \in Nat /\ F <= Stop(Top) /\ Stop(Top) <= frameCount
                         /\ m > 1 /\ cpp[m - 1].fn = "defers" => F < Stop(Top)
  OBVIOUS
<1>1. /\ m \in Nat \ {0} /\ m \in DOMAIN cpp /\ cpp[m].fn = "execute" /\ Top = cpp[m + 1]
      /\ Len(cpp) = m + 1 /\ Top \in Record /\ Lim(m + 1) = frameCount
      /\ F \in Nat /\ frameCount \in Nat /\ StopAt(m + 1) /\ NestedAt(m + 1)
  BY EndFacts
<1>2. /\ cpp[m].base \in Nat /\ cpp[m].floor \in Nat /\ F <= cpp[m].base
      /\ m > 1 => Waits(cpp[m - 1])
      /\ m > 1 /\ cpp[m - 1].fn = "defers" => cpp[m].base = F + 1
      /\ m > 1 /\ Calls(cpp[m - 1]) => cpp[m].base = F
      /\ m = 1 => cpp[m].base = 0 /\ F = 0
  BY <1>1, FloorFacts
<1>3. m > 1 => F = Mark(cpp[m - 1])
  BY <1>1 DEF Floor
<1>4. /\ m > 1 /\ cpp[m - 1].fn = "defers" => cpp[m - 1].saved = F
      /\ m > 1 /\ Calls(cpp[m - 1]) => cpp[m - 1].caller.n = F
  BY <1>3 DEF Mark, Calls
<1>5. m + 1 - 1 = m /\ m + 1 > 1
  BY <1>1
<1>6. /\ Top.fn = "return" => F < frameCount
      /\ Top.fn = "catch" => F < Top.handler.frame
      /\ Top.fn \in {"catch", "unwind"} => Stop(Top) <= frameCount
  BY <1>1, <1>5 DEF StopAt
<1>7. Top.fn = "unwind" => Top.target = cpp[m].base
  BY <1>1, <1>5 DEF NestedAt
<1>8. CASE Top.fn = "catch"
  <2>1. Stop(Top) = Top.handler.frame /\ Top.handler.frame \in Nat
    BY <1>1, <1>8, RecordFacts DEF Stop, Handler
  <2> QED BY <2>1, <1>1, <1>2, <1>3, <1>4, <1>6, <1>8
<1>9. CASE Top.fn = "unwind"
  <2>1. Stop(Top) = cpp[m].base
    BY <1>7, <1>9 DEF Stop
  <2>2. m > 1 /\ cpp[m - 1].fn = "defers" => F < cpp[m].base
    BY <1>1, <1>2
  <2>3. Stop(Top) <= frameCount
    BY <1>6, <1>9
  <2> QED BY <2>1, <2>2, <2>3, <1>2, <1>3, <1>4, <1>7, <1>9
<1>10. CASE Top.fn = "return"
  BY <1>2, <1>3, <1>4, <1>6, <1>10
<1> QED BY <1>8, <1>9, <1>10 DEF Ends

\* The deferred calls of the topmost frame begin: its list is taken.
LEMMA DefersBegin ==
  ASSUME IInv, cpp # <<>>, Ends(Top), deferStack[frameCount] # <<>>,
         Top.fn # "return" => Stop(Top) < frameCount,
         UnwindFrame, UNCHANGED <<handlers, ret, generator, currentGen, defers, used>>
  PROVE  IInv'
<1>z. SUFFICES ASSUME NEW m, m = Len(cpp) - 1, NEW F, F = Floor(m), NEW s, s = deferStack[frameCount],
                      NEW r, r = [fn |-> "defers", todo |-> s, act |-> Current, saved |-> frameCount]
               PROVE  IInv'
  OBVIOUS
<1>0. m = Len(cpp) - 1 /\ Floor(m) = F
  BY <1>z
<1>1. /\ cpp' = Append(cpp, r) /\ deferStack' = [deferStack EXCEPT ![frameCount] = <<>>]
      /\ frames' = frames /\ frameCount' = frameCount /\ kind' = kind /\ trys' = trys /\ gone' = gone
      /\ handlers' = handlers /\ ret' = ret /\ generator' = generator /\ currentGen' = currentGen
      /\ defers' = defers /\ used' = used
  BY <1>z DEF UnwindFrame, frameVars
<1>2. /\ m \in Nat \ {0} /\ Len(cpp) = m + 1 /\ DOMAIN cpp = 1 .. m + 1
      /\ m \in DOMAIN cpp /\ m + 1 \in DOMAIN cpp /\ cpp[m].fn = "execute" /\ ret = "none"
      /\ Top = cpp[m + 1] /\ Top \in Record /\ Lim(m + 1) = frameCount
      /\ F \in Nat /\ frameCount \in Nat /\ frameCount <= FramesMax /\ FramesMax \in Nat
      /\ StopAt(m + 1) /\ ClosedAt(m + 1) /\ ExitAt(m + 1) /\ NestedAt(m + 1)
  BY <1>0, EndFacts
<1>3. F < frameCount
  <2>1. /\ Top.fn = "return" => F < frameCount
        /\ Top.fn # "return" => Stop(Top) \in Nat /\ F <= Stop(Top)
    BY <1>0, EndRoom
  <2> QED BY <2>1, <1>2
<1>4. /\ frameCount \in 1 .. FramesMax /\ frameCount \in F + 1 .. frameCount
      /\ frameCount \in 1 .. frameCount
  BY <1>2, <1>3
<1>5. /\ deferStack \in [1 .. FramesMax -> Seq(Nat)] /\ s \in Seq(Nat)
      /\ deferStack' \in [1 .. FramesMax -> Seq(Nat)] /\ deferStack'[frameCount] = <<>>
      /\ s = deferStack[frameCount]
      /\ \A i \in 1 .. FramesMax : i # frameCount => deferStack'[i] = deferStack[i]
  <2>1. deferStack \in [1 .. FramesMax -> Seq(Nat)]
    BY DEF IInv, TypeOK
  <2>2. <<>> \in Seq(Nat)
    OBVIOUS
  <2>3. s = deferStack[frameCount]
    BY <1>z
  <2> QED BY <2>1, <2>2, <2>3, <1>1, <1>4
<1>6. Current = frames[frameCount] /\ Current \in 1 .. Len(kind) /\ Len(kind) \in Nat
      /\ Len(defers) \in Nat
  BY <1>4, TypeFacts DEF Current, IInv, Live, TypeFact
<1>7. r \in Record /\ r.fn = "defers" /\ r.todo = s /\ r.act = Current /\ r.saved = frameCount
  <2>1. Current \in Nat
    BY <1>6
  <2>2. r \in Record
    BY <2>1, <1>2, <1>5, <1>z, RecordTypes
  <2> QED BY <2>2, <1>z
<1>8. /\ cpp' \in Seq(Record) /\ Len(cpp') = m + 2 /\ DOMAIN cpp' = 1 .. m + 2
      /\ \A k \in 1 .. m + 1 : cpp'[k] = cpp[k]
      /\ cpp'[m + 2] = r
  <2>1. cpp \in Seq(Record)
    BY DEF IInv, TypeOK
  <2>2. /\ cpp' \in Seq(Record) /\ Len(cpp') = Len(cpp) + 1
        /\ \A k \in 1 .. Len(cpp) : cpp'[k] = cpp[k]
        /\ cpp'[Len(cpp) + 1] = r
    BY <2>1, <1>1, <1>7, Appended
  <2>3. Len(cpp) + 1 = m + 2
    BY <1>2
  <2> QED BY <2>2, <2>3, <1>2
<1>9. TypeOK'
  BY <1>1, <1>5, <1>8 DEF IInv, TypeOK
<1>10. runs' = runs /\ open' = open /\ handled' = handled
  BY <1>1 DEF runs, open, handled
<1>11. /\ \A k \in 1 .. m - 1 : k \in 1 .. m + 1 /\ k \in DOMAIN cpp
       /\ m \in 1 .. m + 1 /\ m + 1 \in 1 .. m + 1 /\ m + 1 \in DOMAIN cpp' /\ m + 2 \in DOMAIN cpp'
       /\ \A k \in DOMAIN cpp : k \in DOMAIN cpp' /\ cpp'[k] = cpp[k]
       /\ \A k \in DOMAIN cpp' : k \in DOMAIN cpp \/ k = m + 2
  BY <1>2, <1>8
<1>12. Kept(m)
  <2>1. HandlersKept(m)
    BY <1>1, <1>2, SameHandlers
  <2>2. (\A d \in Len(defers) + 1 .. Len(defers') : FALSE)
        /\ Len(kind) <= Len(kind') /\ Len(defers) <= Len(defers')
    BY <1>1, <1>6
  <2>3. \A i \in 1 .. F : i \in 1 .. FramesMax /\ i # frameCount
    BY <1>2, <1>3
  <2>4. m - 1 <= Len(cpp') /\ Floor(m) <= frameCount'
    BY <1>0, <1>1, <1>2, <1>3, <1>8
  <2> QED BY <2>1, <2>2, <2>3, <2>4, <1>0, <1>1, <1>5, <1>8, <1>10, <1>11 DEF Kept, HandlersKept
<1>13. Floor(m)' = F
  <2>1. m # 1 => m - 1 \in 1 .. m - 1
    BY <1>2
  <2>2. m # 1 => (Mark(cpp[m - 1]))' = Mark(cpp[m - 1])
    BY <2>1, <1>8, <1>11 DEF Mark
  <2> QED BY <2>2, <1>0 DEF Floor
<1>14. cpp'[m + 1] = Top /\ Lim(m + 1)' = frameCount
  <2>0. m + 1 # m + 2 /\ m + 1 + 1 = m + 2
    BY <1>2, Steps
  <2>1. m + 1 # Len(cpp') /\ m + 1 + 1 = m + 2
    BY <2>0, <1>8
  <2>2. Lim(m + 1)' = (Mark(cpp[m + 2]))'
    BY <2>1 DEF Lim
  <2>3. (Mark(cpp[m + 2]))' = frameCount
    BY <1>7, <1>8 DEF Mark
  <2> QED BY <2>2, <2>3, <1>2, <1>8, <1>11
<1>15. StopAt(m + 1)'
  <2>1. Floor(m + 1 - 1)' = Floor(m + 1 - 1)
    BY <1>0, <1>2, <1>13, Steps
  <2>2. Top.fn \in {"catch", "unwind"} => Stop(Top) < frameCount /\ Stop(Top) <= frameCount
    <3>1. Top.fn \in {"catch", "unwind"} => Stop(Top) \in Nat /\ Stop(Top) < frameCount
      BY <1>0, EndRoom
    <3> QED BY <3>1, <1>2
  <2>3. (Stop(cpp[m + 1]))' = Stop(Top)
    BY <1>14 DEF Stop
  <2> QED BY <2>1, <2>2, <2>3, <1>2, <1>14 DEF StopAt
<1>16. ClosedAt(m + 1)' /\ ExitAt(m + 1)'
  <2>1. Floor(m + 1 - 1)' = Floor(m + 1 - 1)
    BY <1>0, <1>2, <1>13, Steps
  <2>2. ClosedAt(m + 1)'
    BY <2>1, <1>1, <1>2, <1>10, <1>14 DEF ClosedAt
  <2>3. \A j \in 1 .. m + 1 - 1 : j \in DOMAIN cpp
    BY <1>2
  <2>4. ASSUME ExitFree(m + 1, frameCount)
        PROVE  ExitFree(m + 1, frameCount)'
    <3>0. m \in Nat
      BY <1>2
    <3>1. \A j \in 1 .. m + 1 - 1 : cpp'[j] = cpp[j]
      BY <2>3, <1>11
    <3>2. \A j \in 1 .. m + 1 - 1 : \A p \in j .. m + 1 - 1 : p \in 1 .. m + 1 - 1
      BY <1>2
    <3>3. /\ \A j \in 1 .. m + 1 - 1 : cpp'[j].fn # "defers"
          /\ \A j \in 1 .. m + 1 - 1 : cpp'[j].fn = "resume" =>
               \E p \in j .. m + 1 - 1 : cpp'[p].fn = "posted"
      BY <2>4, <3>0, <3>1, <3>2 DEF ExitFree
    <3>4. \A i \in 1 .. frameCount : open[i] # 0 =>
            \E p \in 1 .. m + 1 - 1 : cpp'[p].fn = "posted" /\ i <= cpp'[p].caller.n
      BY <2>4, <3>0, <3>1 DEF ExitFree
    <3>5. (\A i \in 1 .. frameCount : open[i] # 0 =>
             \E p \in 1 .. m + 1 - 1 : cpp[p].fn = "posted" /\ i <= cpp[p].caller.n)'
      BY <3>4, <1>1, <1>10
    <3> QED BY <3>0, <3>3, <3>5 DEF ExitFree
  <2>5. ExitAt(m + 1)'
    BY <2>4, <1>1, <1>2, <1>14 DEF ExitAt
  <2> QED BY <2>2, <2>5
<1>17. ListAt(frameCount)
  BY <1>4 DEF IInv, ListsExact
<1>18. MarkAt(m + 2)' /\ TodoAt(m + 2)' /\ DeferFrameAt(m + 2)'
  <2>1. MarkAt(m + 2)'
    BY <1>1, <1>2, <1>3, <1>7, <1>8 DEF MarkAt, Mark
  <2>2. Pends(s, Current)
    BY <1>2, <1>5, <1>6, <1>17 DEF ListAt
  <2>3. Pends(s, Current)'
    BY <2>2, <1>1 DEF Pends, Rising, Current
  <2>4. runs[frameCount] \notin {"defer", "gen"}
    BY <1>2, <1>17 DEF ListAt
  <2>5. frameCount > 0
    BY <1>4
  <2>6. TodoAt(m + 2)'
    <3>1. (Pends(cpp[m + 2].todo, cpp[m + 2].act))'
      BY <2>3, <1>1, <1>7, <1>8 DEF Pends, Rising, Current
    <3> QED BY <3>1, <2>4, <2>5, <1>1, <1>5, <1>6, <1>7, <1>8, <1>10 DEF TodoAt
  <2>7. ~(m + 2 < Len(cpp')) /\ ~(frameCount > frameCount)
    BY <1>2, <1>8
  <2>8. DeferFrameAt(m + 2)'
    BY <2>7, <1>1, <1>7, <1>8 DEF DeferFrameAt
  <2> QED BY <2>1, <2>6, <2>8
<1>19. StackAbove(m)'
  <2>1. m > 1 => DeferFrameAt(m - 1)'
    <3>1. m > 1 /\ cpp[m - 1].fn = "defers" =>
            F < frameCount' /\ F < frameCount /\ runs'[F + 1] = runs[F + 1]
      BY <1>1, <1>3, <1>10
    <3> QED BY <3>1, <1>0, <1>2, <1>12, FrameKept
  <2>2. cpp'[m + 1].fn = "unwind" => cpp'[m + 1].target = cpp[m].base
    BY <1>0, <1>2, <1>14, <1>8, <1>11, EndRoom
  <2>3. Ends(cpp'[m + 1]) /\ cpp'[m + 2].fn = "defers" /\ cpp'[m + 2].saved > Floor(m)
    BY <1>0, <1>2, <1>3, <1>7, <1>8, <1>14
  <2> QED BY <2>1, <2>2, <2>3, <1>2, <1>8, <1>9, <1>12, <1>15, <1>16, <1>18, DefersOnTop
<1>20. FramesAbove(m)'
  <2>1. /\ \A i \in 1 .. frameCount' : frames'[i] = frames[i] /\ open'[i] = open[i] /\ runs'[i] = runs[i]
        /\ Floor(m) <= frameCount' /\ frameCount' <= frameCount
        /\ Len(kind) <= Len(kind')
    BY <1>0, <1>1, <1>2, <1>3, <1>6, <1>10
  <2>2. \A j \in DOMAIN handlers' :
          j \in DOMAIN handlers /\ handlers'[j] = handlers[j] /\ handlers[j].frame <= frameCount'
    BY <1>1, <1>2 DEF IInv, HandlersLive
  <2>3. \A i \in 1 .. FramesMax : /\ deferStack'[i] = deferStack[i] \/ deferStack'[i] = <<>>
                                  /\ i > frameCount' => deferStack'[i] = <<>>
    <3>1. \A i \in 1 .. FramesMax : i > frameCount => deferStack[i] = <<>> /\ i # frameCount
      BY <1>2 DEF IInv, ListsExact, ListAt
    <3> QED BY <3>1, <1>1, <1>5
  <2>4. resumed \subseteq resumed' /\ caught \subseteq caught'
    BY <1>11 DEF resumed, caught
  <2>5. currentGen'.set => resumed' # {}
    BY <2>4, <1>1 DEF IInv, Resumes
  <2>6. \A i \in Floor(m) + 1 .. frameCount' : i \in 1 .. frameCount /\ i \in Floor(m) + 1 .. frameCount
    BY <1>0, <1>1, <1>2
  <2>7. \A i \in Floor(m) + 1 .. frameCount' : runs[i] = "gen" => i \in resumed'
    BY <2>4, <2>6 DEF IInv, Resumes
  <2>8. \A i \in Floor(m) + 1 .. frameCount' : ~(runs[i] = "defer" /\ open[i] > 0 /\ i < frameCount')
    BY <2>6, <1>0, <1>1, <1>2, EndNames
  <2>9. ret' # "exit"
    BY <1>1, <1>2
  <2>10. \A i \in Floor(m) + 1 .. frameCount : \A d \in 1 .. Len(defers) :
           Pending(d, i) => i <= frameCount' /\ Pending(d, i)'
    <3> SUFFICES ASSUME NEW i \in Floor(m) + 1 .. frameCount, NEW d \in 1 .. Len(defers), Pending(d, i)
                 PROVE  i <= frameCount' /\ Pending(d, i)'
      OBVIOUS
    <3>1. PICK x \in DOMAIN deferStack[i] : deferStack[i][x] = d
      BY <1>0, EndNames
    <3>2. i \in 1 .. FramesMax /\ i <= frameCount'
      BY <1>0, <1>1, <1>2
    <3>3. CASE i = frameCount
      <4>1. cpp'[m + 2].fn = "defers" /\ m + 2 \in DOMAIN cpp' /\ cpp'[m + 2].todo = s
        BY <1>7, <1>8, <1>11
      <4>2. s = deferStack[i] /\ cpp'[m + 2].saved = i
        BY <3>3, <1>5, <1>7, <1>8
      <4> QED BY <3>1, <3>2, <4>1, <4>2 DEF Pending
    <3>4. CASE i # frameCount
      BY <3>1, <3>2, <3>4, <1>5 DEF Pending
    <3> QED BY <3>3, <3>4
  <2>11. \A i \in Floor(m) + 1 .. frameCount' : i \in ending => i \in ending'
    <3> SUFFICES ASSUME NEW i \in Floor(m) + 1 .. frameCount', i \in ending
                 PROVE  i \in ending'
      OBVIOUS
    <3>1. i = frameCount
      BY <2>6, <1>0, EndNames
    <3>2. (Stop(cpp[m + 1]))' = Stop(Top)
      BY <1>14 DEF Stop
    <3> QED BY <3>1, <3>2, <1>11, <1>14 DEF ending, Ends
  <2>12. OneGenerator'
    <3>1. \A k \in DOMAIN cpp' : cpp'[k].fn = "resume" =>
            /\ k \in DOMAIN cpp /\ cpp[k].fn = "resume"
            /\ k < Len(cpp) \/ k = Len(cpp')
      <4>1. \A k \in DOMAIN cpp : k < Len(cpp) \/ k = m + 1
        BY <1>2
      <4>2. Top.fn # "resume" /\ r.fn # "resume"
        BY <1>7 DEF Ends
      <4> QED BY <4>1, <4>2, <1>2, <1>8, <1>11
    <3>2. frameCount' <= frameCount /\ frameCount' \in Nat
      BY <1>1, <1>2
    <3> QED BY <3>1, <3>2, <1>1, GeneratorKept
  <2> QED BY <2>1, <2>2, <2>3, <2>4, <2>5, <2>7, <2>8, <2>9, <2>10, <2>11, <2>12, <1>1, <1>2, <1>9,
             <1>0, <1>10, <1>13, FramesLeft
<1>21. Reported' /\ TopFrames' /\ OverClosed'
  <2>1. Top' = r /\ cpp' # <<>>
    <3>1. Len(cpp') # 0
      BY <1>2, <1>8
    <3> QED BY <3>1, <1>8, <1>9, NextTop
  <2>2. Reported'
    BY <2>1, <1>1, <1>2, <1>7 DEF Reported, Ends, Calls
  <2>3. TopFrames'
    BY <2>1, <1>1, <1>2, <1>7 DEF TopFrames, Calls
  <2>4. OverClosed'
    BY <2>1, <1>1, <1>2 DEF OverClosed
  <2> QED BY <2>2, <2>3, <2>4
<1>22. Above(m)'
  BY <1>19, <1>20, <1>21 DEF Above
<1> QED BY <1>2, <1>9, <1>12, <1>22, Assembled

\* A frame with nothing pending is dropped, and the unwinding goes on.
LEMMA FrameDropped ==
  ASSUME IInv, cpp # <<>>, Ends(Top), deferStack[frameCount] = <<>>,
         Top.fn # "return", Stop(Top) < frameCount,
         UnwindFrame, UNCHANGED <<handlers, ret, generator, currentGen, defers, used>>
  PROVE  IInv'
<1> SUFFICES ASSUME NEW m, m = Len(cpp) - 1, NEW F, F = Floor(m), NEW S, S = Stop(Top)
             PROVE  IInv'
  OBVIOUS
<1>1. /\ frameCount' = frameCount - 1
      /\ gone' = gone \cup {frames[i] : i \in frameCount - 1 + 1 .. frameCount}
      /\ cpp' = cpp /\ deferStack' = deferStack
      /\ frames' = frames /\ kind' = kind /\ trys' = trys
      /\ handlers' = handlers /\ ret' = ret /\ generator' = generator /\ currentGen' = currentGen
      /\ defers' = defers /\ used' = used
  BY DEF UnwindFrame, DropTo
<1>2. /\ m \in Nat \ {0} /\ Len(cpp) = m + 1 /\ DOMAIN cpp = 1 .. m + 1 /\ cpp \in Seq(Record)
      /\ m \in DOMAIN cpp /\ m + 1 \in DOMAIN cpp /\ cpp[m].fn = "execute" /\ ret = "none"
      /\ Top = cpp[m + 1] /\ Top \in Record /\ Lim(m + 1) = frameCount
      /\ F \in Nat /\ frameCount \in Nat /\ frameCount <= FramesMax /\ FramesMax \in Nat
      /\ StopAt(m + 1) /\ ClosedAt(m + 1) /\ ExitAt(m + 1) /\ NestedAt(m + 1)
  BY EndFacts DEF IInv, TypeOK
<1>3. /\ S \in Nat /\ F <= S /\ S < frameCount
      /\ m > 1 /\ cpp[m - 1].fn = "defers" => F < S
  BY EndRoom
<1>4. /\ frameCount' \in Nat /\ F <= frameCount' /\ S <= frameCount' /\ frameCount' <= frameCount
      /\ frameCount' < frameCount
      /\ frameCount \in F + 1 .. frameCount /\ frameCount \in S + 1 .. frameCount
      /\ \A i \in frameCount' + 1 .. frameCount : i = frameCount
      /\ m > 1 /\ cpp[m - 1].fn = "defers" => F < frameCount'
      /\ frameCount' = frameCount - 1
  <2> SUFFICES ASSUME NEW c, c = frameCount'
               PROVE  /\ c \in Nat /\ F <= c /\ S <= c /\ c <= frameCount
                      /\ c < frameCount
                      /\ frameCount \in F + 1 .. frameCount /\ frameCount \in S + 1 .. frameCount
                      /\ \A i \in c + 1 .. frameCount : i = frameCount
                      /\ m > 1 /\ cpp[m - 1].fn = "defers" => F < c
                      /\ c = frameCount - 1
    OBVIOUS
  <2>1. c = frameCount - 1
    BY <1>1
  <2>2. F < frameCount
    BY <1>2, <1>3
  <2> QED BY <2>1, <2>2, <1>2, <1>3
<1>5. open[frameCount] = 0
  <2>1. Top.fn = "catch" => S = Top.handler.frame
    BY DEF Stop
  <2>2. Floor(m + 1 - 1) = F
    BY <1>2, Steps
  <2> QED BY <2>1, <2>2, <1>2, <1>4 DEF ClosedAt, Ends
<1>6. /\ TypeOK' /\ Kept(m) /\ FramesAbove(m)' /\ Floor(m)' = F
      /\ \A i \in 1 .. frameCount' : i \in 1 .. frameCount /\ open'[i] = open[i] /\ runs'[i] = runs[i]
      /\ \A j \in DOMAIN handlers : handlers[j].frame <= frameCount'
  <2>1. gone' = gone \cup {frames[i] : i \in frameCount' + 1 .. frameCount}
    BY <1>1
  <2>2. \A i \in frameCount' + 1 .. frameCount : open[i] = 0 /\ deferStack[i] = <<>>
    BY <1>4, <1>5
  <2>3. \A i \in Floor(m) + 1 .. frameCount' : i \notin ending
    <3>1. \A i \in Floor(m) + 1 .. frameCount' : i \in Floor(m) + 1 .. frameCount /\ i # frameCount
      BY <1>2, <1>4
    <3> QED BY <3>1, EndNames
  <2>4. cpp' \in Seq(Record) /\ m - 1 <= Len(cpp') /\ Len(cpp') <= m + 1 /\ Len(cpp') = m + 1
    BY <1>1, <1>2
  <2>5. ret' \in {"none", "ok", "error", "exit"} /\ ret' # "exit" /\ \A k \in DOMAIN cpp' : cpp'[k] = cpp[k]
    BY <1>1, <1>2
  <2> QED BY <2>1, <2>2, <2>3, <2>4, <2>5, <1>1, <1>4, EndLeft DEF EndStep
<1>7. Lim(m + 1)' = frameCount'
  BY <1>1, <1>2 DEF Lim
<1>8. StopAt(m + 1)'
  <2>1. Floor(m + 1 - 1)' = F /\ Floor(m + 1 - 1) = F
    BY <1>2, <1>6, Steps
  <2>2. ~(m + 1 < Len(cpp'))
    BY <1>1, <1>2
  <2>3. (Stop(cpp[m + 1]))' = S
    BY <1>1, <1>2 DEF Stop
  <2> QED BY <2>1, <2>2, <2>3, <1>1, <1>2, <1>4, <1>7 DEF StopAt
<1>9. ClosedAt(m + 1)'
  <2>1. Floor(m + 1 - 1)' = F /\ Floor(m + 1 - 1) = F
    BY <1>2, <1>6, Steps
  <2>2. ASSUME Top.fn = "unwind"
        PROVE  \A i \in F + 1 .. frameCount' : open'[i] = 0
    <3>1. \A i \in F + 1 .. frameCount : open[i] = 0
      BY <2>1, <2>2, <1>2 DEF ClosedAt
    <3>2. \A i \in F + 1 .. frameCount' : i \in F + 1 .. frameCount /\ i \in 1 .. frameCount'
      BY <1>2, <1>4
    <3> QED BY <3>1, <3>2, <1>6
  <2>3. ASSUME Top.fn = "catch", NEW h, h = Top.handler
        PROVE  /\ \A i \in h.frame + 1 .. frameCount' : open'[i] = 0
               /\ h.act = frames'[h.frame] /\ open'[h.frame] = h.depth + 1
               /\ \A j \in DOMAIN handlers' : handlers'[j].frame = h.frame => handlers'[j].depth < h.depth
    <3>1. /\ \A i \in h.frame + 1 .. frameCount : open[i] = 0
          /\ h.act = frames[h.frame] /\ open[h.frame] = h.depth + 1
          /\ \A j \in DOMAIN handlers : handlers[j].frame = h.frame => handlers[j].depth < h.depth
      BY <2>3, <1>2 DEF ClosedAt
    <3>2. h.frame = S
      BY <2>3 DEF Stop
    <3>3. F < h.frame
      BY <2>1, <2>3, <1>2 DEF StopAt
    <3>4. h.frame \in 1 .. frameCount'
      BY <3>2, <3>3, <1>2, <1>3, <1>4
    <3>5. \A i \in h.frame + 1 .. frameCount' : i \in h.frame + 1 .. frameCount /\ i \in 1 .. frameCount'
      BY <3>2, <1>2, <1>3, <1>4
    <3> QED BY <3>1, <3>4, <3>5, <1>1, <1>6
  <2>4. cpp'[m + 1] = Top
    BY <1>1, <1>2
  <2> QED BY <2>1, <2>2, <2>3, <2>4, <1>7 DEF ClosedAt
<1>10. ExitAt(m + 1)'
  <2>1. ASSUME ExitFree(m + 1, frameCount)
        PROVE  ExitFree(m + 1, frameCount)'
    <3>1. (\A i \in 1 .. frameCount : open[i] # 0 =>
             \E p \in 1 .. m + 1 - 1 : cpp[p].fn = "posted" /\ i <= cpp[p].caller.n)'
      BY <2>1, <1>1, <1>6 DEF ExitFree
    <3>2. /\ \A j \in 1 .. m + 1 - 1 : cpp'[j].fn # "defers"
          /\ \A j \in 1 .. m + 1 - 1 : cpp'[j].fn = "resume" =>
               \E p \in j .. m + 1 - 1 : cpp'[p].fn = "posted"
      BY <2>1, <1>1 DEF ExitFree
    <3> QED BY <3>1, <3>2 DEF ExitFree
  <2> QED BY <2>1, <1>1, <1>2, <1>7 DEF ExitAt
<1>11. StackAbove(m)'
  <2>1. m > 1 => DeferFrameAt(m - 1)'
    <3>1. ASSUME m > 1, cpp[m - 1].fn = "defers"
          PROVE  F < frameCount' /\ F < frameCount /\ runs'[F + 1] = runs[F + 1]
      <4>1. F < frameCount' /\ F < frameCount
        BY <3>1, <1>2, <1>4
      <4>2. F + 1 \in 1 .. frameCount'
        BY <4>1, <1>2, <1>4
      <4> QED BY <4>1, <4>2, <1>6
    <3> QED BY <3>1, <1>2, <1>6, FrameKept
  <2>2. cpp'[m + 1].fn = "unwind" => cpp'[m + 1].target = cpp[m].base
    BY <1>1, <1>2, EndRoom
  <2>3. Ends(cpp'[m + 1]) /\ Len(cpp') = m + 1
    BY <1>1, <1>2
  <2> QED BY <2>1, <2>2, <2>3, <1>2, <1>6, <1>8, <1>9, <1>10, EndOnTop
<1>12. Reported' /\ TopFrames' /\ OverClosed'
  <2>1. Top' = Top /\ cpp' # <<>>
    BY <1>1 DEF Top
  <2>2. Reported'
    BY <2>1, <1>1 DEF IInv, Reported
  <2>3. Top.fn # "execute" /\ Top.fn # "defers" /\ ~Calls(Top)
    BY DEF Ends, Calls
  <2>4. ~Calls(Top')
    BY <2>1, <2>3
  <2>5. TopFrames' /\ OverClosed'
    BY <2>1, <2>3, <2>4 DEF TopFrames, OverClosed
  <2> QED BY <2>2, <2>5
<1>13. Above(m)'
  BY <1>6, <1>11, <1>12 DEF Above
<1> QED BY <1>2, <1>6, <1>13, Assembled

\* The try block that catches is the innermost one left: with its catch clause
\* the function goes on.
LEMMA CatchKeeps ==
  ASSUME IInv, Catch
  PROVE  IInv'
<1> SUFFICES ASSUME NEW m, m = Len(cpp) - 1, NEW F, F = Floor(m), NEW h, h = Top.handler
             PROVE  IInv'
  OBVIOUS
<1>1. cpp # <<>> /\ Top.fn = "catch" /\ Ends(Top) /\ Stop(Top) = h.frame /\ Top.fn # "return"
  BY DEF Catch, Resumed, Ends, Stop
<1>2. /\ m \in Nat \ {0} /\ Len(cpp) = m + 1 /\ DOMAIN cpp = 1 .. m + 1
      /\ m \in DOMAIN cpp /\ cpp[m].fn = "execute" /\ ret = "none"
      /\ Top = cpp[m + 1] /\ Top \in Record /\ Lim(m + 1) = frameCount
      /\ Below \in Seq(Record) /\ Len(Below) = m /\ (\A k \in 1 .. m : Below[k] = cpp[k])
      /\ Last(Below) = cpp[m]
      /\ F \in Nat /\ frameCount \in Nat /\ frameCount <= FramesMax /\ FramesMax \in Nat
      /\ StopAt(m + 1) /\ ClosedAt(m + 1)
  BY <1>1, EndFacts
<1>3. h \in Handler /\ h.frame \in Nat /\ h.depth \in Nat /\ h.frame <= frameCount /\ F < h.frame
  <2>1. h \in Handler
    BY <1>1, <1>2, RecordFacts
  <2>2. Stop(Top) <= frameCount
    BY <1>1, EndRoom
  <2>3. Floor(m + 1 - 1) = F
    BY <1>2, Steps
  <2> QED BY <2>1, <2>2, <2>3, <1>1, <1>2 DEF Handler, StopAt
<1>4. CASE frameCount > h.frame
  <2>1. UnwindFrame /\ UNCHANGED <<handlers, ret, generator, currentGen, defers, used>>
    BY <1>4, <1>1 DEF Catch, CatchUnwinds, genVars
  <2>2. Stop(Top) < frameCount
    BY <1>1, <1>2, <1>3, <1>4
  <2> QED BY <2>1, <2>2, <1>1, DefersBegin, FrameDropped
<1>5. CASE ~(frameCount > h.frame)
  <2>1. frameCount = h.frame /\ frameCount \in 1 .. frameCount /\ F < frameCount /\ frameCount # 0
    BY <1>2, <1>3, <1>5
  <2>2. /\ trys' = [trys EXCEPT ![Current] = h.depth] /\ cpp' = Below
        /\ frames' = frames /\ frameCount' = frameCount /\ kind' = kind /\ gone' = gone
        /\ deferStack' = deferStack /\ ret' = ret /\ handlers' = handlers
        /\ generator' = generator /\ currentGen' = currentGen /\ defers' = defers /\ used' = used
    BY <1>1, <1>2, <1>5 DEF Catch, CatchUnwinds, genVars
  <2>3. /\ open'[frameCount] = h.depth /\ open[frameCount] = trys[Current]
        /\ \A i \in 1 .. frameCount : i # frameCount => open'[i] = open[i]
    BY <2>1, <2>2, <1>3, TopOpens
  <2>4. /\ open[frameCount] = h.depth + 1
        /\ \A j \in DOMAIN handlers : handlers[j].frame = frameCount => handlers[j].depth < h.depth
    BY <2>1, <1>1, <1>2 DEF ClosedAt
  <2>5. kind[Current] # "gen"
    <3>1. Current \in 1 .. Len(kind)
      BY <2>1 DEF Current, IInv, Live
    <3>2. kind[Current] = "gen" => trys[Current] = 0
      BY <3>1 DEF IInv, OneGenerator
    <3>3. h.depth + 1 # 0
      BY <1>3
    <3> QED BY <3>2, <3>3, <2>3, <2>4
  <2>6. \A i \in Floor(m) + 1 .. frameCount : i \notin ending
    <3>1. ~(Stop(Top) < frameCount)
      BY <1>1, <1>2, <1>3, <1>5
    <3> QED BY <3>1, <1>1, EndNames
  <2>7. \A k \in DOMAIN cpp : k > m => Ends(cpp[k])
    <3>1. \A k \in DOMAIN cpp : k > m => k = m + 1
      BY <1>2
    <3> QED BY <3>1, <1>1, <1>2
  <2>8. HandlersKept(m)
    BY <2>2, <1>2, SameHandlers
  <2>9. HandlersRise' /\ handlers' \in Seq(Handler)
    BY <2>2 DEF IInv, HandlersRise, TypeOK
  <2>10. \A j \in DOMAIN handlers' :
           /\ handlers'[j].frame <= frameCount
           /\ handlers'[j].act = frames[handlers'[j].frame]
           /\ handlers'[j].depth < open'[handlers'[j].frame]
    <3>1. \A j \in DOMAIN handlers :
            /\ handlers[j].frame \in 1 .. frameCount
            /\ handlers[j].act = frames[handlers[j].frame]
            /\ handlers[j].depth < open[handlers[j].frame]
      BY DEF IInv, HandlersLive
    <3>2. \A j \in DOMAIN handlers : handlers[j].frame <= frameCount
      BY <3>1, <1>2
    <3>3. \A j \in DOMAIN handlers : handlers[j].depth < open'[handlers[j].frame]
      BY <3>1, <2>3, <2>4
    <3> QED BY <3>1, <3>2, <3>3, <2>2
  <2>11. \A i \in Floor(m) + 1 .. frameCount : \A d \in Nat : d < open'[i] =>
           \E j \in DOMAIN handlers' : handlers'[j].frame = i /\ handlers'[j].depth = d
    <3> SUFFICES ASSUME NEW i \in Floor(m) + 1 .. frameCount, NEW d \in Nat, d < open'[i]
                 PROVE  <<i, d>> \in handled
      BY <2>2 DEF handled
    <3>1. i \in 1 .. frameCount
      BY <1>1, EndNames
    <3>2. CASE i = frameCount
      <4>1. d < h.depth /\ d < h.depth + 1
        BY <3>2, <2>3, <1>3
      <4>2. <<i, d>> \in handled \cup caught
        BY <3>1, <3>2, <4>1, <2>4 DEF IInv, OpenHandled
      <4>3. d # h.depth
        BY <4>1, <1>3
      <4>4. <<i, d>> \notin caught
        BY <4>3, <1>1, EndNames
      <4> QED BY <4>2, <4>4
    <3>3. CASE i # frameCount
      <4>1. d < open[i]
        BY <3>1, <3>3, <2>3
      <4>2. <<i, d>> \in handled \cup caught
        BY <3>1, <4>1 DEF IInv, OpenHandled
      <4>3. <<i, d>> \notin caught
        BY <3>3, <2>1, <1>1, EndNames
      <4> QED BY <4>2, <4>3
    <3> QED BY <3>2, <3>3
  <2>12. frameCount = FramesMax /\ runs[FramesMax] # "defer" => handlers' = <<>>
    BY <2>2 DEF IInv, LastSlot
  <2>13. cpp' \in Seq(Record) /\ Len(cpp') = m /\ \A k \in 1 .. m : cpp'[k] = cpp[k]
    BY <2>2, <1>2
  <2>14. ret' = "none" /\ used' \in [trys : Nat, yields : Nat]
    BY <2>2, <1>2 DEF IInv, TypeOK
  <2> QED BY <2>1, <2>2, <2>5, <2>6, <2>7, <2>8, <2>9, <2>10, <2>11, <2>12, <2>13, <2>14, <1>2, <1>3,
             TryChanges DEF TryStep
<1> QED BY <1>4, <1>5

\* The execute() at m is left: what called it finds its handlers as they were.
LeaveStep(m) ==
  /\ m = Len(cpp) - 1 /\ Top.fn # "catch"
  /\ UNCHANGED <<frames, kind, trys, deferStack, defers, used, handlers, currentGen>>
  /\ frameCount' \in Nat /\ frameCount' <= frameCount
  /\ gone' = gone \cup {frames[i] : i \in frameCount' + 1 .. frameCount}
  /\ \A i \in frameCount' + 1 .. frameCount : open[i] = 0 /\ deferStack[i] = <<>>
  /\ \/ generator' = generator
     \/ generator' = [generator EXCEPT !.state = "completed"]
  /\ cpp' = Front(Below) /\ ret' \in {"ok", "error", "exit"}
  /\ ret' = "exit" => ExitFree(Len(cpp) + 1, frameCount)'
  /\ \A i \in Floor(m) + 1 .. frameCount' : i \notin ending /\ (ret' # "exit" => open[i] = 0)
  /\ m = 1 => frameCount' = 0
  /\ m > 1 /\ Calls(cpp[m - 1]) => frameCount' = Floor(m)
  /\ m > 1 /\ cpp[m - 1].fn = "defers" => frameCount' \in {Floor(m), Floor(m) + 1}

\* What ends functions is done: its execute() goes on, or has ended as well.
LEMMA EndLeaves ==
  ASSUME IInv, cpp # <<>>, Ends(Top), NEW m, LeaveStep(m)
  PROVE  IInv'
<1>z. SUFFICES ASSUME NEW F, F = Floor(m), NEW c, c = frameCount'
               PROVE  IInv'
  OBVIOUS
<1>0. /\ m = Len(cpp) - 1 /\ cpp' = Front(Below)
      /\ frameCount' \in Nat /\ frameCount' <= frameCount
  BY DEF LeaveStep
<1>a. frames' = frames /\ handlers' = handlers /\ ret' # "none"
  BY DEF LeaveStep
<1>b. /\ m = 1 => c = 0
      /\ m > 1 /\ Calls(cpp[m - 1]) => c = F
      /\ m > 1 /\ cpp[m - 1].fn = "defers" => c \in {F, F + 1}
  BY <1>z DEF LeaveStep
<1>d. /\ ret' = "exit" => ExitFree(Len(cpp) + 1, frameCount)'
      /\ ret' # "exit" => \A i \in F + 1 .. c : open[i] = 0
  BY <1>z DEF LeaveStep
<1>1. /\ m \in Nat \ {0} /\ Len(cpp) = m + 1 /\ DOMAIN cpp = 1 .. m + 1 /\ cpp \in Seq(Record)
      /\ m \in DOMAIN cpp /\ cpp[m].fn = "execute"
      /\ cpp' \in Seq(Record) /\ Len(cpp') = m - 1 /\ (\A k \in 1 .. m - 1 : cpp'[k] = cpp[k])
      /\ F \in Nat /\ frameCount \in Nat /\ frameCount <= FramesMax /\ FramesMax \in Nat
  <2>1. cpp \in Seq(Record)
    BY DEF IInv, TypeOK
  <2> QED BY <2>1, <1>0, <1>z, EndFacts
<1>2. /\ m = 1 => F = 0
      /\ m > 1 => Waits(cpp[m - 1]) /\ Mark(cpp[m - 1]) = F
      /\ m > 1 /\ cpp[m - 1].fn = "defers" => cpp[m - 1].saved = F
      /\ m > 1 /\ Calls(cpp[m - 1]) => cpp[m - 1].caller.n = F
  BY <1>0, <1>z, EndRoom
<1>3. c \in Nat /\ c <= frameCount /\ F <= c
  <2>1. m = 1 \/ m > 1
    BY <1>1
  <2>2. m > 1 => c \in {F, F + 1}
    BY <1>2, <1>b DEF Waits
  <2>3. m = 1 => c = 0 /\ F = 0
    BY <1>b, <1>2
  <2>4. c \in Nat /\ c <= frameCount
    BY <1>0, <1>z
  <2> QED BY <2>1, <2>2, <2>3, <2>4, <1>1
<1>4. m > 1 => m - 1 \in 1 .. m - 1 /\ m - 1 \in DOMAIN cpp /\ cpp[m - 1] \in Record
  <2>1. m > 1 => m - 1 \in 1 .. m - 1 /\ m - 1 \in 1 .. m + 1
    BY <1>1
  <2> QED BY <2>1, <1>1
<1>5. /\ TypeOK' /\ Kept(m) /\ FramesAbove(m)' /\ Floor(m)' = F
      /\ \A i \in 1 .. c : i \in 1 .. frameCount /\ open'[i] = open[i] /\ runs'[i] = runs[i]
      /\ \A j \in DOMAIN handlers : handlers[j].frame <= c
  <2>1. m - 1 <= Len(cpp') /\ Len(cpp') <= m + 1
    BY <1>1
  <2>2. DOMAIN cpp' = 1 .. m - 1
    <3>1. cpp' \in Seq(Record) /\ Len(cpp') = m - 1
      BY <1>1
    <3> QED BY <3>1
  <2>3. \A k \in DOMAIN cpp' : cpp'[k] = cpp[k]
    BY <2>2, <1>1
  <2>4. Floor(m) <= frameCount'
    BY <1>3, <1>z
  <2>6. /\ m = Len(cpp) - 1 /\ Top.fn # "catch"
        /\ UNCHANGED <<frames, kind, trys, deferStack, defers, used, handlers, currentGen>>
    BY DEF LeaveStep
  <2>7. /\ gone' = gone \cup {frames[i] : i \in frameCount' + 1 .. frameCount}
        /\ \A i \in frameCount' + 1 .. frameCount : open[i] = 0 /\ deferStack[i] = <<>>
    BY DEF LeaveStep
  <2>8. /\ generator' = generator \/ generator' = [generator EXCEPT !.state = "completed"]
        /\ ret' \in {"none", "ok", "error", "exit"}
    BY DEF LeaveStep
  <2>9. \A i \in Floor(m) + 1 .. frameCount' : i \notin ending
    BY DEF LeaveStep
  <2>5. EndStep(m)
    BY <2>1, <2>3, <2>4, <2>6, <2>7, <2>8, <2>9, <1>0, <1>1, <1>d, Zenon DEF EndStep
  <2> QED BY <2>5, <1>z, EndLeft
<1>6. m > 1 => DeferFrameAt(m - 1)'
  <2> SUFFICES ASSUME m > 1, cpp[m - 1].fn = "defers"
               PROVE  /\ c > F => runs'[F + 1] = "defer"
                      /\ ~(m - 1 < Len(cpp'))
    BY <1>1, <1>2, <1>4, <1>z DEF DeferFrameAt
  <2>1. DeferFrameAt(m - 1)
    BY <1>4 DEF IInv, DeferFrames
  <2>2. c > F => F + 1 \in 1 .. c /\ frameCount > F
    BY <1>1, <1>3
  <2>3. c > F => runs'[F + 1] = "defer"
    BY <2>1, <2>2, <1>2, <1>5 DEF DeferFrameAt
  <2> QED BY <2>3, <1>1
<1>7. m > 1 => CallerAt(m - 1)'
  <2> SUFFICES ASSUME m > 1, Calls(cpp[m - 1])
               PROVE  CallerAt(m - 1)'
    BY <1>1, <1>4 DEF CallerAt
  <2>a. CallerAt(m - 1)
    BY <1>4 DEF IInv, CallersKept
  <2>b. m - 1 + 1 = m
    BY <1>1, Steps
  <2>c. m - 1 < Len(cpp) /\ ~(m - 1 < Len(cpp')) /\ m - 1 # Len(cpp)
    <3>1. m - 1 < m + 1 /\ ~(m - 1 < m - 1) /\ m - 1 # m + 1
      BY <1>1, Steps
    <3>2. Len(cpp) = m + 1 /\ Len(cpp') = m - 1
      BY <1>1
    <3> QED BY <3>1, <3>2, Zenon
  <2>1. CallerAt(m - 1) /\ m - 1 < Len(cpp) /\ m - 1 + 1 = m /\ ~(m - 1 < Len(cpp'))
    BY <2>a, <2>b, <2>c, Zenon
  <2>2. /\ cpp[m].floor \in Nat /\ cpp[m].floor <= Len(handlers)
        /\ \A j \in DOMAIN handlers : j <= cpp[m].floor <=> handlers[j].frame <= F
    BY <1>1, <1>z, FloorFacts
  <2>3. Len(handlers) \in Nat /\ DOMAIN handlers = 1 .. Len(handlers)
    BY TypeFacts DEF IInv, TypeFact
  <2>4. Len(handlers) = cpp[m].floor
    <3> SUFFICES ASSUME NEW f, f = cpp[m].floor
                 PROVE  Len(handlers) = f
      OBVIOUS
    <3>0. f \in Nat /\ f <= Len(handlers)
      BY <2>2
    <3>1. Len(handlers) > f => Len(handlers) \in DOMAIN handlers
      BY <3>0, <2>3
    <3>2. \A j \in DOMAIN handlers : handlers[j].frame <= F
      <4>1. \A j \in DOMAIN handlers : handlers[j].frame <= c
        BY <1>5
      <4>2. c = F
        BY <1>b
      <4> QED BY <4>1, <4>2
    <3>3. \A j \in DOMAIN handlers : j <= cpp[m].floor
      BY <2>2, <3>2
    <3>4. Len(handlers) \in DOMAIN handlers => Len(handlers) <= f
      BY <3>3
    <3> QED BY <3>0, <3>1, <3>4, <2>3

  <2>5. Len(handlers) = Len(cpp[m - 1].caller.handlers)
    BY <2>1, <2>4 DEF CallerAt
  <2>6. cpp'[m - 1] = cpp[m - 1]
    BY <1>1, <1>4
  <2> QED BY <2>1, <2>5, <2>6, <1>a DEF CallerAt
<1>8. StackAbove(m)'
  BY <1>1, <1>5, <1>6, <1>7, PopOnTop
<1>9. Reported' /\ TopFrames' /\ OverClosed'
  <2>1. CASE m = 1
    <3>1. cpp' = <<>>
      BY <2>1, <1>1
    <3>2. ret' = "exit" => \A k \in DOMAIN cpp' : cpp'[k].fn # "defers"
      BY <3>1
    <3> QED BY <3>1, <3>2, <1>a DEF Reported, TopFrames, OverClosed
  <2>2. CASE m # 1
    <3>1. m > 1
      BY <2>2, <1>1
    <3>2. Top' = cpp[m - 1] /\ cpp' # <<>>
      <4>1. Len(cpp') # 0
        <5>1. m - 1 # 0
          BY <3>1, <1>1
        <5> QED BY <5>1, <1>1
      <4>2. cpp'[Len(cpp')] = cpp[m - 1]
        BY <3>1, <1>1, <1>4
      <4> QED BY <4>1, <4>2, <1>5, NextTop
    <3>3. Top'.fn # "execute" /\ ~Ends(Top')
      BY <3>1, <3>2, <1>2, <1>4, RecordFacts
    <3>4. ret' = "exit" => \A k \in DOMAIN cpp' : cpp'[k].fn # "defers"
      <4> SUFFICES ASSUME ret' = "exit", NEW k \in DOMAIN cpp'
                   PROVE  cpp'[k].fn # "defers"
        OBVIOUS
      <4>1. ExitFree(Len(cpp) + 1, frameCount)'
        BY <1>d
      <4>2. k \in 1 .. m - 1 /\ Len(cpp') + 1 - 1 = m - 1
        BY <1>1
      <4> QED BY <4>1, <4>2 DEF ExitFree
    <3>5. Reported'
      BY <3>2, <3>3, <3>4, <1>a DEF Reported
    <3>6. Calls(cpp[m - 1]) => c = F /\ cpp[m - 1].caller.n = F
      BY <3>1, <1>2, <1>b
    <3>7. cpp[m - 1].fn = "defers" => c <= F + 1 /\ cpp[m - 1].saved = F
      <4>1. cpp[m - 1].fn = "defers" => c \in {F, F + 1}
        BY <3>1, <1>b
      <4>2. F \in Nat
        BY <1>1
      <4> QED BY <4>1, <4>2, <3>1, <1>2
    <3>8. TopFrames'
      BY <3>2, <3>3, <3>6, <3>7, <1>a, <1>z DEF TopFrames
    <3>9. OverClosed'
      <4> SUFFICES ASSUME cpp[m - 1].fn = "defers", NEW i \in F + 1 .. c
                   PROVE  open'[i] = 0
        BY <3>2, <3>7, <1>z DEF OverClosed
      <4>1. m - 1 \in DOMAIN cpp'
        BY <3>1, <1>1, <1>4
      <4>2. ret' # "exit"
        BY <3>4, <4>1, <1>1, <1>4, <3>1
      <4>3. open[i] = 0
        BY <4>2, <1>d
      <4>4. i \in 1 .. c
        BY <1>1, <1>3
      <4> QED BY <4>3, <4>4, <1>5
    <3> QED BY <3>5, <3>8, <3>9
  <2> QED BY <2>1, <2>2
<1>10. Above(m)'
  BY <1>5, <1>8, <1>9 DEF Above
<1> QED BY <1>1, <1>5, <1>10, Assembled

LEMMA ExitFreeFacts ==
  ASSUME NEW k, NEW n, NEW a, ExitFree(a, n), a - 1 = k
  PROVE  /\ \A j \in 1 .. k : cpp[j].fn # "defers"
         /\ \A j \in 1 .. k : cpp[j].fn = "resume" => \E p \in j .. k : cpp[p].fn = "posted"
         /\ \A i \in 1 .. n : open[i] # 0 =>
              \E p \in 1 .. k : cpp[p].fn = "posted" /\ i <= cpp[p].caller.n
  BY Zenon DEF ExitFree

LEMMA UnwindKeeps ==
  ASSUME IInv, Unwind
  PROVE  IInv'
<1>1. /\ cpp # <<>> /\ Top.fn = "unwind" /\ ret = "none" /\ Ends(Top)
      /\ UNCHANGED <<handlers, generator, currentGen, defers, used>> /\ Stop(Top) = Top.target
  BY DEF Unwind, Resumed, Ends, Stop, genVars
<1>2. PICK m : m = Len(cpp) - 1
  OBVIOUS
<1>3. /\ m \in Nat \ {0} /\ m \in Nat /\ Len(cpp) = m + 1 /\ Top = cpp[m + 1] /\ m + 1 - 1 = m
      /\ frameCount \in Nat /\ Floor(m) \in Nat /\ Stop(Top) \in Nat /\ Stop(Top) <= frameCount
      /\ Len(Front(Below)) = m - 1 /\ (\A k \in 1 .. m - 1 : Front(Below)[k] = cpp[k])
      /\ cpp[m].fn = "execute" /\ Top.how \in {"error", "exit"}
      /\ Lim(m + 1) = frameCount /\ ClosedAt(m + 1) /\ ExitAt(m + 1)
  <2>1. m \in Nat \ {0} /\ Len(cpp) = m + 1 /\ Top = cpp[m + 1] /\ frameCount \in Nat /\ Floor(m) \in Nat
    BY <1>1, <1>2, EndFacts
  <2>2. m + 1 - 1 = m
    BY <2>1, Steps
  <2>3. Stop(Top) \in Nat /\ Stop(Top) <= frameCount
    BY <1>1, <1>2, EndRoom
  <2>4. Len(Front(Below)) = m - 1 /\ \A k \in 1 .. m - 1 : Front(Below)[k] = cpp[k]
    BY <1>1, <1>2, EndFacts
  <2>5. cpp[m].fn = "execute" /\ Lim(m + 1) = frameCount /\ ClosedAt(m + 1) /\ ExitAt(m + 1) /\ Top \in Record
    BY <1>1, <1>2, EndFacts
  <2>6. Top.how \in {"error", "exit"}
    BY <2>5, <1>1, RecordFacts
  <2> QED BY <2>1, <2>2, <2>3, <2>4, <2>5, <2>6
<1>4. CASE frameCount > Top.target
  <2>1. UnwindFrame /\ UNCHANGED ret
    BY <1>4 DEF Unwind
  <2>2. Stop(Top) < frameCount
    BY <1>4, <1>1, <1>3
  <2>3. CASE deferStack[frameCount] # <<>>
    BY <2>1, <2>2, <2>3, <1>1, DefersBegin
  <2>4. CASE deferStack[frameCount] = <<>>
    BY <2>1, <2>2, <2>4, <1>1, FrameDropped
  <2> QED BY <2>3, <2>4
<1>5. CASE ~(frameCount > Top.target)
  <2>1. /\ cpp' = Front(Below) /\ ret' = Top.how
        /\ UNCHANGED <<frames, frameCount, kind, trys, gone, deferStack>>
    BY <1>5 DEF Unwind, frameVars
  <2>2. frameCount = Top.target /\ frameCount = Stop(Top)
    BY <1>5, <1>1, <1>3
  <2>3. Top.target = cpp[m].base
    BY <1>1, <1>2, EndRoom
  <2>4. gone' = gone \cup {frames[i] : i \in frameCount' + 1 .. frameCount}
    BY <2>1, <1>3
  <2>5. \A i \in frameCount' + 1 .. frameCount : open[i] = 0 /\ deferStack[i] = <<>>
    BY <2>1, <1>3
  <2>6. ret' = "exit" => ExitFree(Len(cpp) + 1, frameCount)'
    <3> SUFFICES ASSUME ret' = "exit"
                 PROVE  ExitFree(Len(cpp) + 1, frameCount)'
      OBVIOUS
    <3>0. ExitFree(m + 1, frameCount)
      BY <2>1, <1>1, <1>3 DEF ExitAt
    <3>1. /\ \A j \in 1 .. m : cpp[j].fn # "defers"
          /\ \A j \in 1 .. m : cpp[j].fn = "resume" => \E p \in j .. m : cpp[p].fn = "posted"
          /\ \A i \in 1 .. frameCount : open[i] # 0 =>
               \E p \in 1 .. m : cpp[p].fn = "posted" /\ i <= cpp[p].caller.n
      BY <3>0, <1>3, ExitFreeFacts
    <3>2. Len(cpp') + 1 - 1 = m - 1
      BY <2>1, <1>3
    <3>3. \A j \in 1 .. m - 1 : j \in 1 .. m /\ cpp'[j] = cpp[j]
      BY <2>1, <1>3
    <3>4. m - 1 \in Nat /\ \A p \in 1 .. m : p # m => p \in 1 .. m - 1
      BY <1>3
    <3>5. cpp[m].fn # "posted"
      BY <1>3
    <3>6. (\A j \in 1 .. Len(cpp) + 1 - 1 : cpp[j].fn # "defers")'
      BY <3>1, <3>2, <3>3
    <3>7. (\A j \in 1 .. Len(cpp) + 1 - 1 : cpp[j].fn = "resume" =>
             \E p \in j .. Len(cpp) + 1 - 1 : cpp[p].fn = "posted")'
      <4> SUFFICES ASSUME NEW j \in 1 .. m - 1, cpp[j].fn = "resume"
                   PROVE  \E p \in j .. m - 1 : cpp'[p].fn = "posted"
        BY <3>2, <3>3
      <4>1. PICK p \in j .. m : cpp[p].fn = "posted"
        BY <3>1, <3>3
      <4>2. p \in 1 .. m
        BY <4>1, <1>3
      <4>3. p \in 1 .. m - 1
        BY <4>1, <4>2, <3>4, <3>5
      <4>4. p \in j .. m - 1
        BY <4>1, <4>3
      <4> QED BY <4>1, <4>3, <4>4, <3>3
    <3>8. (\A i \in 1 .. frameCount : open[i] # 0 =>
             \E p \in 1 .. Len(cpp) + 1 - 1 : cpp[p].fn = "posted" /\ i <= cpp[p].caller.n)'
      <4> SUFFICES ASSUME NEW i \in 1 .. frameCount, open[i] # 0
                   PROVE  \E p \in 1 .. m - 1 : cpp'[p].fn = "posted" /\ i <= cpp'[p].caller.n
        BY <3>2, <2>1 DEF open
      <4>1. PICK p \in 1 .. m : cpp[p].fn = "posted" /\ i <= cpp[p].caller.n
        BY <3>1
      <4>3. p \in 1 .. m - 1
        BY <4>1, <3>4, <3>5
      <4> QED BY <4>1, <4>3, <3>3
    <3> QED BY <3>6, <3>7, <3>8 DEF ExitFree
  <2>7. \A i \in Floor(m) + 1 .. frameCount' : i \notin ending /\ (ret' # "exit" => open[i] = 0)
    <3>1. \A i \in Floor(m) + 1 .. frameCount : open[i] = 0
      BY <1>1, <1>3 DEF ClosedAt
    <3>2. ~(Stop(Top) < frameCount)
      BY <2>2, <1>3
    <3>3. \A i \in Floor(m) + 1 .. frameCount : i \notin ending
      BY <3>2, <1>1, <1>2, EndNames
    <3> QED BY <3>1, <3>3, <2>1
  <2>8. m = 1 => frameCount' = 0
    BY <2>1, <2>2, <2>3, <1>1, <1>2, EndRoom
  <2>9. m > 1 /\ Calls(cpp[m - 1]) => frameCount' = Floor(m)
    BY <2>1, <2>2, <2>3, <1>1, <1>2, EndRoom
  <2>10. m > 1 /\ cpp[m - 1].fn = "defers" => frameCount' \in {Floor(m), Floor(m) + 1}
    BY <2>1, <2>2, <2>3, <1>1, <1>2, EndRoom
  <2>11. frameCount' \in Nat /\ frameCount' <= frameCount /\ ret' \in {"ok", "error", "exit"}
    BY <2>1, <1>3
  <2>12. Top.fn # "catch"
    BY <1>1
  <2> QED BY <2>1, <2>4, <2>5, <2>6, <2>7, <2>8, <2>9, <2>10, <2>11, <2>12, <1>1, <1>2, EndLeaves DEF LeaveStep
<1> QED BY <1>4, <1>5

\* The safety net of OP_RETURN finds no handler to drop.
LEMMA NoneDropped ==
  ASSUME NEW hs \in Seq(Handler), NEW n \in Nat, \A j \in DOMAIN hs : hs[j].frame < n
  PROVE  WithoutFrame(hs, n) = hs
<1> DEFINE Ok(x) == /\ \A i \in x + 1 .. Len(hs) : hs[i].frame >= n
                    /\ x > 0 => hs[x].frame < n
<1>1. Len(hs) \in Nat /\ DOMAIN hs = 1 .. Len(hs) /\ \A i \in 1 .. Len(hs) : hs[i].frame \in Nat
  <2>1. Len(hs) \in Nat /\ DOMAIN hs = 1 .. Len(hs) /\ \A i \in 1 .. Len(hs) : hs[i] \in Handler
    OBVIOUS
  <2> QED BY <2>1 DEF Handler
<1>2. Ok(Len(hs)) /\ Len(hs) \in 0 .. Len(hs)
  BY <1>1
<1>3. \A x \in 0 .. Len(hs) : Ok(x) => x = Len(hs)
  <2> SUFFICES ASSUME NEW x \in 0 .. Len(hs), Ok(x), x # Len(hs)
               PROVE  FALSE
    OBVIOUS
  <2>1. Len(hs) \in x + 1 .. Len(hs) /\ Len(hs) \in 1 .. Len(hs)
    <3> HIDE DEF Ok
    <3>1. \A L \in Nat : x \in 0 .. L /\ x # L => L \in x + 1 .. L /\ L \in 1 .. L
      OBVIOUS
    <3> QED BY <3>1, <1>1, Zenon
  <2>2. hs[Len(hs)].frame >= n /\ hs[Len(hs)].frame < n /\ hs[Len(hs)].frame \in Nat
    BY <2>1, <1>1
  <2> QED BY <2>2
<1>4. (CHOOSE x \in 0 .. Len(hs) : Ok(x)) = Len(hs)
  <2> HIDE DEF Ok
  <2> QED BY <1>2, <1>3
<1>5. WithoutFrame(hs, n) = SubSeq(hs, 1, Len(hs))
  BY <1>4 DEF WithoutFrame
<1>6. SubSeq(hs, 1, Len(hs)) = hs
  BY <1>1
<1> QED BY <1>5, <1>6

\* OP_RETURN, once the deferred calls are done.
LEMMA ReturnFacts ==
  ASSUME IInv, Resumed("return", "none"), NEW m, m = Len(cpp) - 1
  PROVE  /\ cpp # <<>> /\ Top.fn = "return" /\ ret = "none" /\ Ends(Top)
         /\ m \in Nat \ {0} /\ Floor(m) \in Nat /\ frameCount \in Nat /\ Floor(m) < frameCount
         /\ Last(Below).base = cpp[m].base /\ cpp[m].base \in Nat
         /\ frameCount \in 1 .. frameCount /\ open[frameCount] = 0
         /\ WithoutFrame(handlers, frameCount) = handlers
         /\ currentGen.set /\ frameCount - 1 = currentGen.base =>
              m > 1 /\ cpp[m - 1].fn = "resume" /\ frameCount - 1 = Floor(m)
<1>1. cpp # <<>> /\ Top.fn = "return" /\ ret = "none" /\ Ends(Top)
  BY DEF Resumed, Ends
<1>2. /\ m \in Nat \ {0} /\ Floor(m) \in Nat /\ frameCount \in Nat
      /\ Last(Below) = cpp[m] /\ Lim(m + 1) = frameCount /\ ClosedAt(m + 1) /\ Top = cpp[m + 1]
      /\ m \in DOMAIN cpp /\ DOMAIN cpp = 1 .. m + 1 /\ cpp[m].fn = "execute"
  BY <1>1, EndFacts
<1>3. Floor(m) < frameCount /\ cpp[m].base \in Nat
  BY <1>1, EndRoom
<1>4. open[frameCount] = 0
  BY <1>1, <1>2 DEF ClosedAt
<1>5. WithoutFrame(handlers, frameCount) = handlers
  <2>1. \A j \in DOMAIN handlers : /\ handlers[j].frame \in 1 .. frameCount
                                   /\ handlers[j].depth < open[handlers[j].frame]
                                   /\ handlers[j].depth \in Nat
    <3>1. \A j \in DOMAIN handlers : handlers[j].depth \in Nat
      BY TypeFacts DEF IInv, TypeFact, Handler
    <3> QED BY <3>1 DEF IInv, HandlersLive
  <2>2. \A j \in DOMAIN handlers : handlers[j].frame < frameCount
    BY <2>1, <1>2, <1>4
  <2> QED BY <2>2, <1>2, NoneDropped DEF IInv, TypeOK
<1>6. currentGen.set /\ frameCount - 1 = currentGen.base =>
        m > 1 /\ cpp[m - 1].fn = "resume" /\ frameCount - 1 = Floor(m)
  <2> SUFFICES ASSUME currentGen.set, frameCount - 1 = currentGen.base
               PROVE  m > 1 /\ cpp[m - 1].fn = "resume" /\ frameCount - 1 = Floor(m)
    OBVIOUS
  <2>1. PICK k \in DOMAIN cpp : cpp[k].fn = "resume"
    BY DEF IInv, Resumes, resumed
  <2>2. ResumeAt(k)
    BY DEF IInv, Resumes
  <2>3. cpp[k].caller.n = frameCount - 1
    BY <2>1, <2>2 DEF ResumeAt
  <2>4. cpp[k].caller.n + 1 = frameCount
    BY <2>3, <1>2
  <2>5. k >= m - 1
    <3>1. frameCount > Floor(m)
      BY <1>2, <1>3
    <3> QED BY <2>1, <2>4, <3>1, <1>2, NamesAbove
  <2>6. k # m /\ k # m + 1
    BY <2>1, <1>1, <1>2
  <2>7. k \in 1 .. m + 1
    BY <1>2
  <2>8. k = m - 1 /\ m > 1
    BY <2>5, <2>6, <2>7, <1>2
  <2>9. Calls(cpp[m - 1])
    BY <2>1, <2>8 DEF Calls
  <2>10. cpp[m - 1].caller.n = Floor(m)
    BY <2>8, <2>9, <1>1, EndRoom
  <2> QED BY <2>1, <2>3, <2>8, <2>10
<1>7. frameCount \in 1 .. frameCount
  BY <1>2, <1>3
<1> QED BY <1>1, <1>2, <1>3, <1>4, <1>5, <1>6, <1>7

LEMMA ReturningKeeps ==
  ASSUME IInv, Returning
  PROVE  IInv'
<1>0. PICK m : m = Len(cpp) - 1
  OBVIOUS
<1>1. /\ Resumed("return", "none") /\ UNCHANGED <<defers, used>>
      /\ cpp # <<>> /\ Top.fn = "return" /\ ret = "none" /\ Ends(Top)
      /\ m \in Nat \ {0} /\ Floor(m) \in Nat /\ frameCount \in Nat /\ Floor(m) < frameCount
      /\ Last(Below).base = cpp[m].base /\ cpp[m].base \in Nat
      /\ frameCount \in 1 .. frameCount /\ open[frameCount] = 0
      /\ WithoutFrame(handlers, frameCount) = handlers
  <2>1. Resumed("return", "none") /\ UNCHANGED <<defers, used>>
    BY DEF Returning
  <2> QED BY <2>1, <1>0, ReturnFacts
<1> DEFINE isGen == currentGen.set /\ frameCount - 1 = currentGen.base
<1>2. isGen => m > 1 /\ cpp[m - 1].fn = "resume" /\ frameCount - 1 = Floor(m)
  BY <1>0, <1>1, ReturnFacts
<1>3. CASE deferStack[frameCount] # <<>>
  <2>1. UnwindFrame /\ UNCHANGED <<handlers, ret, generator, currentGen>>
    BY <1>3 DEF Returning, genVars
  <2> QED BY <2>1, <1>1, <1>3, DefersBegin
<1>4. CASE deferStack[frameCount] = <<>>
  <2>1. /\ UNCHANGED <<frames, kind, trys, deferStack, defers, used, handlers, currentGen>>
        /\ frameCount' = frameCount - 1
        /\ gone' = gone \cup {frames[i] : i \in frameCount - 1 + 1 .. frameCount}
        /\ generator' = generator \/ generator' = [generator EXCEPT !.state = "completed"]
        /\ IF isGen \/ frameCount - 1 <= cpp[m].base
             THEN cpp' = Front(Below) /\ ret' = "ok"
             ELSE cpp' = Below /\ ret' = "none"
    <3>1. /\ DropTo(frameCount - 1) /\ UNCHANGED <<deferStack, currentGen>>
          /\ handlers' = handlers
          /\ generator' = generator \/ generator' = [generator EXCEPT !.state = "completed"]
          /\ IF isGen \/ frameCount - 1 <= cpp[m].base
               THEN cpp' = Front(Below) /\ ret' = "ok"
               ELSE cpp' = Below /\ ret' = "none"
      BY <1>1, <1>4 DEF Returning
    <3> QED BY <3>1, <1>1 DEF DropTo
  <2> HIDE DEF isGen
  <2> SUFFICES ASSUME NEW F, F = Floor(m), NEW n, n = frameCount, NEW c, c = frameCount'
               PROVE  IInv'
    OBVIOUS
  <2>2. n \in Nat /\ F \in Nat /\ F < n /\ c = n - 1 /\ c \in Nat /\ c + 1 = n /\ F <= c /\ c <= n
    <3>1. n \in Nat /\ F \in Nat /\ F < n /\ c = n - 1
      BY <1>1, <2>1
    <3>2. c \in Nat /\ c + 1 = n /\ F <= c /\ c <= n
      BY <3>1
    <3> QED BY <3>1, <3>2
  <2>3. /\ \A i \in c + 1 .. n : i = n
        /\ \A i \in F + 1 .. c : i \in F + 1 .. n /\ i # n
    BY <2>2
  <2>4. \A i \in frameCount' + 1 .. frameCount : open[i] = 0 /\ deferStack[i] = <<>>
    BY <2>3, <1>1, <1>4
  <2>5. gone' = gone \cup {frames[i] : i \in frameCount' + 1 .. frameCount}
    BY <2>1
  <2>6. \A i \in F + 1 .. c : /\ i \notin ending /\ open[i] \in Nat
                              /\ runs[i] = "defer" => ~(open[i] > 0)
    <3>1. \A i \in F + 1 .. c : i \notin ending /\ (runs[i] = "defer" => ~(open[i] > 0)) /\ i \in 1 .. frameCount
      BY <2>3, <1>0, <1>1, EndNames
    <3>2. \A i \in F + 1 .. c : open[i] \in Nat
      <4>1. \A i \in 1 .. frameCount : open[i] \in Nat
        <5>1. \A i \in 1 .. frameCount : frames[i] \in 1 .. Len(trys) /\ trys \in Seq(Nat)
          BY DEF IInv, TypeOK, Live
        <5>2. \A i \in 1 .. frameCount : trys[frames[i]] \in Nat
          BY <5>1
        <5> QED BY <5>2 DEF open
      <4> QED BY <4>1, <3>1
    <3> QED BY <3>1, <3>2
  <2>7. CASE isGen \/ frameCount - 1 <= cpp[m].base
    <3>1. cpp' = Front(Below) /\ ret' = "ok"
      BY <2>1, <2>7
    <3>2. isGen => m > 1 /\ cpp[m - 1].fn = "resume" /\ c = F
      BY <1>2, <2>2
    <3>3. ~isGen => c <= cpp[m].base
      BY <2>7, <2>1
    <3>4. /\ m = 1 => cpp[m].base = 0 /\ F = 0
          /\ m > 1 /\ cpp[m - 1].fn = "defers" => cpp[m].base = F + 1 /\ cpp[m - 1].saved = F
          /\ m > 1 /\ Calls(cpp[m - 1]) => cpp[m].base = F
          /\ m > 1 => Waits(cpp[m - 1])
      BY <1>0, <1>1, EndRoom
    <3>5. m = 1 => frameCount' = 0
      BY <3>2, <3>3, <3>4, <2>2
    <3>6. m > 1 /\ Calls(cpp[m - 1]) => frameCount' = Floor(m)
      BY <3>2, <3>3, <3>4, <2>2
    <3>7. m > 1 /\ cpp[m - 1].fn = "defers" => frameCount' \in {Floor(m), Floor(m) + 1}
      <4>1. m > 1 /\ cpp[m - 1].fn = "defers" => c <= F + 1
        BY <3>2, <3>3, <3>4, <2>2
      <4> QED BY <4>1, <2>2
    <3>8. \A i \in Floor(m) + 1 .. frameCount' : i \notin ending /\ (ret' # "exit" => open[i] = 0)
      <4> SUFFICES ASSUME NEW i \in F + 1 .. c
                   PROVE  open[i] = 0
        BY <2>6
      <4>1. m > 1 /\ cpp[m - 1].fn = "defers" /\ c = F + 1
        <5>1. m = 1 \/ m > 1
          BY <1>1
        <5>2. c # F
          BY <2>2
        <5>3. m # 1
          BY <3>5, <3>4, <5>2
        <5>4. ~Calls(cpp[m - 1])
          BY <3>6, <5>1, <5>2, <5>3
        <5>5. m > 1 /\ cpp[m - 1].fn = "defers"
          BY <5>1, <5>3, <5>4, <3>4 DEF Waits
        <5> QED BY <5>5, <5>2, <3>7
      <4>2. i = F + 1 /\ n > F
        BY <4>1, <2>2
      <4>3. m - 1 \in DOMAIN cpp
        <5>1. DOMAIN cpp = 1 .. m + 1 /\ m \in Nat \ {0}
          BY <1>0, <1>1, EndFacts
        <5>2. m - 1 \in 1 .. m + 1
          BY <4>1, <5>1
        <5> QED BY <5>1, <5>2
      <4>4. runs[F + 1] = "defer"
        BY <4>1, <4>2, <4>3, <3>4 DEF IInv, DeferFrames, DeferFrameAt
      <4> QED BY <4>2, <4>4, <2>6
    <3>9. ret' = "exit" => ExitFree(Len(cpp) + 1, frameCount)'
      BY <3>1
    <3>10. frameCount' \in Nat /\ frameCount' <= frameCount /\ ret' \in {"ok", "error", "exit"}
      BY <2>2, <3>1
    <3>11. Top.fn # "catch"
      BY <1>1
    <3> QED BY <1>0, <1>1, <2>1, <2>4, <2>5, <3>1, <3>5, <3>6, <3>7, <3>8, <3>9, <3>10, <3>11, EndLeaves DEF LeaveStep
  <2>8. CASE ~(isGen \/ frameCount - 1 <= cpp[m].base)
    <3>1. cpp' = Below /\ ret' = "none"
      BY <2>1, <2>8
    <3>2. /\ m \in DOMAIN cpp /\ cpp[m].fn = "execute" /\ Len(cpp) = m + 1
          /\ Below \in Seq(Record) /\ Len(Below) = m /\ \A k \in 1 .. m : Below[k] = cpp[k]
      BY <1>0, <1>1, EndFacts
    <3>3. cpp' \in Seq(Record) /\ Len(cpp') = m /\ DOMAIN cpp' = 1 .. m /\ \A k \in 1 .. m : cpp'[k] = cpp[k]
      BY <3>1, <3>2
    <3>4. c > cpp[m].base /\ cpp[m].base \in Nat
      BY <2>8, <2>1, <2>2, <1>1
    <3>5. m - 1 <= Len(cpp') /\ Len(cpp') <= m + 1 /\ m <= Len(cpp') /\ Len(cpp') # 0
      BY <3>3, <1>1
    <3>6. ret' \in {"none", "ok", "error", "exit"} /\ (ret' = "exit" => ExitFree(Len(cpp) + 1, frameCount)')
      BY <3>1
    <3>7. /\ TypeOK' /\ Kept(m) /\ FramesAbove(m)' /\ Floor(m)' = Floor(m)
          /\ \A i \in 1 .. frameCount' : runs'[i] = runs[i]
      <4>1. Top.fn # "catch"
        BY <1>1
      <4>2. \A i \in Floor(m) + 1 .. frameCount' : i \notin ending
        BY <2>6
      <4>3. frameCount' \in Nat /\ Floor(m) <= frameCount' /\ frameCount' <= frameCount
        BY <2>2
      <4> QED BY <1>0, <1>1, <2>1, <2>4, <2>5, <3>3, <3>5, <3>6, <4>1, <4>2, <4>3, EndLeft DEF EndStep
    <3>8. m > 1 => DeferFrameAt(m - 1)'
      <4>1. m > 1 /\ cpp[m - 1].fn = "defers" => cpp[m].base = F + 1
        BY <1>0, <1>1, EndRoom
      <4>2. m > 1 /\ cpp[m - 1].fn = "defers" => F < c /\ F < n /\ F + 1 \in 1 .. c
        BY <4>1, <3>4, <2>2
      <4>3. m > 1 /\ cpp[m - 1].fn = "defers" => /\ Floor(m) < frameCount' /\ Floor(m) < frameCount
                                                 /\ runs'[Floor(m) + 1] = runs[Floor(m) + 1]
        BY <4>2, <3>7
      <4> QED BY <4>3, <3>2, <3>7, FrameKept
    <3>9. StackAbove(m)'
      BY <3>2, <3>3, <3>7, <3>8, ExecOnTop
    <3>10. Top' = cpp[m] /\ cpp' # <<>>
      <4>1. cpp'[Len(cpp')] = cpp[m]
        BY <3>3, <1>1
      <4> QED BY <4>1, <3>5, <3>7, NextTop
    <3>11. Top'.fn = "execute" /\ ~Ends(Top') /\ ~Calls(Top') /\ Top'.fn # "defers"
      BY <3>2, <3>10 DEF Ends, Calls
    <3>12. Reported'
      BY <3>1, <3>11 DEF Reported
    <3>13. TopFrames'
      <4>1. Floor(Len(cpp))' < frameCount'
        <5>1. Floor(Len(cpp))' = Floor(m)'
          BY <3>3 DEF Floor
        <5>2. F <= cpp[m].base
          BY <3>2, FloorFacts
        <5>3. F < c
          BY <5>2, <3>4, <2>2
        <5> QED BY <5>1, <5>3, <3>7
      <4> QED BY <4>1, <3>11 DEF TopFrames
    <3>14. OverClosed'
      BY <3>11 DEF OverClosed
    <3>15. Above(m)'
      BY <3>7, <3>9, <3>12, <3>13, <3>14 DEF Above
    <3> QED BY <3>2, <3>7, <3>15, Assembled
  <2> QED BY <2>7, <2>8
<1> QED BY <1>3, <1>4

\* runDefers is on top: below it what ends the function, and its execute().
LEMMA DeferRoom ==
  ASSUME IInv, cpp # <<>>, Top.fn = "defers"
  PROVE  \E m \in Nat \ {0} : Len(cpp) = m + 2
<1> SUFFICES ASSUME NEW n, n = Len(cpp)
             PROVE  \E m \in Nat \ {0} : n = m + 2
  OBVIOUS
<1>1. n \in Nat \ {0} /\ DOMAIN cpp = 1 .. n /\ Top = cpp[n] /\ n \in DOMAIN cpp
  <2>1. cpp \in Seq(Record)
    BY DEF IInv, TypeOK
  <2>2. Top = cpp[n] /\ n \in Nat \ {0}
    BY <2>1, FrontLast DEF Top
  <2> QED BY <2>1, <2>2
<1>2. n # 1 /\ (n > 1 => Ends(cpp[n - 1]))
  BY <1>1 DEF IInv, Nested, NestedAt
<1>3. n > 1 /\ n - 1 \in DOMAIN cpp /\ n - 1 \in Nat \ {0}
  BY <1>1, <1>2
<1>4. n - 1 # 1
  BY <1>2, <1>3 DEF IInv, Nested, NestedAt, Ends
<1>5. n - 2 \in Nat \ {0} /\ n = n - 2 + 2
  BY <1>3, <1>4, <1>1
<1> QED BY <1>5

\* The shape of the stack while deferred calls run.
LEMMA DeferFacts ==
  ASSUME IInv, cpp # <<>>, Top.fn = "defers", NEW m \in Nat \ {0}, Len(cpp) = m + 2
  PROVE  /\ DOMAIN cpp = 1 .. m + 2 /\ cpp \in Seq(Record)
         /\ m \in DOMAIN cpp /\ m + 1 \in DOMAIN cpp /\ m + 2 \in DOMAIN cpp
         /\ cpp[m].fn = "execute" /\ Ends(cpp[m + 1]) /\ Top = cpp[m + 2] /\ Top \in Record
         /\ Top.todo \in Seq(Nat) /\ Top.act \in Nat /\ Top.saved \in Nat /\ Lim(m + 1) = Top.saved
         /\ Floor(m) \in Nat /\ Floor(m) < Top.saved /\ Top.saved <= frameCount
         /\ frameCount \in Nat /\ frameCount <= FramesMax /\ FramesMax \in Nat
         /\ frameCount <= Top.saved + 1 /\ (ret = "none" => frameCount = Top.saved)
         /\ ret # "exit"
         /\ Below \in Seq(Record) /\ Len(Below) = m + 1 /\ (\A k \in 1 .. m + 1 : Below[k] = cpp[k])
         /\ NestedAt(m + 1) /\ StopAt(m + 1) /\ ClosedAt(m + 1) /\ ExitAt(m + 1)
         /\ NestedAt(m + 2) /\ TodoAt(m + 2) /\ DeferFrameAt(m + 2)
         /\ cpp[m + 1].fn # "return" => Stop(cpp[m + 1]) < Top.saved
         /\ Top.saved \in ending
<1>1. DOMAIN cpp = 1 .. m + 2 /\ cpp \in Seq(Record) /\ Top = cpp[m + 2] /\ Top \in Record
  <2>1. cpp \in Seq(Record)
    BY DEF IInv, TypeOK
  <2>2. Top = cpp[m + 2] /\ Top \in Record
    BY <2>1, FrontLast DEF Top
  <2> QED BY <2>1, <2>2
<1>2. /\ m + 1 # m + 2 /\ m + 1 + 1 = m + 2 /\ m + 1 - 1 = m /\ m + 2 - 1 = m + 1 /\ m + 1 > 1
      /\ m + 2 > 1 /\ m + 2 # 1 /\ m + 1 # 1 /\ m + 1 < m + 2
  OBVIOUS
<1>3. m \in DOMAIN cpp /\ m + 1 \in DOMAIN cpp /\ m + 2 \in DOMAIN cpp
  BY <1>1
<1>4. /\ NestedAt(m + 1) /\ StopAt(m + 1) /\ ClosedAt(m + 1) /\ ExitAt(m + 1)
      /\ NestedAt(m + 2) /\ TodoAt(m + 2) /\ DeferFrameAt(m + 2) /\ MarkAt(m + 2)
  BY <1>3 DEF IInv, Nested, EndsStop, EndsClosed, ExitsFree, TodosExact, DeferFrames, MarksHold
<1>5. Ends(cpp[m + 1])
  BY <1>1, <1>2, <1>4 DEF NestedAt
<1>6. cpp[m].fn = "execute"
  BY <1>2, <1>4, <1>5 DEF NestedAt
<1>7. Top.todo \in Seq(Nat) /\ Top.act \in Nat /\ Top.saved \in Nat
  BY <1>1, RecordFacts
<1>8. Lim(m + 1) = Top.saved
  BY <1>1, <1>2 DEF Lim, Mark
<1>9. Floor(m) \in Nat /\ frameCount \in Nat /\ frameCount <= FramesMax /\ FramesMax \in Nat
  BY <1>3, <1>6, BelowExec, TypeFacts DEF IInv, TypeFact
<1>10. Waits(cpp[m + 2]) /\ Mark(cpp[m + 2]) = Top.saved
  BY <1>1 DEF Waits, Mark
<1>11. Floor(m) < Top.saved
  <2>1. m + 2 \in m .. Len(cpp)
    OBVIOUS
  <2>2. Mark(cpp[m + 2]) > Floor(m)
    BY <2>1, <1>3, <1>6, <1>10, AboveExec
  <2> QED BY <2>2, <1>7, <1>9, <1>10
<1>12. Top.saved <= frameCount
  BY <1>4, <1>10 DEF MarkAt
<1>13. frameCount <= Top.saved + 1 /\ (ret = "none" => frameCount = Top.saved)
  BY DEF IInv, TopFrames
<1>14. ret # "exit"
  BY <1>1, <1>3 DEF IInv, Reported
<1>15. Below \in Seq(Record) /\ Len(Below) = m + 1 /\ \A k \in 1 .. m + 1 : Below[k] = cpp[k]
  <2>1. Len(cpp) - 1 = m + 1
    OBVIOUS
  <2> QED BY <2>1, <1>1, FrontLast DEF Below
<1>16. cpp[m + 1].fn # "return" => Stop(cpp[m + 1]) < Top.saved
  <2>1. m + 1 < Len(cpp)
    BY <1>2
  <2> QED BY <2>1, <1>4, <1>5, <1>8 DEF StopAt, Ends
<1>17. Top.saved \in ending
  BY <1>3, <1>5, <1>8, <1>16 DEF ending, Ends
<1> QED BY <1>1, <1>3, <1>4, <1>5, <1>6, <1>7, <1>8, <1>9, <1>11, <1>12, <1>13, <1>14, <1>15, <1>16, <1>17

\* What the frames above the floor of m have to do with the records above it.
LEMMA DeferNames ==
  ASSUME IInv, cpp # <<>>, Top.fn = "defers", NEW m \in Nat \ {0}, Len(cpp) = m + 2,
         NEW i \in Floor(m) + 1 .. frameCount
  PROVE  /\ i \in 1 .. frameCount /\ i \in 1 .. FramesMax /\ i \in Nat
         /\ i \in ending => i = Top.saved
         /\ runs[i] = "defer" /\ open[i] > 0 => i = frameCount
         /\ i \in resumed \/ runs[i] # "gen"
         /\ \A d : Pending(d, i) =>
              \/ \E x \in DOMAIN deferStack[i] : deferStack[i][x] = d
              \/ i = Top.saved /\ \E x \in DOMAIN Top.todo : Top.todo[x] = d
<1>1. /\ DOMAIN cpp = 1 .. m + 2 /\ m \in DOMAIN cpp /\ cpp[m].fn = "execute" /\ Ends(cpp[m + 1])
      /\ Top = cpp[m + 2] /\ Lim(m + 1) = Top.saved /\ Top.saved \in Nat /\ Top.saved <= frameCount
      /\ Floor(m) \in Nat /\ frameCount \in Nat /\ frameCount <= FramesMax /\ FramesMax \in Nat
      /\ TodoAt(m + 2)
  BY DeferFacts
<1>2. i \in 1 .. frameCount /\ i \in 1 .. FramesMax /\ i \in Nat /\ i > Floor(m) /\ i <= frameCount
  BY <1>1
<1>3. \A k \in DOMAIN cpp : k > m => k = m + 1 \/ k = m + 2
  BY <1>1
<1>4. ASSUME i \in ending
      PROVE  i = Top.saved
  <2>1. PICK k \in DOMAIN cpp : /\ Lim(k) = i
                                /\ \/ cpp[k].fn = "return"
                                   \/ cpp[k].fn \in {"catch", "unwind"} /\ Stop(cpp[k]) < Lim(k)
    BY <1>4 DEF ending
  <2>2. Ends(cpp[k])
    BY <2>1 DEF Ends
  <2>3. k > m
    BY <2>1, <2>2, <1>1, <1>2, NamesAbove
  <2>4. k # m + 2
    BY <2>2, <1>1 DEF Ends
  <2> QED BY <2>1, <2>3, <2>4, <1>1, <1>3
<1>5. ASSUME runs[i] = "defer", open[i] > 0
      PROVE  i = frameCount
  <2> SUFFICES ASSUME i < frameCount
               PROVE  FALSE
    BY <1>1, <1>2
  <2>1. i \in marks
    BY <1>2, <1>5 DEF IInv, DeferOpens
  <2>2. PICK k \in DOMAIN cpp : Waits(cpp[k]) /\ Mark(cpp[k]) = i
    BY <2>1 DEF marks
  <2>3. k > m
    BY <2>2, <1>1, <1>2, NamesAbove
  <2>4. k = m + 2
    BY <2>2, <2>3, <1>1, <1>3 DEF Ends, Waits, Calls
  <2>5. i = Top.saved
    BY <2>2, <2>4, <1>1 DEF Mark
  <2> QED BY <2>5, <1>1, <1>5 DEF TodoAt
<1>6. i \in resumed \/ runs[i] # "gen"
  BY <1>2 DEF IInv, Resumes
<1>7. ASSUME NEW d, Pending(d, i)
      PROVE  \/ \E x \in DOMAIN deferStack[i] : deferStack[i][x] = d
             \/ i = Top.saved /\ \E x \in DOMAIN Top.todo : Top.todo[x] = d
  <2>1. ASSUME NEW k \in DOMAIN cpp, cpp[k].fn = "defers", cpp[k].saved = i
        PROVE  k = m + 2
    <3>1. k > m
      BY <2>1, <1>1, <1>2, NamesAbove
    <3> QED BY <2>1, <3>1, <1>1, <1>3 DEF Ends
  <2> QED BY <2>1, <1>1, <1>7 DEF Pending
<1> QED BY <1>2, <1>4, <1>5, <1>6, <1>7

\* runDefers gives up the frame of a deferred call that is over, or returns.
LEMMA DeferLeft ==
  ASSUME IInv, cpp # <<>>, Top.fn = "defers", NEW m \in Nat \ {0}, Len(cpp) = m + 2,
         UNCHANGED <<frames, kind, trys, deferStack, defers, used, handlers, generator, currentGen>>,
         frameCount' = Top.saved, ret' = "none",
         gone' = gone \cup {frames[i] : i \in Top.saved + 1 .. frameCount},
         \A i \in Top.saved + 1 .. frameCount : open[i] = 0,
         cpp' = cpp \/ (cpp' = Below /\ Top.todo = <<>>)
  PROVE  IInv'
<1> SUFFICES ASSUME NEW F, F = Floor(m), NEW s, s = Top.saved
             PROVE  IInv'
  OBVIOUS
<1>1. /\ DOMAIN cpp = 1 .. m + 2 /\ cpp \in Seq(Record)
      /\ m \in DOMAIN cpp /\ m + 1 \in DOMAIN cpp /\ m + 2 \in DOMAIN cpp
      /\ cpp[m].fn = "execute" /\ Ends(cpp[m + 1]) /\ Top = cpp[m + 2] /\ Lim(m + 1) = s
      /\ F \in Nat /\ s \in Nat /\ F < s /\ s <= frameCount
      /\ frameCount \in Nat /\ frameCount <= FramesMax /\ FramesMax \in Nat /\ frameCount <= s + 1
      /\ Below \in Seq(Record) /\ Len(Below) = m + 1 /\ (\A k \in 1 .. m + 1 : Below[k] = cpp[k])
  BY DeferFacts
<1>2. /\ NestedAt(m + 1) /\ StopAt(m + 1) /\ ClosedAt(m + 1) /\ ExitAt(m + 1)
      /\ TodoAt(m + 2) /\ DeferFrameAt(m + 2)
      /\ cpp[m + 1].fn # "return" => Stop(cpp[m + 1]) < s
  BY DeferFacts
<1>3. /\ frames' = frames /\ kind' = kind /\ trys' = trys /\ deferStack' = deferStack /\ defers' = defers
      /\ used' = used /\ handlers' = handlers /\ generator' = generator /\ currentGen' = currentGen
  OBVIOUS
<1>4. /\ cpp' \in Seq(Record) /\ \A k \in 1 .. m + 1 : k \in DOMAIN cpp' /\ cpp'[k] = cpp[k]
      /\ Len(cpp') = m + 1 \/ (Len(cpp') = m + 2 /\ cpp'[m + 2] = cpp[m + 2])
      /\ cpp' # cpp => Len(cpp') = m + 1 /\ Top.todo = <<>>
      /\ \A k \in DOMAIN cpp' : k \in DOMAIN cpp /\ cpp'[k] = cpp[k]
  <2>1. CASE cpp' = cpp
    BY <2>1, <1>1
  <2>2. CASE cpp' = Below /\ Top.todo = <<>>
    <3>1. DOMAIN cpp' = 1 .. m + 1 /\ \A k \in 1 .. m + 1 : k \in 1 .. m + 2
      BY <2>2, <1>1
    <3> QED BY <2>2, <3>1, <1>1
  <2> QED BY <2>1, <2>2
<1>5. /\ m + 1 # m + 2 /\ m + 1 + 1 = m + 2 /\ m + 1 - 1 = m
      /\ \A k \in 1 .. m - 1 : k \in 1 .. m + 1 /\ k # m + 1 /\ k # m + 2
      /\ m \in 1 .. m + 1 /\ m + 1 \in 1 .. m + 1
      /\ \A k \in 1 .. m + 2 : k \in 1 .. m + 1 \/ k = m + 2
      /\ m - 1 <= m + 1 /\ m - 1 <= m + 2
  OBVIOUS
<1>6. \A i \in 1 .. s : i \in 1 .. frameCount /\ open'[i] = open[i] /\ runs'[i] = runs[i]
  <2>1. \A i \in 1 .. s : i \in 1 .. frameCount
    BY <1>1
  <2> QED BY <2>1, <1>3 DEF open, runs
<1>7. TypeOK'
  <2>1. frameCount' \in 0 .. FramesMax
    BY <1>1
  <2>2. gone' \subseteq 1 .. Len(kind)
    <3>1. \A i \in s + 1 .. frameCount : i \in 1 .. frameCount
      BY <1>1
    <3>2. \A i \in 1 .. frameCount : frames[i] \in 1 .. Len(kind)
      BY DEF IInv, Live
    <3>3. gone \subseteq 1 .. Len(kind)
      BY DEF IInv, TypeOK
    <3> QED BY <3>1, <3>2, <3>3
  <2> QED BY <2>1, <2>2, <1>3, <1>4 DEF IInv, TypeOK
<1>8. \A j \in DOMAIN handlers : handlers[j].frame <= s
  <2>1. \A j \in DOMAIN handlers : /\ handlers[j].frame \in 1 .. frameCount
                                   /\ handlers[j].depth < open[handlers[j].frame]
                                   /\ handlers[j].depth \in Nat
    BY TypeFacts DEF IInv, HandlersLive, TypeFact
  <2>2. \A j \in DOMAIN handlers : handlers[j].frame \notin s + 1 .. frameCount
    BY <2>1
  <2> QED BY <2>1, <2>2, <1>1
<1>9. Floor(m)' = F
  <2>1. m # 1 => m - 1 \in 1 .. m - 1
    OBVIOUS
  <2> QED BY <2>1, <1>4, <1>5 DEF Floor, Mark
<1>10. Kept(m)
  <2>1. HandlersKept(m)
    BY <1>1, <1>3, SameHandlers
  <2>2. Len(defers) \in Nat /\ Len(kind) \in Nat
    BY TypeFacts DEF IInv, TypeFact
  <2>3. (\A d \in Len(defers) + 1 .. Len(defers') : FALSE)
        /\ Len(kind) <= Len(kind') /\ Len(defers) <= Len(defers')
    BY <2>2, <1>3
  <2>4. \A i \in 1 .. F : i \in 1 .. s
    BY <1>1
  <2>5. m - 1 <= Len(cpp') /\ F <= frameCount'
    BY <1>1, <1>4, <1>5
  <2> QED BY <2>1, <2>3, <2>4, <2>5, <1>3, <1>4, <1>5, <1>6 DEF Kept, HandlersKept
<1>11. Lim(m + 1)' = s /\ cpp'[m + 1] = cpp[m + 1] /\ (Stop(cpp[m + 1]))' = Stop(cpp[m + 1])
  <2>1. cpp'[m + 1] = cpp[m + 1]
    BY <1>4, <1>5
  <2>2. CASE Len(cpp') = m + 1
    BY <2>1, <2>2 DEF Lim, Stop
  <2>3. CASE Len(cpp') = m + 2 /\ cpp'[m + 2] = cpp[m + 2]
    <3>1. Lim(m + 1)' = (Mark(cpp[m + 2]))'
      BY <2>3, <1>5 DEF Lim
    <3>2. (Mark(cpp[m + 2]))' = s
      BY <2>3, <1>1 DEF Mark
    <3> QED BY <2>1, <3>1, <3>2 DEF Stop
  <2> QED BY <2>2, <2>3, <1>4
<1>12. StopAt(m + 1)' /\ ClosedAt(m + 1)' /\ ExitAt(m + 1)'
  <2>1. Floor(m + 1 - 1)' = Floor(m + 1 - 1)
    BY <1>5, <1>9
  <2>2. StopAt(m + 1)'
    <3>1. cpp[m + 1].fn \in {"catch", "unwind"} => Stop(cpp[m + 1]) < s /\ Stop(cpp[m + 1]) <= s
      BY <1>1, <1>2 DEF StopAt
    <3>2. cpp[m + 1].fn = "return" => Floor(m + 1 - 1) < s
      BY <1>1, <1>2 DEF StopAt
    <3>3. cpp[m + 1].fn = "catch" => Floor(m + 1 - 1) < cpp[m + 1].handler.frame
      BY <1>2 DEF StopAt
    <3> QED BY <2>1, <3>1, <3>2, <3>3, <1>11 DEF StopAt
  <2>3. ClosedAt(m + 1)'
    <3>1. s \in 1 .. s
      BY <1>1
    <3>2. cpp[m + 1].fn = "return" => open'[s] = 0
      BY <3>1, <1>1, <1>2, <1>6 DEF ClosedAt
    <3>3. cpp[m + 1].fn = "unwind" => \A i \in Floor(m) + 1 .. s : open'[i] = 0
      <4>1. \A i \in Floor(m) + 1 .. s : i \in 1 .. s
        BY <1>1
      <4> QED BY <4>1, <1>1, <1>2, <1>5, <1>6 DEF ClosedAt
    <3>4. cpp[m + 1].fn = "catch" =>
            LET h == cpp[m + 1].handler IN
            /\ h.frame \in 1 .. s
            /\ \A i \in h.frame + 1 .. s : open'[i] = 0
            /\ h.act = frames[h.frame] /\ open'[h.frame] = h.depth + 1
            /\ \A j \in DOMAIN handlers : handlers[j].frame = h.frame => handlers[j].depth < h.depth
      <4> SUFFICES ASSUME cpp[m + 1].fn = "catch", NEW h, h = cpp[m + 1].handler
                   PROVE  /\ h.frame \in 1 .. s
                          /\ \A i \in h.frame + 1 .. s : open'[i] = 0
                          /\ h.act = frames[h.frame] /\ open'[h.frame] = h.depth + 1
                          /\ \A j \in DOMAIN handlers :
                               handlers[j].frame = h.frame => handlers[j].depth < h.depth
        OBVIOUS
      <4>1. h.frame \in Nat
        BY <1>1, RecordFacts DEF Handler
      <4>2. F < h.frame /\ h.frame < s
        BY <1>2, <1>5 DEF StopAt, Stop
      <4>3. h.frame \in 1 .. s /\ \A i \in h.frame + 1 .. s : i \in 1 .. s
        BY <4>1, <4>2, <1>1
      <4> QED BY <4>3, <1>1, <1>2, <1>6 DEF ClosedAt
    <3> QED BY <2>1, <3>2, <3>3, <3>4, <1>3, <1>5, <1>11 DEF ClosedAt
  <2>4. ExitAt(m + 1)'
    <3> SUFFICES ASSUME cpp[m + 1].fn = "unwind", cpp[m + 1].how = "exit"
                 PROVE  ExitFree(m + 1, s)'
      BY <1>11 DEF ExitAt
    <3>1. /\ \A j \in 1 .. m : cpp[j].fn # "defers"
          /\ \A j \in 1 .. m : cpp[j].fn = "resume" => \E p \in j .. m : cpp[p].fn = "posted"
          /\ \A i \in 1 .. s : open[i] # 0 =>
               \E p \in 1 .. m : cpp[p].fn = "posted" /\ i <= cpp[p].caller.n
      <4>1. ExitFree(m + 1, s)
        BY <1>1, <1>2 DEF ExitAt
      <4> QED BY <4>1, <1>5, ExitFreeFacts
    <3>a. \A j \in 1 .. m : j \in 1 .. m + 1 /\ \A p \in j .. m : p \in 1 .. m
      OBVIOUS
    <3>2. \A j \in 1 .. m : /\ cpp'[j] = cpp[j]
                            /\ \A p \in j .. m : p \in 1 .. m
      BY <1>4, <3>a
    <3>3. \A i \in 1 .. s : open'[i] = open[i]
      BY <1>6
    <3>4. /\ \A j \in 1 .. m : cpp'[j].fn # "defers"
          /\ \A j \in 1 .. m : cpp'[j].fn = "resume" => \E p \in j .. m : cpp'[p].fn = "posted"
      BY <3>1, <3>2
    <3>5. \A i \in 1 .. s : open'[i] # 0 =>
            \E p \in 1 .. m : cpp'[p].fn = "posted" /\ i <= cpp'[p].caller.n
      BY <3>1, <3>2, <3>3
    <3> QED BY <3>4, <3>5, <1>5 DEF ExitFree
  <2> QED BY <2>2, <2>3, <2>4
<1>13. m > 1 => DeferFrameAt(m - 1)'
  <2>1. F < frameCount' /\ F < frameCount /\ F + 1 \in 1 .. s
    BY <1>1
  <2> QED BY <2>1, <1>1, <1>6, <1>10, FrameKept
<1>14. cpp'[m + 1].fn = "unwind" => cpp'[m + 1].target = cpp[m].base
  BY <1>2, <1>5, <1>11 DEF NestedAt
<1>15. StackAbove(m)'
  <2>1. CASE Len(cpp') = m + 1
    BY <2>1, <1>1, <1>7, <1>10, <1>11, <1>12, <1>13, <1>14, EndOnTop
  <2>2. CASE Len(cpp') = m + 2 /\ cpp'[m + 2] = cpp[m + 2]
    <3>1. cpp'[m + 2].fn = "defers" /\ cpp'[m + 2].saved = s /\ s > 0 /\ ~(s > s)
          /\ ~(m + 2 < m + 2) /\ s \in 1 .. s
      BY <2>2, <1>1
    <3>2. MarkAt(m + 2)'
      BY <3>1, <1>1 DEF MarkAt, Mark
    <3>3. TodoAt(m + 2)'
      <4>1. /\ Top.act = frames[s] /\ Pends(Top.todo, Top.act)
            /\ deferStack[s] = <<>> /\ runs[s] \notin {"defer", "gen"}
        BY <1>1, <1>2 DEF TodoAt
      <4>2. (Pends(cpp[m + 2].todo, cpp[m + 2].act))'
        BY <4>1, <2>2, <1>1, <1>3 DEF Pends, Rising
      <4> QED BY <3>1, <4>1, <4>2, <2>2, <1>1, <1>3, <1>6 DEF TodoAt
    <3>4. DeferFrameAt(m + 2)'
      BY <3>1, <2>2 DEF DeferFrameAt
    <3> QED BY <2>2, <3>1, <3>2, <3>3, <3>4, <1>1, <1>7, <1>10, <1>11, <1>12, <1>13, <1>14, DefersOnTop
  <2> QED BY <2>1, <2>2, <1>4
<1>16. Top' = cpp[m + 1] \/ (cpp' = cpp /\ Top' = Top)
  <2>1. CASE cpp' = cpp
    BY <2>1 DEF Top
  <2>2. CASE cpp' # cpp
    <3>1. Len(cpp') = m + 1 /\ Len(cpp') # 0
      BY <2>2, <1>4
    <3>2. Top' = cpp'[Len(cpp')]
      BY <3>1, <1>7, NextTop
    <3> QED BY <3>1, <3>2, <1>11
  <2> QED BY <2>1, <2>2
<1>17. Reported' /\ TopFrames' /\ OverClosed'
  <2>1. Top'.fn # "execute" /\ ~Calls(Top')
    BY <1>1, <1>16 DEF Ends, Calls
  <2>2. Reported'
    BY <2>1 DEF Reported, Ends
  <2>3. Top'.fn = "defers" => frameCount' = Top'.saved /\ frameCount' <= Top'.saved + 1
    BY <1>1, <1>16 DEF Ends
  <2>4. TopFrames'
    BY <2>1, <2>3 DEF TopFrames
  <2>5. OverClosed'
    BY DEF OverClosed
  <2> QED BY <2>2, <2>4, <2>5
<1>18. FramesAbove(m)'
  <2>1. \A i \in F + 1 .. s : i \in F + 1 .. frameCount /\ i \in 1 .. frameCount /\ i \in 1 .. s
    BY <1>1
  <2>2. \A i \in 1 .. FramesMax : i > s => deferStack[i] = <<>>
    <3> SUFFICES ASSUME NEW i \in 1 .. FramesMax, i > s
                 PROVE  deferStack[i] = <<>>
      OBVIOUS
    <3>1. ListAt(i)
      BY DEF IInv, ListsExact
    <3>2. CASE i > frameCount
      BY <3>1, <3>2 DEF ListAt
    <3>3. CASE ~(i > frameCount)
      <4>1. i = s + 1 /\ frameCount > s /\ i <= frameCount
        BY <3>3, <1>1
      <4>2. runs[i] = "defer"
        BY <4>1, <1>1, <1>2 DEF DeferFrameAt
      <4> QED BY <3>1, <4>1, <4>2 DEF ListAt
    <3> QED BY <3>2, <3>3
  <2>3. \A k \in DOMAIN cpp : (k \in DOMAIN cpp' /\ cpp'[k] = cpp[k]) \/ k = m + 2
    BY <1>1, <1>4, <1>5
  <2>4. resumed' = resumed /\ caught \subseteq caught' /\ handled' = handled
    <3>1. Top.fn # "resume" /\ Top.fn # "catch"
      OBVIOUS
    <3>2. \A k \in DOMAIN cpp : cpp[k].fn \in {"resume", "catch"} => k \in DOMAIN cpp' /\ cpp'[k] = cpp[k]
      BY <2>3, <3>1, <1>1
    <3>3. resumed' = resumed
      BY <3>2, <1>4 DEF resumed
    <3>4. caught \subseteq caught'
      BY <3>2 DEF caught
    <3> QED BY <3>3, <3>4, <1>3 DEF handled
  <2>5. currentGen'.set => resumed' # {}
    BY <2>4, <1>3 DEF IInv, Resumes
  <2>6. \A i \in F + 1 .. s : runs[i] = "gen" => i \in resumed'
    BY <2>1, <2>4, DeferNames
  <2>7. \A i \in F + 1 .. s : ~(runs[i] = "defer" /\ open[i] > 0 /\ i < s)
    <3> SUFFICES ASSUME NEW i \in F + 1 .. s, runs[i] = "defer", open[i] > 0, i < s
                 PROVE  FALSE
      OBVIOUS
    <3>1. i = frameCount
      BY <2>1, DeferNames
    <3> QED BY <3>1, <1>1
  <2>8. \A i \in F + 1 .. frameCount : \A d \in 1 .. Len(defers) :
          Pending(d, i) => i <= s /\ Pending(d, i)'
    <3> SUFFICES ASSUME NEW i \in F + 1 .. frameCount, NEW d \in 1 .. Len(defers), Pending(d, i)
                 PROVE  i <= s /\ Pending(d, i)'
      OBVIOUS
    <3>1. \/ \E x \in DOMAIN deferStack[i] : deferStack[i][x] = d
          \/ i = s /\ \E x \in DOMAIN Top.todo : Top.todo[x] = d
      BY DeferNames
    <3>2. CASE \E x \in DOMAIN deferStack[i] : deferStack[i][x] = d
      <4>1. i \in 1 .. FramesMax /\ deferStack[i] # <<>>
        BY <3>2, <1>1
      <4>2. i <= s
        BY <4>1, <2>2, <1>1
      <4> QED BY <3>2, <4>2, <1>3 DEF Pending
    <3>3. CASE i = s /\ \E x \in DOMAIN Top.todo : Top.todo[x] = d
      <4>1. Top.todo # <<>>
        BY <3>3
      <4>2. cpp' = cpp
        BY <4>1, <1>4
      <4>3. i <= s
        BY <3>3, <1>1
      <4> QED BY <3>3, <4>2, <4>3, <1>1 DEF Pending
    <3> QED BY <3>1, <3>2, <3>3
  <2>9. \A i \in F + 1 .. s : i \in ending => i \in ending'
    <3>1. s \in ending'
      <4>1. m + 1 \in DOMAIN cpp'
        BY <1>4, <1>5
      <4> QED BY <4>1, <1>1, <1>2, <1>11 DEF ending, Ends
    <3>2. \A i \in F + 1 .. s : i \in ending => i = s
      BY <2>1, DeferNames
    <3> QED BY <3>1, <3>2
  <2>10. OneGenerator'
    <3>1. \A k \in DOMAIN cpp' : cpp'[k].fn = "resume" =>
            /\ k \in DOMAIN cpp /\ cpp[k].fn = "resume"
            /\ k < Len(cpp) \/ k = Len(cpp')
      <4>1. \A k \in DOMAIN cpp : k < Len(cpp) \/ k = m + 2
        BY <1>1
      <4> QED BY <4>1, <1>1, <1>4
    <3>2. \A a \in gone' : a \in gone \/ \E i \in 1 .. frameCount : a = frames[i]
      <4>1. \A i \in s + 1 .. frameCount : i \in 1 .. frameCount
        BY <1>1
      <4> QED BY <4>1
    <3> QED BY <3>1, <3>2, <1>1, <1>3, GeneratorKept
  <2>11. \A a \in gone' : a \in gone \/ \E i \in frameCount' + 1 .. frameCount : a = frames[i]
    OBVIOUS
  <2>12. Len(kind) <= Len(kind') /\ \A a \in 1 .. Len(kind) : kind'[a] = kind[a]
    BY <1>3, TypeFacts DEF IInv, TypeFact
  <2>13. \A j \in DOMAIN handlers' :
           j \in DOMAIN handlers /\ handlers'[j] = handlers[j] /\ handlers[j].frame <= frameCount'
    BY <1>3, <1>8
  <2>14. /\ \A i \in 1 .. frameCount' : frames'[i] = frames[i] /\ open'[i] = open[i] /\ runs'[i] = runs[i]
         /\ \A i \in 1 .. FramesMax : /\ deferStack'[i] = deferStack[i]
                                      /\ i > frameCount' => deferStack'[i] = <<>>
         /\ Floor(m) <= frameCount' /\ frameCount' <= frameCount /\ Floor(m)' = Floor(m)
    BY <2>2, <1>1, <1>3, <1>6, <1>9
  <2>15. \A i \in Floor(m) + 1 .. frameCount' : \A d \in Nat :
           <<i, d>> \in handled \cup caught => <<i, d>> \in handled' \cup caught'
    BY <2>4
  <2>16. /\ \A i \in Floor(m) + 1 .. frameCount' : runs[i] = "gen" => i \in resumed'
         /\ \A i \in Floor(m) + 1 .. frameCount' :
              ~(runs[i] = "defer" /\ open[i] > 0 /\ i < frameCount')
         /\ \A i \in Floor(m) + 1 .. frameCount : \A d \in 1 .. Len(defers) :
              Pending(d, i) => i <= frameCount' /\ Pending(d, i)'
         /\ \A i \in Floor(m) + 1 .. frameCount' : i \in ending => i \in ending'
    BY <2>6, <2>7, <2>8, <2>9
  <2> QED BY <2>5, <2>10, <2>11, <2>12, <2>13, <2>14, <2>15, <2>16, <1>1, <1>3, <1>7, FramesLeft
<1>19. Above(m)'
  BY <1>15, <1>17, <1>18 DEF Above
<1> QED BY <1>1, <1>7, <1>10, <1>19, Assembled

LEMMA DeferBackKeeps ==
  ASSUME IInv, DeferBack
  PROVE  IInv'
<1>1. /\ cpp # <<>> /\ Top.fn = "defers" /\ ret \in {"ok", "error"} /\ ret' = "none" /\ cpp' = cpp
      /\ frameCount' = Top.saved /\ gone' = gone \cup {frames[i] : i \in Top.saved + 1 .. frameCount}
      /\ UNCHANGED <<frames, kind, trys, deferStack, defers, used, handlers, generator, currentGen>>
  BY DEF DeferBack, Resumed, DropTo, genVars
<1>2. \A i \in Top.saved + 1 .. frameCount : open[i] = 0
  BY <1>1 DEF IInv, OverClosed
<1>3. PICK m \in Nat \ {0} : Len(cpp) = m + 2
  BY <1>1, DeferRoom
<1> QED BY <1>1, <1>2, <1>3, DeferLeft

LEMMA DefersDoneKeeps ==
  ASSUME IInv, DefersDone
  PROVE  IInv'
<1>1. /\ cpp # <<>> /\ Top.fn = "defers" /\ ret = "none" /\ ret' = "none"
      /\ cpp' = Below /\ Top.todo = <<>>
      /\ frameCount' = frameCount /\ gone' = gone
      /\ UNCHANGED <<frames, kind, trys, deferStack, defers, used, handlers, generator, currentGen>>
  BY DEF DefersDone, Resumed, frameVars, genVars
<1>2. PICK m \in Nat \ {0} : Len(cpp) = m + 2
  BY <1>1, DeferRoom
<1>3. frameCount = Top.saved /\ Top.saved \in Nat
  BY <1>1, <1>2, DeferFacts
<1>4. \A i \in Top.saved + 1 .. frameCount : FALSE
  BY <1>3
<1>5. gone' = gone \cup {frames[i] : i \in Top.saved + 1 .. frameCount}
  BY <1>1, <1>4
<1>6. frameCount' = Top.saved
  BY <1>1, <1>3
<1>7. \A i \in Top.saved + 1 .. frameCount : open[i] = 0
  BY <1>4
<1> QED BY <1>1, <1>2, <1>5, <1>6, <1>7, DeferLeft

\* The last entry of a pending list, and the rest.
LEMMA ListParts ==
  ASSUME NEW S, NEW o \in Seq(S), o # <<>>
  PROVE  /\ Len(o) \in Nat \ {0} /\ DOMAIN o = 1 .. Len(o) /\ Len(o) \in 1 .. Len(o)
         /\ \A x \in 1 .. Len(o) : o[x] \in S
         /\ Front(o) \in Seq(S) /\ DOMAIN Front(o) = 1 .. Len(o) - 1
         /\ \A x \in 1 .. Len(o) - 1 : /\ Front(o)[x] = o[x]
                                      /\ x \in 1 .. Len(o) /\ x < Len(o)
         /\ Last(o) = o[Len(o)]
<1>1. /\ Front(o) \in Seq(S) /\ Len(Front(o)) = Len(o) - 1 /\ Len(o) \in Nat \ {0}
      /\ \A x \in 1 .. Len(o) - 1 : Front(o)[x] = o[x]
      /\ Last(o) = o[Len(o)]
  BY FrontLast
<1>2. DOMAIN Front(o) = 1 .. Len(o) - 1
  BY <1>1
<1>3. \A z \in Nat \ {0} : z \in 1 .. z /\ \A x \in 1 .. z - 1 : x \in 1 .. z /\ x < z
  OBVIOUS
<1>4. DOMAIN o = 1 .. Len(o) /\ \A x \in 1 .. Len(o) : o[x] \in S
  BY ElementOfSeq
<1> QED BY <1>1, <1>2, <1>3, <1>4

\* The last defer of the list, d, starts, with or without a frame of its own; t
\* is what is left of the list of activation a.
Takes(m, d, t, a, L) ==
  /\ cpp # <<>> /\ Top.fn = "defers" /\ ret = "none" /\ Top.todo # <<>> /\ Len(cpp) = m + 2
  /\ d = Last(Top.todo) /\ t = Front(Top.todo) /\ a = Top.act /\ Started(d)
  /\ cpp' \in Seq(Record) /\ L \in {m + 2, m + 3} /\ Len(cpp') = L
  /\ \A k \in 1 .. m + 1 : cpp'[k] = cpp[k]
  /\ cpp'[m + 2] = [Top EXCEPT !.todo = t]
  /\ L = m + 3 => cpp'[m + 3].fn = "execute"
  /\ UNCHANGED <<handlers, deferStack, ret, generator, currentGen, used, gone>>
  /\ frameCount' \in Nat /\ frameCount <= frameCount' /\ frameCount' <= FramesMax
  /\ frameCount' <= frameCount + 1
  /\ frames' \in [1 .. FramesMax -> Nat] /\ kind' \in Seq({"script", "func", "gen", "defer"})
  /\ trys' \in Seq(Nat) /\ Len(trys') = Len(kind')
  /\ \A i \in 1 .. frameCount : frames'[i] = frames[i] /\ open'[i] = open[i] /\ runs'[i] = runs[i]
  /\ Len(kind) \in Nat /\ Len(kind') \in Nat /\ Len(kind) <= Len(kind')
  /\ \A b \in 1 .. Len(kind) : kind'[b] = kind[b] /\ trys'[b] = trys[b]
  /\ \A b \in Len(kind) + 1 .. Len(kind') : kind'[b] # "gen"
  /\ \A i \in frameCount + 1 .. frameCount' :
       /\ frames'[i] \in Len(kind) + 1 .. Len(kind') /\ runs'[i] = "defer" /\ open'[i] = 0

\* What it is, and what becomes of the lists.
Taken(d, t, a, s, D, o, n) ==
  /\ n \in Nat \ {0} /\ DOMAIN o = 1 .. n /\ o[n] = d
  /\ t \in Seq(Nat) /\ DOMAIN t = 1 .. n - 1 /\ (\A x \in 1 .. n - 1 : t[x] = o[x])
  /\ \A x, y \in 1 .. n : x < y => o[x] < o[y]
  /\ a = frames[s] /\ deferStack[s] = <<>> /\ runs[s] \notin {"defer", "gen"}
  /\ d \in 1 .. D /\ defers[d].owner = a /\ defers[d].started = 0
  /\ D \in Nat /\ DOMAIN defers = 1 .. D /\ defers' \in Seq([owner : Nat, started : Nat])
  /\ Len(defers') = D /\ defers'[d].started = 1 /\ defers'[d].owner = defers[d].owner
  /\ \A x \in 1 .. D : x # d => defers'[x] = defers[x]
  /\ Pends(t, a)'

\* The deferred call that is taken from the list has not started, the rest
\* is pending as before.
LEMMA TakenDefer ==
  ASSUME IInv, NEW m \in Nat \ {0}, NEW d, NEW t, NEW a, NEW L, Takes(m, d, t, a, L),
         NEW s, s = Top.saved, NEW D, D = Len(defers), NEW o, o = Top.todo, NEW n, n = Len(o)
  PROVE  Taken(d, t, a, s, D, o, n)
<1>a. /\ cpp # <<>> /\ Top.fn = "defers" /\ o # <<>> /\ Len(cpp) = m + 2
      /\ d = Last(o) /\ t = Front(o) /\ a = Top.act /\ Started(d)
  BY DEF Takes
<1>1. o \in Seq(Nat) /\ Top = cpp[m + 2] /\ TodoAt(m + 2)
  BY <1>a, DeferFacts
<1>2. n \in Nat \ {0} /\ t \in Seq(Nat) /\ d = o[n] /\ \A x \in 1 .. n - 1 : t[x] = o[x]
  BY <1>a, <1>1, ListParts
<1>3. DOMAIN o = 1 .. n /\ DOMAIN t = 1 .. n - 1 /\ n \in 1 .. n
      /\ \A x \in 1 .. n : o[x] \in Nat
  BY <1>a, <1>1, ListParts
<1>4. \A x \in 1 .. n - 1 : x \in 1 .. n /\ x < n
  BY <1>a, <1>1, ListParts
<1>5. /\ a = frames[s] /\ deferStack[s] = <<>> /\ runs[s] \notin {"defer", "gen"}
      /\ s > 0 /\ Pends(o, a)
  BY <1>a, <1>1 DEF TodoAt
<1>6. /\ \A x, y \in 1 .. n : x < y => o[x] < o[y]
      /\ \A x \in 1 .. n : o[x] \in 1 .. D /\ defers[o[x]].owner = a /\ defers[o[x]].started = 0
  BY <1>3, <1>5 DEF Pends, Rising
<1>7. d \in 1 .. D /\ defers[d].owner = a /\ defers[d].started = 0
  BY <1>2, <1>3, <1>6
<1>8. defers \in Seq([owner : Nat, started : Nat]) /\ D \in Nat /\ DOMAIN defers = 1 .. D
  BY DEF IInv, TypeOK
<1>9. /\ defers' \in Seq([owner : Nat, started : Nat])
      /\ Len(defers') = D /\ defers'[d].started = 1 /\ defers'[d].owner = defers[d].owner
      /\ \A x \in 1 .. D : x # d => defers'[x] = defers[x]
  <2> DEFINE r == [defers[d] EXCEPT !.started = 1]
  <2>1. defers[d] \in [owner : Nat, started : Nat]
    BY <1>7, <1>8, ElementOfSeq
  <2>2. r \in [owner : Nat, started : Nat] /\ r.started = 1 /\ r.owner = defers[d].owner
    BY <2>1
  <2>3. 0 + 1 = 1
    OBVIOUS
  <2>4. defers' = [defers EXCEPT ![d] = r]
    <3>1. defers' = [defers EXCEPT ![d] = [defers[d] EXCEPT !.started = defers[d].started + 1]]
      BY <1>a DEF Started
    <3> QED BY <3>1, <2>3, <1>7
  <2> HIDE DEF r
  <2>5. /\ defers' \in Seq([owner : Nat, started : Nat]) /\ Len(defers') = Len(defers)
        /\ defers'[d] = r
        /\ \A x \in DOMAIN defers : x # d => defers'[x] = defers[x]
    BY <2>2, <2>4, <1>7, <1>8
  <2> QED BY <2>2, <2>5, <1>8
<1>10. \A x \in 1 .. n - 1 : o[x] # d
  <2>1. \A x \in 1 .. n - 1 : o[x] < o[n] /\ o[x] \in Nat
    BY <1>3, <1>4, <1>6
  <2> QED BY <2>1, <1>2, <1>3
<1>11. Pends(t, a)'
  <2>1. \A x \in DOMAIN t : /\ t[x] \in 1 .. D /\ t[x] # d
                            /\ defers[t[x]].owner = a /\ defers[t[x]].started = 0
    <3> SUFFICES ASSUME NEW x \in 1 .. n - 1
                 PROVE  /\ t[x] \in 1 .. D /\ t[x] # d
                        /\ defers[t[x]].owner = a /\ defers[t[x]].started = 0
      BY <1>3
    <3>1. t[x] = o[x] /\ x \in 1 .. n /\ o[x] # d
      BY <1>2, <1>4, <1>10
    <3> QED BY <3>1, <1>6
  <2>2. \A x \in DOMAIN t : /\ t[x] \in 1 .. D /\ defers'[t[x]].owner = a /\ defers'[t[x]].started = 0
    BY <2>1, <1>9
  <2>3. \A x, y \in DOMAIN t : x < y => t[x] < t[y]
    BY <1>2, <1>3, <1>4, <1>6
  <2> QED BY <2>2, <2>3, <1>9 DEF Pends, Rising
<1> QED BY <1>2, <1>3, <1>5, <1>6, <1>7, <1>8, <1>9, <1>11 DEF Taken

\* What the invariant says of the frames from m on.
LEMMA DeferTaken ==
  ASSUME IInv, NEW m \in Nat \ {0}, NEW d, NEW t, NEW a, NEW L, Takes(m, d, t, a, L)
  PROVE  TypeOK' /\ Kept(m) /\ FramesAbove(m)' /\ Floor(m)' = Floor(m)
<1>z. SUFFICES ASSUME NEW F, F = Floor(m), NEW s, s = Top.saved, NEW D, D = Len(defers),
                      NEW o, o = Top.todo, NEW n, n = Len(o), NEW c, c = frameCount', NEW f, f = frameCount,
                      NEW q, q = Len(kind), NEW r, r = Len(kind')
               PROVE  TypeOK' /\ Kept(m) /\ FramesAbove(m)' /\ Floor(m)' = Floor(m)
  OBVIOUS
<1>a. cpp # <<>> /\ Top.fn = "defers" /\ Len(cpp) = m + 2 /\ ret = "none" /\ o = Top.todo
  BY <1>z DEF Takes
<1>b. /\ cpp' \in Seq(Record) /\ L \in {m + 2, m + 3} /\ Len(cpp') = L
      /\ \A k \in 1 .. m + 1 : cpp'[k] = cpp[k]
      /\ cpp'[m + 2] = [Top EXCEPT !.todo = t]
      /\ L = m + 3 => cpp'[m + 3].fn = "execute"
  BY DEF Takes
<1>c. /\ frames' \in [1 .. FramesMax -> Nat]
      /\ \A i \in 1 .. f : frames'[i] = frames[i] /\ open'[i] = open[i] /\ runs'[i] = runs[i]
      /\ \A i \in f + 1 .. c :
           /\ frames'[i] \in q + 1 .. r /\ runs'[i] = "defer" /\ open'[i] = 0
  BY <1>z DEF Takes
<1>e. /\ kind' \in Seq({"script", "func", "gen", "defer"}) /\ trys' \in Seq(Nat) /\ Len(trys') = Len(kind')
      /\ \A b \in 1 .. q : kind'[b] = kind[b] /\ trys'[b] = trys[b]
      /\ \A b \in q + 1 .. r : kind'[b] # "gen"
  BY <1>z DEF Takes
<1>g. q \in Nat /\ r \in Nat /\ q <= r /\ c \in Nat /\ f <= c /\ c <= FramesMax /\ c <= f + 1
  BY <1>z DEF Takes
<1>2. /\ handlers' = handlers /\ deferStack' = deferStack /\ ret' = "none" /\ generator' = generator
      /\ currentGen' = currentGen /\ used' = used /\ gone' = gone
  BY <1>a DEF Takes
<1>1. /\ DOMAIN cpp = 1 .. m + 2 /\ m \in DOMAIN cpp /\ m + 1 \in DOMAIN cpp /\ m + 2 \in DOMAIN cpp
      /\ cpp[m].fn = "execute" /\ Ends(cpp[m + 1]) /\ Top = cpp[m + 2] /\ Top \in Record
      /\ s \in Nat /\ s = f /\ Lim(m + 1) = s
      /\ F \in Nat /\ F < s /\ f \in Nat /\ f <= FramesMax /\ FramesMax \in Nat
      /\ s \in ending
      /\ cpp[m + 1].fn # "return" => Stop(cpp[m + 1]) < s
  BY <1>a, <1>z, DeferFacts
<1>t. Taken(d, t, a, s, D, o, n)
  BY <1>z, TakenDefer
<1>3. /\ n \in Nat \ {0} /\ DOMAIN o = 1 .. n /\ o[n] = d
      /\ t \in Seq(Nat) /\ DOMAIN t = 1 .. n - 1 /\ (\A x \in 1 .. n - 1 : t[x] = o[x])
      /\ \A x, y \in 1 .. n : x < y => o[x] < o[y]
  BY <1>t DEF Taken
<1>4. a = frames[s] /\ deferStack[s] = <<>> /\ runs[s] \notin {"defer", "gen"}
  BY <1>t DEF Taken
<1>5. d \in 1 .. D /\ defers[d].owner = a /\ defers[d].started = 0
  BY <1>t DEF Taken
<1>6. /\ D \in Nat /\ DOMAIN defers = 1 .. D /\ defers' \in Seq([owner : Nat, started : Nat])
      /\ Len(defers') = D /\ defers'[d].started = 1 /\ defers'[d].owner = defers[d].owner
      /\ \A x \in 1 .. D : x # d => defers'[x] = defers[x]
  BY <1>t DEF Taken
<1>10. /\ \A i \in 1 .. F : i \in 1 .. f
       /\ \A i \in F + 1 .. f : i \in 1 .. f /\ i \in 1 .. FramesMax
       /\ \A i \in F + 1 .. c : i \in F + 1 .. f \/ i \in f + 1 .. c
       /\ \A i \in F + 1 .. f : i \in F + 1 .. c /\ i \in 1 .. c
       /\ s \in F + 1 .. f /\ s \in 1 .. f
       /\ \A i \in 1 .. c : i \in 1 .. f \/ i \in f + 1 .. c
       /\ \A i \in 1 .. f : i \in 1 .. F \/ i \in F + 1 .. f
       /\ \A i, j \in f + 1 .. c : i = j
  BY <1>1, <1>g
<1>11. /\ \A b \in 1 .. q : b \in 1 .. r
       /\ \A b \in 1 .. r : b \in 1 .. q \/ b \in q + 1 .. r
       /\ \A b \in q + 1 .. r : b \in 1 .. r /\ b \notin 1 .. q
  BY <1>g
<1>12. TypeOK'
  <2>1. frameCount' \in 0 .. FramesMax
    BY <1>1, <1>g, <1>z
  <2>2. gone' \subseteq 1 .. Len(kind')
    <3>1. gone \subseteq 1 .. q
      BY <1>z DEF IInv, TypeOK
    <3> QED BY <3>1, <1>2, <1>11, <1>z
  <2> QED BY <2>1, <2>2, <1>2, <1>6, <1>b, <1>c, <1>e DEF IInv, TypeOK
<1>13. /\ cpp'[m + 2].fn = "defers" /\ cpp'[m + 2].todo = t /\ cpp'[m + 2].saved = s
       /\ cpp'[m + 2].act = a
  <2>1. a = Top.act
    BY DEF Takes
  <2> QED BY <2>1, <1>1, <1>a, <1>b, <1>z DEF Record
<1>14. /\ \A k \in DOMAIN cpp : k \in 1 .. m + 1 \/ k = m + 2
       /\ DOMAIN cpp' = 1 .. L /\ m + 2 \in DOMAIN cpp' /\ m + 1 \in DOMAIN cpp'
       /\ \A k \in 1 .. m + 1 : k \in DOMAIN cpp /\ k \in DOMAIN cpp' /\ k # m + 2
       /\ \A k \in DOMAIN cpp' : k \in 1 .. m + 1 \/ k = m + 2 \/ (k = m + 3 /\ L = m + 3)
       /\ \A k \in 1 .. m - 1 : k \in 1 .. m + 1
       /\ m \in 1 .. m + 1 /\ m + 1 \in 1 .. m + 1 /\ m - 1 <= L /\ L \in Nat
       /\ m # 1 => m - 1 \in 1 .. m - 1
       /\ m + 1 # L /\ m + 1 + 1 = m + 2
  <2>1. DOMAIN cpp' = 1 .. L
    BY <1>b
  <2>2. /\ \A k \in 1 .. m + 2 : k \in 1 .. m + 1 \/ k = m + 2
        /\ \A k \in 1 .. m + 1 : k \in 1 .. m + 2 /\ k # m + 2
        /\ \A k \in 1 .. m - 1 : k \in 1 .. m + 1
        /\ m \in 1 .. m + 1 /\ m + 1 \in 1 .. m + 1 /\ m + 1 + 1 = m + 2
        /\ m # 1 => m - 1 \in 1 .. m - 1
    OBVIOUS
  <2>3. L \in {m + 2, m + 3}
    BY <1>b
  <2>4. /\ m + 2 \in 1 .. L /\ m + 1 \in 1 .. L /\ m - 1 <= L /\ L \in Nat /\ m + 1 # L
        /\ \A k \in 1 .. m + 1 : k \in 1 .. L
        /\ \A k \in 1 .. L : k \in 1 .. m + 1 \/ k = m + 2 \/ (k = m + 3 /\ L = m + 3)
    BY <2>3
  <2> QED BY <2>1, <2>2, <2>4, <1>1
<1>15. Floor(m)' = F
  BY <1>14, <1>b, <1>z DEF Floor, Mark
<1>16. Kept(m)
  <2>1. HandlersKept(m)
    BY <1>1, <1>2, SameHandlers
  <2>2. \A x \in 1 .. D :
          \/ defers'[x] = defers[x]
          \/ \E i \in F + 1 .. f : frames[i] = defers[x].owner
                                   /\ defers'[x].owner = defers[x].owner
    BY <1>4, <1>5, <1>6, <1>10
  <2>3. (\A x \in D + 1 .. Len(defers') : FALSE) /\ D <= Len(defers')
    BY <1>6
  <2>4. F <= c
    BY <1>1, <1>g
  <2>5. m - 1 <= Len(cpp') /\ (\A k \in 1 .. m - 1 : cpp'[k] = cpp[k]) /\ cpp'[m] = cpp[m]
    BY <1>14, <1>b
  <2>6. \A i \in 1 .. F : /\ frames'[i] = frames[i] /\ open'[i] = open[i]
                          /\ runs'[i] = runs[i] /\ deferStack'[i] = deferStack[i]
    BY <1>2, <1>10, <1>c
  <2> QED BY <2>1, <2>2, <2>3, <2>4, <2>5, <2>6, <1>2, <1>e, <1>g, <1>z DEF Kept, HandlersKept
<1>17. /\ resumed' = resumed /\ handled' = handled /\ caught \subseteq caught'
       /\ \A k \in DOMAIN cpp' : cpp'[k].fn = "resume" => k \in DOMAIN cpp /\ cpp[k].fn = "resume" /\ k # m + 2
  <2>1. \A k \in DOMAIN cpp' : cpp'[k].fn = "resume" => k \in DOMAIN cpp /\ cpp'[k] = cpp[k] /\ k # m + 2
    BY <1>13, <1>14, <1>b
  <2>2. \A k \in DOMAIN cpp : cpp[k].fn \in {"resume", "catch"} => k \in DOMAIN cpp' /\ cpp'[k] = cpp[k]
    BY <1>1, <1>14, <1>a, <1>b
  <2>3. resumed' = resumed
    BY <2>1, <2>2 DEF resumed
  <2>4. caught \subseteq caught'
    BY <2>2 DEF caught
  <2>5. handled' = handled
    BY <1>2 DEF handled
  <2> QED BY <2>1, <2>3, <2>4, <2>5
<1>18. Live'
  <2>1. /\ \A i \in 1 .. f : frames[i] \in 1 .. q /\ frames[i] \notin gone
        /\ \A i, j \in 1 .. f : i # j => frames[i] # frames[j]
        /\ gone \subseteq 1 .. q
    BY <1>z DEF IInv, Live, TypeOK
  <2>2. ASSUME NEW i \in 1 .. c
        PROVE  frames'[i] \in 1 .. r /\ frames'[i] \notin gone'
    <3>1. CASE i \in 1 .. f
      BY <3>1, <2>1, <1>2, <1>11, <1>c
    <3>2. CASE i \in f + 1 .. c
      BY <3>2, <2>1, <1>2, <1>11, <1>c
    <3> QED BY <3>1, <3>2, <1>10
  <2>3. ASSUME NEW i \in 1 .. c, NEW j \in 1 .. c, i # j
        PROVE  frames'[i] # frames'[j]
    <3>1. CASE i \in 1 .. f /\ j \in 1 .. f
      BY <3>1, <2>1, <2>3, <1>c
    <3>2. CASE i \in 1 .. f /\ j \in f + 1 .. c
      BY <3>2, <2>1, <1>11, <1>c
    <3>3. CASE i \in f + 1 .. c /\ j \in 1 .. f
      BY <3>3, <2>1, <1>11, <1>c
    <3> QED BY <3>1, <3>2, <3>3, <2>3, <1>10
  <2> QED BY <2>2, <2>3, <1>z DEF Live
<1>19. OneGenerator'
  <2>1. /\ \A b \in 1 .. q : kind[b] = "gen" => b = generator.act /\ trys[b] = 0
        /\ generator.state = "none" => /\ \A b \in 1 .. q : kind[b] # "gen"
                                       /\ \A k \in DOMAIN cpp : cpp[k].fn # "resume"
        /\ generator.state \in {"created", "suspended"} =>
             /\ generator.act \in 1 .. q /\ kind[generator.act] = "gen"
             /\ generator.act \notin gone
             /\ \A i \in 1 .. f : frames[i] # generator.act
             /\ \A k \in DOMAIN cpp : cpp[k].fn = "resume" => k = Len(cpp)
    BY <1>z DEF IInv, OneGenerator
  <2>2. \A b \in 1 .. r : kind'[b] = "gen" =>
          b \in 1 .. q /\ kind[b] = "gen" /\ trys'[b] = trys[b]
    BY <1>11, <1>e
  <2>3. \A b \in 1 .. r : kind'[b] = "gen" => b = generator'.act /\ trys'[b] = 0
    BY <2>1, <2>2, <1>2
  <2>4. generator'.state = "none" => /\ \A b \in 1 .. r : kind'[b] # "gen"
                                     /\ \A k \in DOMAIN cpp' : cpp'[k].fn # "resume"
    BY <2>1, <2>2, <1>2, <1>17
  <2>5. ASSUME generator.state \in {"created", "suspended"}
        PROVE  /\ generator.act \in 1 .. r /\ kind'[generator.act] = "gen"
               /\ generator.act \notin gone'
               /\ \A i \in 1 .. c : frames'[i] # generator.act
               /\ \A k \in DOMAIN cpp' : cpp'[k].fn = "resume" => k = Len(cpp')
    <3>1. \A k \in DOMAIN cpp' : cpp'[k].fn # "resume"
      BY <2>1, <2>5, <1>17, <1>a
    <3>2. \A i \in 1 .. c : frames'[i] # generator.act
      BY <2>1, <2>5, <1>10, <1>11, <1>c
    <3> QED BY <2>1, <2>5, <3>1, <3>2, <1>2, <1>11, <1>e
  <2> QED BY <2>3, <2>4, <2>5, <1>2, <1>z DEF OneGenerator
<1>20. HandlersRise' /\ LastSlot'
  <2>1. HandlersRise'
    BY <1>2 DEF IInv, HandlersRise
  <2>2. LastSlot'
    <3>1. CASE c = f
      <4>1. f = FramesMax => runs'[FramesMax] = runs[FramesMax]
        BY <1>1, <1>10, <1>c
      <4>2. f = FramesMax /\ runs[FramesMax] # "defer" => handlers = <<>>
        BY <1>z DEF IInv, LastSlot
      <4> QED BY <4>1, <4>2, <3>1, <1>2, <1>z DEF LastSlot
    <3>2. CASE c # f
      <4>1. c \in f + 1 .. c
        BY <3>2, <1>1, <1>g
      <4>2. runs'[c] = "defer"
        BY <4>1, <1>c
      <4> QED BY <4>2, <1>z DEF LastSlot
    <3> QED BY <3>1, <3>2
  <2> QED BY <2>1, <2>2
<1>21. DefersLifo'
  <2>1. \A x, y \in 1 .. D :
          x < y /\ defers[x].owner = defers[y].owner /\ defers[x].started = 1 => defers[y].started = 1
    BY <1>6 DEF IInv, DefersLifo
  <2>2. ASSUME NEW y \in 1 .. D, d < y, defers[y].owner = a, defers[y].started = 0
        PROVE  FALSE
    <3>1. PICK i \in 1 .. f : frames[i] = defers[y].owner /\ Pending(y, i)
      BY <2>2, <1>z DEF IInv, NoneLost
    <3>2. i = s
      BY <3>1, <2>2, <1>4, <1>10, <1>z DEF IInv, Live
    <3>3. \E x \in 1 .. n : o[x] = y
      <4>1. \/ \E x \in DOMAIN deferStack[s] : deferStack[s][x] = y
            \/ \E x \in DOMAIN o : o[x] = y
        <5>1. s \in Floor(m) + 1 .. frameCount
          BY <1>10, <1>z
        <5>2. Pending(y, s) => \/ \E x \in DOMAIN deferStack[s] : deferStack[s][x] = y
                               \/ \E x \in DOMAIN Top.todo : Top.todo[x] = y
          BY <5>1, <1>a, DeferNames
        <5> QED BY <5>2, <3>1, <3>2, <1>a
      <4>2. ~(\E x \in DOMAIN deferStack[s] : deferStack[s][x] = y)
        BY <1>4
      <4> QED BY <4>1, <4>2, <1>3
    <3>4. PICK x \in 1 .. n : o[x] = y
      BY <3>3
    <3>5. x = n \/ x < n
      BY <1>3
    <3>6. y = d \/ y < d
      <4>1. n \in 1 .. n
        BY <1>3
      <4> QED BY <3>4, <3>5, <4>1, <1>3
    <3>7. d \in Nat /\ y \in Nat
      BY <1>5, <1>6
    <3> QED BY <2>2, <3>6, <3>7
  <2>3. \A x \in 1 .. D : defers[x].started \in {0, 1}
    BY <1>z DEF IInv, NoneLost
  <2>4. ASSUME NEW x \in 1 .. D, NEW y \in 1 .. D, x < y, defers'[x].owner = defers'[y].owner,
               defers'[x].started = 1
        PROVE  defers'[y].started = 1
    <3>1. CASE y = d
      BY <3>1, <1>6
    <3>2. CASE y # d /\ x = d
      <4>1. defers[y].owner = a /\ d < y
        BY <3>2, <2>4, <1>5, <1>6
      <4>2. defers[y].started # 0
        BY <2>2, <4>1
      <4> QED BY <3>2, <4>2, <2>3, <1>6
    <3>3. CASE y # d /\ x # d
      BY <3>3, <2>1, <2>4, <1>6
    <3> QED BY <3>1, <3>2, <3>3
  <2>5. DOMAIN defers' = 1 .. D
    BY <1>6
  <2> QED BY <2>4, <2>5 DEF DefersLifo
<1>22. currentGen'.set => resumed' # {}
  BY <1>2, <1>17 DEF IInv, Resumes
<1>23. \A i \in F + 1 .. c : (i \in F + 1 .. f /\ i \in 1 .. f) \/ (runs'[i] = "defer" /\ open'[i] = 0)
  BY <1>10, <1>c
<1>24. \A i \in F + 1 .. c : runs'[i] = "gen" => i \in resumed'
  <2> SUFFICES ASSUME NEW i \in F + 1 .. c, runs'[i] = "gen"
               PROVE  i \in resumed'
    OBVIOUS
  <2>1. i \in 1 .. f
    BY <1>23
  <2>2. runs[i] = "gen"
    BY <2>1, <1>c
  <2> QED BY <2>1, <2>2, <1>17, <1>z DEF IInv, Resumes
<1>25. \A i \in F + 1 .. c : \A e \in Nat : e < open'[i] => <<i, e>> \in handled' \cup caught'
  <2> SUFFICES ASSUME NEW i \in F + 1 .. c, NEW e \in Nat, e < open'[i]
               PROVE  <<i, e>> \in handled' \cup caught'
    OBVIOUS
  <2>1. i \in 1 .. f
    <3>1. open'[i] # 0
      OBVIOUS
    <3> QED BY <3>1, <1>23
  <2>2. e < open[i]
    BY <2>1, <1>c
  <2>3. <<i, e>> \in handled \cup caught
    BY <2>1, <2>2, <1>z DEF IInv, OpenHandled
  <2> QED BY <2>3, <1>17
<1>26. \A i \in F + 1 .. c : ~(runs'[i] = "defer" /\ open'[i] > 0 /\ i < c)
  <2> SUFFICES ASSUME NEW i \in F + 1 .. c, runs'[i] = "defer", open'[i] > 0
               PROVE  FALSE
    OBVIOUS
  <2>1. i \in F + 1 .. f /\ i \in 1 .. f
    <3>1. open'[i] # 0
      OBVIOUS
    <3> QED BY <3>1, <1>23
  <2>2. runs[i] = "defer" /\ open[i] > 0
    BY <2>1, <1>c
  <2>3. i = f
    BY <2>1, <2>2, <1>a, <1>z, DeferNames
  <2> QED BY <2>2, <2>3, <1>1, <1>4
<1>27. \A j \in DOMAIN handlers' : /\ handlers'[j].frame <= c
                                   /\ handlers'[j].act = frames'[handlers'[j].frame]
                                   /\ handlers'[j].depth < open'[handlers'[j].frame]
  <2>1. \A j \in DOMAIN handlers :
          /\ handlers[j].frame \in 1 .. f
          /\ handlers[j].act = frames[handlers[j].frame]
          /\ handlers[j].depth < open[handlers[j].frame]
    BY <1>z DEF IInv, HandlersLive
  <2>2. \A i \in 1 .. f : i <= c
    BY <1>1, <1>g
  <2> QED BY <2>1, <2>2, <1>2, <1>c
<1>28. \A i \in F + 1 .. FramesMax : ListAt(i)'
  <2> SUFFICES ASSUME NEW i \in F + 1 .. FramesMax
               PROVE  ListAt(i)'
    OBVIOUS
  <2>1. i \in 1 .. FramesMax /\ ListAt(i) /\ i \in Nat
    <3>1. i \in 1 .. FramesMax
      BY <1>1
    <3> QED BY <3>1 DEF IInv, ListsExact
  <2>2. CASE deferStack[i] = <<>>
    <3>1. \A b : Pends(deferStack[i], b)'
      BY <2>2, <1>2 DEF Pends, Rising
    <3> QED BY <2>2, <3>1, <1>2 DEF ListAt, Pends, Rising
  <2>3. CASE deferStack[i] # <<>>
    <3>0. ~(i > f)
      BY <2>1, <2>3, <1>z DEF ListAt
    <3>1. i <= f /\ i \in 1 .. f /\ ~(i > c)
      BY <3>0, <2>1, <1>1, <1>g
    <3>2. frames[i] # a
      BY <2>3, <3>1, <1>4, <1>10, <1>z DEF IInv, Live
    <3>3. \A x \in 1 .. D : defers[x].owner = frames[i] => x \in 1 .. Len(defers') /\ defers'[x] = defers[x]
      BY <3>2, <1>5, <1>6
    <3>4. frames'[i] = frames[i] /\ runs'[i] = runs[i] /\ deferStack'[i] = deferStack[i]
      BY <3>1, <1>2, <1>c
    <3> QED BY <2>1, <3>1, <3>3, <3>4, <1>z, ListSame
  <2> QED BY <2>2, <2>3
<1>29. \A x \in 1 .. D : /\ defers'[x].owner \in 1 .. r
                         /\ kind'[defers'[x].owner] \notin {"defer", "gen"}
                         /\ defers'[x].started \in {0, 1}
  <2>1. \A x \in 1 .. D : /\ defers[x].owner \in 1 .. q
                          /\ kind[defers[x].owner] \notin {"defer", "gen"}
                          /\ defers[x].started \in {0, 1}
    BY <1>z DEF IInv, NoneLost
  <2>2. \A x \in 1 .. D : defers'[x].owner = defers[x].owner /\ defers'[x].started \in {0, 1}
    BY <2>1, <1>6
  <2> QED BY <2>1, <2>2, <1>11, <1>e
<1>30. \A x \in 1 .. D : defers'[x].started = 0 =>
         \/ \E i \in 1 .. F : frames'[i] = defers'[x].owner
         \/ \E i \in F + 1 .. c : frames'[i] = defers'[x].owner /\ Pending(x, i)'
  <2> SUFFICES ASSUME NEW x \in 1 .. D, defers'[x].started = 0
               PROVE  \/ \E i \in 1 .. F : frames'[i] = defers'[x].owner
                      \/ \E i \in F + 1 .. c : frames'[i] = defers'[x].owner /\ Pending(x, i)'
    OBVIOUS
  <2>1. x # d /\ defers'[x] = defers[x]
    BY <1>6
  <2>2. PICK i \in 1 .. f : frames[i] = defers[x].owner /\ Pending(x, i)
    BY <2>1, <1>z DEF IInv, NoneLost
  <2>a. frames'[i] = defers'[x].owner
    BY <2>1, <2>2, <1>c
  <2>3. CASE i \in 1 .. F
    BY <2>a, <2>3
  <2>4. CASE i \in F + 1 .. f
    <3>1. CASE \E y \in DOMAIN deferStack[i] : deferStack[i][y] = x
      <4>1. Pending(x, i)'
        BY <3>1, <1>2 DEF Pending
      <4> QED BY <4>1, <2>a, <2>4, <1>10
    <3>2. CASE i = s /\ \E y \in DOMAIN o : o[y] = x
      <4>1. PICK y \in 1 .. n : o[y] = x
        BY <3>2, <1>3
      <4>2. y # n
        BY <4>1, <2>1, <1>3
      <4>3. y \in 1 .. n - 1
        BY <4>2, <1>3
      <4>4. y \in DOMAIN t /\ t[y] = x
        BY <4>1, <4>3, <1>3
      <4>5. Pending(x, i)'
        BY <3>2, <4>4, <1>13, <1>14 DEF Pending
      <4> QED BY <4>5, <2>a, <2>4, <1>10
    <3>3. \/ \E y \in DOMAIN deferStack[i] : deferStack[i][y] = x
          \/ i = s /\ \E y \in DOMAIN o : o[y] = x
      BY <2>2, <2>4, <1>a, <1>z, DeferNames
    <3> QED BY <3>1, <3>2, <3>3
  <2> QED BY <2>3, <2>4, <1>10
<1>31. s \in ending'
  <2>1. Lim(m + 1)' = s
    <3>1. Lim(m + 1)' = (Mark(cpp[m + 2]))'
      BY <1>14, <1>b DEF Lim
    <3> QED BY <3>1, <1>13 DEF Mark
  <2>2. cpp'[m + 1] = cpp[m + 1] /\ (Stop(cpp[m + 1]))' = Stop(cpp[m + 1]) /\ m + 1 \in DOMAIN cpp'
    BY <1>14, <1>b DEF Stop
  <2> QED BY <2>1, <2>2, <1>1 DEF ending, Ends
<1>32. \A x \in 1 .. D : defers'[x].started = 1 =>
         \A i \in F + 1 .. c : frames'[i] = defers'[x].owner => i \in ending'
  <2> SUFFICES ASSUME NEW x \in 1 .. D, defers'[x].started = 1, NEW i \in F + 1 .. c,
                      frames'[i] = defers'[x].owner
               PROVE  i \in ending'
    OBVIOUS
  <2>1. defers'[x].owner = defers[x].owner /\ defers[x].owner \in 1 .. q
    BY <1>6, <1>z DEF IInv, NoneLost
  <2>2. i \in F + 1 .. f /\ i \in 1 .. f /\ frames[i] = defers[x].owner
    <3>1. i \notin f + 1 .. c
      BY <2>1, <1>11, <1>c
    <3> QED BY <3>1, <2>1, <1>10, <1>c
  <2>3. i = s
    <3>1. CASE x = d
      <4>1. frames[i] = frames[s]
        BY <3>1, <2>2, <1>4, <1>5
      <4> QED BY <4>1, <2>2, <1>10, <1>z DEF IInv, Live
    <3>2. CASE x # d
      <4>1. i \in ending
        BY <3>2, <2>2, <1>6, <1>z DEF IInv, StartedEnds
      <4> QED BY <4>1, <2>2, <1>a, <1>z, DeferNames
    <3> QED BY <3>1, <3>2
  <2> QED BY <2>3, <1>31
<1>33. FramesAbove(m)'
  <2>0. F = Floor(m)' /\ c = frameCount' /\ D = Len(defers') /\ r = Len(kind')
    BY <1>6, <1>15, <1>z
  <2>1. (ret = "exit" => ExitFree(Len(cpp) + 1, frameCount))'
    BY <1>2
  <2>2. (/\ currentGen.set => resumed # {}
         /\ \A i \in Floor(m) + 1 .. frameCount : runs[i] = "gen" => i \in resumed
         /\ \A i \in Floor(m) + 1 .. frameCount : \A e \in Nat :
              e < open[i] => <<i, e>> \in handled \cup caught
         /\ \A i \in Floor(m) + 1 .. frameCount : runs[i] = "defer" /\ open[i] > 0 /\ i < frameCount =>
              i \in marks)'
    BY <2>0, <1>22, <1>24, <1>25, <1>26
  <2>3. (/\ \A j \in DOMAIN handlers : handlers[j].frame > Floor(m) =>
              /\ handlers[j].frame <= frameCount
              /\ handlers[j].act = frames[handlers[j].frame]
              /\ handlers[j].depth < open[handlers[j].frame]
         /\ \A i \in Floor(m) + 1 .. FramesMax : ListAt(i))'
    BY <2>0, <1>27, <1>28
  <2>4. (/\ \A x \in 1 .. Len(defers) : /\ defers[x].owner \in 1 .. Len(kind)
                                        /\ kind[defers[x].owner] \notin {"defer", "gen"}
                                        /\ defers[x].started \in {0, 1}
         /\ \A x \in 1 .. Len(defers) : defers[x].started = 0 =>
              \/ \E i \in 1 .. Floor(m) : frames[i] = defers[x].owner
              \/ \E i \in Floor(m) + 1 .. frameCount : frames[i] = defers[x].owner /\ Pending(x, i)
         /\ \A x \in 1 .. Len(defers) : defers[x].started = 1 =>
              \A i \in Floor(m) + 1 .. frameCount : frames[i] = defers[x].owner => i \in ending)'
    BY <2>0, <1>29, <1>30, <1>32
  <2> QED BY <2>1, <2>2, <2>3, <2>4, <1>18, <1>19, <1>20, <1>21 DEF FramesAbove
<1> QED BY <1>12, <1>15, <1>16, <1>33, <1>z

\* What ends the function goes on as before.
LEMMA TakenStack ==
  ASSUME IInv, NEW m \in Nat \ {0}, NEW d, NEW t, NEW a, NEW L, Takes(m, d, t, a, L),
         TypeOK', Kept(m), NEW s, s = Top.saved
  PROVE  /\ m > 1 => DeferFrameAt(m - 1)'
         /\ Ends(cpp'[m + 1]) /\ (cpp'[m + 1].fn = "unwind" => cpp'[m + 1].target = cpp[m].base)
         /\ StopAt(m + 1)' /\ ClosedAt(m + 1)' /\ ExitAt(m + 1)'
         /\ cpp'[m + 2].fn = "defers" /\ cpp'[m + 2].saved = s
         /\ MarkAt(m + 2)' /\ TodoAt(m + 2)'
<1>z. SUFFICES ASSUME NEW F, F = Floor(m), NEW f, f = frameCount, NEW c, c = frameCount',
                      NEW D, D = Len(defers), NEW o, o = Top.todo, NEW n, n = Len(o)
               PROVE  /\ m > 1 => DeferFrameAt(m - 1)'
                      /\ Ends(cpp'[m + 1])
                      /\ (cpp'[m + 1].fn = "unwind" => cpp'[m + 1].target = cpp[m].base)
                      /\ StopAt(m + 1)' /\ ClosedAt(m + 1)' /\ ExitAt(m + 1)'
                      /\ cpp'[m + 2].fn = "defers" /\ cpp'[m + 2].saved = s
                      /\ MarkAt(m + 2)' /\ TodoAt(m + 2)'
  OBVIOUS
<1>a. cpp # <<>> /\ Top.fn = "defers" /\ Len(cpp) = m + 2 /\ ret = "none" /\ a = Top.act
  BY DEF Takes
<1>b. /\ L \in {m + 2, m + 3} /\ Len(cpp') = L
      /\ \A k \in 1 .. m + 1 : cpp'[k] = cpp[k]
      /\ cpp'[m + 2] = [Top EXCEPT !.todo = t]
  BY DEF Takes
<1>c. /\ \A i \in 1 .. f : frames'[i] = frames[i] /\ open'[i] = open[i] /\ runs'[i] = runs[i]
      /\ c \in Nat /\ f <= c /\ handlers' = handlers /\ deferStack' = deferStack
  BY <1>z DEF Takes
<1>1. /\ m \in DOMAIN cpp /\ m + 1 \in DOMAIN cpp /\ cpp[m].fn = "execute"
      /\ Ends(cpp[m + 1]) /\ Top = cpp[m + 2] /\ Top \in Record
      /\ Lim(m + 1) = s /\ s \in Nat /\ s = f
      /\ F \in Nat /\ F < s /\ f \in Nat /\ cpp[m + 1] \in Record
  <2>1. cpp \in Seq(Record) /\ m + 1 \in DOMAIN cpp
    BY <1>a, DeferFacts
  <2>2. cpp[m + 1] \in Record
    BY <2>1
  <2> QED BY <2>2, <1>a, <1>z, DeferFacts
<1>2. /\ NestedAt(m + 1) /\ StopAt(m + 1) /\ ClosedAt(m + 1) /\ ExitAt(m + 1)
      /\ cpp[m + 1].fn # "return" => Stop(cpp[m + 1]) < s
  BY <1>a, <1>z, DeferFacts
<1>3. /\ a = frames[s] /\ deferStack[s] = <<>> /\ runs[s] \notin {"defer", "gen"} /\ Pends(t, a)'
  <2>1. Taken(d, t, a, s, Len(defers), Top.todo, Len(Top.todo))
    BY <1>z, TakenDefer
  <2> QED BY <2>1 DEF Taken
<1>5. /\ m + 1 # L /\ m + 1 + 1 = m + 2 /\ m + 1 - 1 = m /\ m + 1 > 1
      /\ m \in 1 .. m + 1 /\ m + 1 \in 1 .. m + 1
      /\ \A k \in 1 .. m : k \in 1 .. m + 1
      /\ \A i \in 1 .. s : i \in 1 .. f
      /\ s \in 1 .. f /\ s \in 1 .. s /\ F + 1 \in 1 .. f
      /\ s > 0 /\ s <= c /\ F < c /\ F < f
  BY <1>1, <1>b, <1>c
<1>6. /\ cpp'[m + 2].fn = "defers" /\ cpp'[m + 2].todo = t /\ cpp'[m + 2].saved = s
      /\ cpp'[m + 2].act = a
  BY <1>1, <1>a, <1>b DEF Record
<1>7. MarkAt(m + 2)'
  <2>1. (Mark(cpp[m + 2]))' = s
    BY <1>6 DEF Mark
  <2> QED BY <2>1, <1>5, <1>z DEF MarkAt
<1>8. TodoAt(m + 2)'
  <2>1. (Pends(cpp[m + 2].todo, cpp[m + 2].act))'
    BY <1>3, <1>6 DEF Pends, Rising
  <2>2. a = frames'[s] /\ deferStack'[s] = <<>> /\ runs'[s] \notin {"defer", "gen"}
    BY <1>3, <1>5, <1>c
  <2> QED BY <2>1, <2>2, <1>5, <1>6 DEF TodoAt
<1>9. m > 1 => DeferFrameAt(m - 1)'
  <2>1. F < frameCount' /\ F < frameCount /\ runs'[F + 1] = runs[F + 1]
    BY <1>5, <1>c, <1>z
  <2> QED BY <2>1, <1>1, <1>z, FrameKept
<1>10. Floor(m)' = Floor(m) /\ cpp'[m] = cpp[m] /\ cpp'[m + 1] = cpp[m + 1]
  <2>1. m <= Len(cpp')
    BY <1>b
  <2> QED BY <2>1, <1>1, <1>5, <1>b, ExecKept
<1>11. Lim(m + 1)' = s /\ (Stop(cpp[m + 1]))' = Stop(cpp[m + 1])
  <2>1. Lim(m + 1)' = (Mark(cpp[m + 2]))'
    BY <1>5, <1>b DEF Lim
  <2> QED BY <2>1, <1>6, <1>10 DEF Mark, Stop
<1>12. Ends(cpp'[m + 1]) /\ (cpp'[m + 1].fn = "unwind" => cpp'[m + 1].target = cpp[m].base)
  <2>1. cpp[m + 1].fn = "unwind" => cpp[m + 1].target = cpp[m].base
    BY <1>2, <1>5 DEF NestedAt
  <2> QED BY <2>1, <1>1, <1>10 DEF Ends
<1>13. Floor(m + 1 - 1)' = Floor(m + 1 - 1)
  BY <1>5, <1>10
<1>14. StopAt(m + 1)'
  <2>1. cpp[m + 1].fn \in {"catch", "unwind"} => Stop(cpp[m + 1]) < s /\ Stop(cpp[m + 1]) <= s
    BY <1>1, <1>2 DEF StopAt
  <2>2. cpp[m + 1].fn = "return" => Floor(m + 1 - 1) < s
    BY <1>1, <1>2 DEF StopAt
  <2>3. cpp[m + 1].fn = "catch" => Floor(m + 1 - 1) < cpp[m + 1].handler.frame
    BY <1>2 DEF StopAt
  <2> QED BY <2>1, <2>2, <2>3, <1>10, <1>11, <1>13 DEF StopAt
<1>15. ClosedAt(m + 1)'
  <2>1. cpp[m + 1].fn = "return" => open'[s] = 0
    BY <1>1, <1>2, <1>5, <1>c DEF ClosedAt
  <2>2. cpp[m + 1].fn = "unwind" => \A i \in Floor(m) + 1 .. s : open'[i] = 0
    <3>1. \A i \in F + 1 .. s : i \in 1 .. f
      BY <1>1
    <3>2. cpp[m + 1].fn = "unwind" => \A i \in F + 1 .. s : open[i] = 0
      BY <1>1, <1>2, <1>5, <1>z DEF ClosedAt
    <3> QED BY <3>1, <3>2, <1>c, <1>z
  <2>3. ASSUME cpp[m + 1].fn = "catch", NEW h, h = cpp[m + 1].handler
        PROVE  /\ h.frame \in 1 .. s
               /\ \A i \in h.frame + 1 .. s : open'[i] = 0
               /\ h.act = frames'[h.frame] /\ open'[h.frame] = h.depth + 1
               /\ \A j \in DOMAIN handlers : handlers[j].frame = h.frame => handlers[j].depth < h.depth
    <3>1. h.frame \in Nat
      BY <2>3, <1>1, RecordFacts DEF Handler
    <3>2. F < h.frame /\ h.frame < s
      BY <2>3, <1>2, <1>5, <1>z DEF StopAt, Stop
    <3>3. h.frame \in 1 .. s /\ h.frame \in 1 .. f /\ \A i \in h.frame + 1 .. s : i \in 1 .. f
      BY <3>1, <3>2, <1>1
    <3>4. /\ \A i \in h.frame + 1 .. s : open[i] = 0
          /\ h.act = frames[h.frame] /\ open[h.frame] = h.depth + 1
          /\ \A j \in DOMAIN handlers : handlers[j].frame = h.frame => handlers[j].depth < h.depth
      BY <2>3, <1>1, <1>2 DEF ClosedAt
    <3> QED BY <3>3, <3>4, <1>c
  <2> QED BY <2>1, <2>2, <2>3, <1>5, <1>10, <1>11, <1>13, <1>c DEF ClosedAt
<1>16. ExitAt(m + 1)'
  <2> SUFFICES ASSUME cpp[m + 1].fn = "unwind", cpp[m + 1].how = "exit"
               PROVE  ExitFree(m + 1, s)'
    BY <1>10, <1>11 DEF ExitAt
  <2>1. /\ \A j \in 1 .. m : cpp[j].fn # "defers"
        /\ \A j \in 1 .. m : cpp[j].fn = "resume" => \E p \in j .. m : cpp[p].fn = "posted"
        /\ \A i \in 1 .. s : open[i] # 0 =>
             \E p \in 1 .. m : cpp[p].fn = "posted" /\ i <= cpp[p].caller.n
    <3>1. ExitFree(m + 1, s)
      BY <1>1, <1>2 DEF ExitAt
    <3> QED BY <3>1, <1>5, ExitFreeFacts
  <2>2. \A j \in 1 .. m : \A p \in j .. m : p \in 1 .. m
    OBVIOUS
  <2>3. \A j \in 1 .. m : cpp'[j] = cpp[j]
    BY <1>5, <1>b
  <2>4. \A i \in 1 .. s : open'[i] = open[i]
    BY <1>5, <1>c
  <2>5. /\ \A j \in 1 .. m : cpp'[j].fn # "defers"
        /\ \A j \in 1 .. m : cpp'[j].fn = "resume" => \E p \in j .. m : cpp'[p].fn = "posted"
    BY <2>1, <2>2, <2>3
  <2>6. \A i \in 1 .. s : open'[i] # 0 =>
          \E p \in 1 .. m : cpp'[p].fn = "posted" /\ i <= cpp'[p].caller.n
    BY <2>1, <2>3, <2>4
  <2> QED BY <2>5, <2>6, <1>5 DEF ExitFree
<1> QED BY <1>6, <1>7, <1>8, <1>9, <1>12, <1>14, <1>15, <1>16

\* The record of a list of deferred calls without its last.
LEMMA RestRecord ==
  ASSUME IInv, cpp # <<>>, Top.fn = "defers", Top.todo # <<>>, NEW m \in Nat \ {0}, Len(cpp) = m + 2
  PROVE  [Top EXCEPT !.todo = Front(Top.todo)] \in Record
<1>1. Top \in Record /\ Top.todo \in Seq(Nat)
  BY DeferFacts
<1>2. Front(Top.todo) \in Seq(Nat)
  BY <1>1, ListParts
<1>3. Top \in [fn : {"defers"}, todo : Seq(Nat), act : Nat, saved : Nat]
  BY <1>1 DEF Record
<1> HIDE DEF Front, Top
<1>4. [Top EXCEPT !.todo = Front(Top.todo)] \in [fn : {"defers"}, todo : Seq(Nat), act : Nat, saved : Nat]
  BY <1>2, <1>3
<1> QED BY <1>4 DEF Record

\* In the last slot no try block is open: the call beyond FRAMES_MAX counts as
\* a failed defer.
LEMMA StartDeferAtLimitKeeps ==
  ASSUME IInv, StartDeferAtLimit
  PROVE  IInv'
<1>a. /\ cpp # <<>> /\ Top.fn = "defers" /\ ret = "none" /\ Top.todo # <<>> /\ frameCount = FramesMax
      /\ UNCHANGED <<frames, frameCount, kind, trys, gone, deferStack, ret, generator, currentGen, used>>
  BY DEF StartDeferAtLimit, Resumed, frameVars, genVars
<1>b. PICK m \in Nat \ {0} : Len(cpp) = m + 2
  BY <1>a, DeferRoom
<1>z. SUFFICES ASSUME NEW d, d = Last(Top.todo), NEW t, t = Front(Top.todo), NEW a, a = Top.act,
                      NEW s, s = Top.saved, NEW R, R = [Top EXCEPT !.todo = t]
               PROVE  IInv'
  OBVIOUS
<1>1. /\ m \in DOMAIN cpp /\ cpp[m].fn = "execute" /\ Top = cpp[m + 2] /\ s \in Nat /\ frameCount = s
      /\ s <= FramesMax /\ FramesMax \in Nat /\ Floor(m) \in Nat /\ Floor(m) < s
      /\ Below \in Seq(Record) /\ Len(Below) = m + 1 /\ (\A k \in 1 .. m + 1 : Below[k] = cpp[k])
  BY <1>a, <1>b, <1>z, DeferFacts
<1>2. handlers = <<>>
  <2>1. TodoAt(m + 2)
    BY <1>a, <1>b, DeferFacts
  <2>2. runs[s] # "defer"
    BY <2>1, <1>a, <1>1, <1>z DEF TodoAt
  <2> QED BY <2>2, <1>a, <1>1 DEF IInv, LastSlot
<1>3. cpp[Topmost("execute")].floor \in Nat
  <2>1. \E i \in DOMAIN cpp : cpp[i].fn = "execute"
    BY <1>1
  <2>2. Topmost("execute") \in DOMAIN cpp /\ cpp[Topmost("execute")].fn = "execute"
    BY <2>1, TopmostFacts DEF IInv
  <2>3. cpp[Topmost("execute")] \in Record
    BY <2>2, TypeFacts DEF IInv, TypeFact
  <2> QED BY <2>2, <2>3, RecordFacts
<1>4. ~(Len(handlers) > cpp[Topmost("execute")].floor)
  BY <1>2, <1>3
<1>5. Started(d) /\ cpp' = Append(Below, R) /\ handlers' = handlers
  BY <1>4, <1>z DEF StartDeferAtLimit, NextDefer
<1>6. R \in Record
  BY <1>a, <1>b, <1>z, RestRecord
<1>7. /\ cpp' \in Seq(Record) /\ Len(cpp') = m + 2 /\ cpp'[m + 2] = R
      /\ \A k \in 1 .. m + 1 : cpp'[k] = cpp[k]
  <2>1. /\ Append(Below, R) \in Seq(Record) /\ Len(Append(Below, R)) = m + 1 + 1
        /\ \A k \in 1 .. m + 1 : Append(Below, R)[k] = Below[k]
        /\ Append(Below, R)[m + 1 + 1] = R
    BY <1>1, <1>6, Appended
  <2>2. m + 1 + 1 = m + 2
    OBVIOUS
  <2> QED BY <2>1, <2>2, <1>1, <1>5
<1>8. Takes(m, d, t, a, m + 2)
  <2>1. /\ frames \in [1 .. FramesMax -> Nat] /\ kind \in Seq({"script", "func", "gen", "defer"})
        /\ trys \in Seq(Nat) /\ Len(trys) = Len(kind) /\ Len(kind) \in Nat
    BY DEF IInv, TypeOK
  <2>2. \A i \in frameCount + 1 .. frameCount' : FALSE
    BY <1>a, <1>1
  <2>3. \A b \in Len(kind) + 1 .. Len(kind') : FALSE
    BY <2>1, <1>a
  <2>4. open' = open /\ runs' = runs
    BY <1>a DEF open, runs
  <2>5. frameCount' \in Nat /\ frameCount <= frameCount' /\ frameCount' <= frameCount + 1
        /\ frameCount' <= FramesMax /\ Len(kind) <= Len(kind')
    BY <2>1, <1>a, <1>1
  <2>6. m + 2 \in {m + 2, m + 3} /\ m + 2 # m + 3
    OBVIOUS
  <2> QED BY <2>1, <2>2, <2>3, <2>4, <2>5, <2>6, <1>a, <1>b, <1>5, <1>7, <1>z DEF Takes
<1>9. TypeOK' /\ Kept(m) /\ FramesAbove(m)' /\ Floor(m)' = Floor(m)
  BY <1>8, DeferTaken
<1>10. /\ m > 1 => DeferFrameAt(m - 1)'
       /\ Ends(cpp'[m + 1]) /\ (cpp'[m + 1].fn = "unwind" => cpp'[m + 1].target = cpp[m].base)
       /\ StopAt(m + 1)' /\ ClosedAt(m + 1)' /\ ExitAt(m + 1)'
       /\ cpp'[m + 2].fn = "defers" /\ cpp'[m + 2].saved = s
       /\ MarkAt(m + 2)' /\ TodoAt(m + 2)'
  BY <1>8, <1>9, <1>z, TakenStack
<1>11. frameCount' = s /\ ~(frameCount' > s) /\ ret' = "none" /\ s + 1 >= s
  BY <1>a, <1>1
<1>12. StackAbove(m)'
  <2>1. DeferFrameAt(m + 2)'
    <3>1. ~(m + 2 < m + 2)
      OBVIOUS
    <3> QED BY <3>1, <1>7, <1>10, <1>11 DEF DeferFrameAt
  <2>2. cpp'[m + 2].saved > Floor(m)
    BY <1>1, <1>10
  <2> QED BY <2>1, <2>2, <1>1, <1>7, <1>9, <1>10, DefersOnTop
<1>13. Reported' /\ TopFrames' /\ OverClosed'
  <2>1. Len(cpp') # 0
    BY <1>7
  <2>2. Top' = cpp'[m + 2]
    BY <2>1, <1>7, <1>9, NextTop
  <2>3. Top'.fn = "defers" /\ Top'.saved = s
    BY <2>2, <1>10
  <2>4. Reported'
    BY <2>3, <1>11 DEF Reported, Ends, Calls
  <2>5. TopFrames'
    BY <2>3, <1>11, <1>1 DEF TopFrames, Calls
  <2>6. OverClosed'
    BY <1>11 DEF OverClosed
  <2> QED BY <2>4, <2>5, <2>6
<1>14. Above(m)'
  BY <1>9, <1>12, <1>13 DEF Above
<1> QED BY <1>1, <1>9, <1>14, Assembled

\* A deferred call has begun.
LEMMA DeferCallOnTop ==
  ASSUME IInv, NEW m \in DOMAIN cpp, cpp[m].fn = "execute", Kept(m), TypeOK', Len(cpp') = m + 3,
         NEW s \in Nat, s = frameCount, Floor(m) < s,
         m > 1 => DeferFrameAt(m - 1)',
         Ends(cpp'[m + 1]), cpp'[m + 1].fn = "unwind" => cpp'[m + 1].target = cpp[m].base,
         StopAt(m + 1)', ClosedAt(m + 1)', ExitAt(m + 1)',
         cpp'[m + 2].fn = "defers", cpp'[m + 2].saved = s, MarkAt(m + 2)', TodoAt(m + 2)',
         cpp'[m + 3] = Exec(frameCount + 1), handlers' = handlers,
         frameCount' = s + 1, runs'[s + 1] = "defer"
  PROVE  StackAbove(m)' /\ Floor(m + 3)' = s
<1>1. /\ m \in Nat \ {0} /\ cpp'[m] = cpp[m] /\ RecordAt(m)' /\ ~Waits(cpp'[m])
      /\ \A k \in m .. Len(cpp') : k = m \/ k = m + 1 \/ k = m + 2 \/ k = m + 3
  <2>1. m \in Nat \ {0} /\ m <= Len(cpp')
    BY BelowExec
  <2>2. \A k \in m .. Len(cpp') : k = m \/ k = m + 1 \/ k = m + 2 \/ k = m + 3
    BY <2>1
  <2> QED BY <2>1, <2>2, ExecKept
<1>2. /\ m + 1 > 1 /\ m + 1 # 1 /\ m + 1 - 1 = m /\ m + 1 \in Nat /\ cpp'[m].fn = "execute"
      /\ ~Waits(cpp'[m + 1]) /\ ~Calls(cpp'[m + 1]) /\ cpp'[m + 1].fn # "execute"
      /\ cpp'[m + 1].fn # "defers" /\ cpp'[m + 1].fn # "resume"
  BY <1>1 DEF Ends, Waits, Calls
<1>3. NestedAt(m + 1)' /\ TodoAt(m + 1)' /\ DeferFrameAt(m + 1)'
  BY <1>1, <1>2 DEF NestedAt, TodoAt, DeferFrameAt
<1>4. MarkAt(m + 1)' /\ ResumeAt(m + 1)' /\ FloorAt(m + 1)' /\ CallerAt(m + 1)'
  BY <1>2 DEF MarkAt, ResumeAt, FloorAt, CallerAt
<1>5. RecordAt(m + 1)'
  BY <1>3, <1>4 DEF RecordAt
<1>6. /\ m + 2 > 1 /\ m + 2 # 1 /\ m + 2 - 1 = m + 1 /\ m + 2 \in Nat
      /\ Waits(cpp'[m + 2]) /\ ~Calls(cpp'[m + 2]) /\ ~Ends(cpp'[m + 2])
  BY <1>1 DEF Ends, Waits, Calls
<1>7. NestedAt(m + 2)' /\ StopAt(m + 2)' /\ ResumeAt(m + 2)' /\ FloorAt(m + 2)'
  <2>1. m + 2 - 1 = m + 1 /\ m \in Nat
    BY <1>1
  <2> QED BY <2>1, <1>6 DEF NestedAt, StopAt, ResumeAt, FloorAt, Ends
<1>8. CallerAt(m + 2)' /\ ClosedAt(m + 2)' /\ ExitAt(m + 2)' /\ DeferFrameAt(m + 2)'
  BY <1>6 DEF CallerAt, ClosedAt, ExitAt, DeferFrameAt
<1>9. RecordAt(m + 2)'
  BY <1>7, <1>8 DEF RecordAt
<1>10. /\ m + 3 # 1 /\ m + 3 - 1 = m + 2 /\ m + 3 > 1 /\ m + 3 \in Nat
       /\ cpp'[m + 3].fn = "execute" /\ cpp'[m + 3].base = s + 1
       /\ cpp'[m + 3].floor = Len(handlers)
       /\ ~Waits(cpp'[m + 3]) /\ ~Calls(cpp'[m + 3]) /\ ~Ends(cpp'[m + 3])
  BY <1>1 DEF Exec, Waits, Calls, Ends
<1>11. Floor(m + 3)' = s
  <2>1. Floor(m + 3)' = (Mark(cpp[m + 2]))'
    BY <1>1, <1>10 DEF Floor
  <2> QED BY <2>1 DEF Mark
<1>12. RecordAt(m + 3)'
  <2>1. NestedAt(m + 3)'
    <3>1. m + 3 - 1 = m + 2 /\ m \in Nat
      BY <1>1
    <3> QED BY <3>1, <1>6, <1>10 DEF NestedAt
  <2>2. MarkAt(m + 3)' /\ StopAt(m + 3)' /\ ResumeAt(m + 3)' /\ CallerAt(m + 3)'
    BY <1>10 DEF MarkAt, StopAt, ResumeAt, CallerAt
  <2>3. ClosedAt(m + 3)' /\ ExitAt(m + 3)' /\ TodoAt(m + 3)' /\ DeferFrameAt(m + 3)'
    BY <1>10 DEF ClosedAt, ExitAt, TodoAt, DeferFrameAt
  <2>4. FloorAt(m + 3)'
    <3>1. /\ Len(handlers) \in Nat /\ DOMAIN handlers = 1 .. Len(handlers)
      BY TypeFacts DEF IInv, TypeFact
    <3>2. \A j \in DOMAIN handlers : j <= Len(handlers) /\ handlers[j].frame <= s
      BY <3>1 DEF IInv, HandlersLive
    <3> QED BY <3>1, <3>2, <1>10, <1>11 DEF FloorAt
  <2> QED BY <2>1, <2>2, <2>3, <2>4 DEF RecordAt
<1>13. m > 1 => Mark(cpp'[m + 2]) > Mark(cpp'[m - 1])
  <2>1. m > 1 => Floor(m) = Mark(cpp[m - 1]) /\ cpp'[m - 1] = cpp[m - 1]
    <3>1. m > 1 => m - 1 \in 1 .. m - 1 /\ m # 1
      BY <1>1
    <3>2. m > 1 => cpp'[m - 1] = cpp[m - 1]
      BY <3>1 DEF Kept
    <3> QED BY <3>1, <3>2 DEF Floor
  <2>2. Mark(cpp'[m + 2]) = s
    BY DEF Mark
  <2> QED BY <2>1, <2>2
<1>14. (m > 1 => DeferFrameAt(m - 1) /\ (Len(cpp) = m - 1 => CallerAt(m - 1)))'
  BY <1>1
<1>15. (\A k \in m .. Len(cpp) : RecordAt(k))'
  BY <1>1, <1>5, <1>9, <1>12
<1>16. (\A k \in m .. Len(cpp) : Waits(cpp[k]) =>
          /\ m > 1 => Mark(cpp[k]) > Mark(cpp[m - 1])
          /\ \A x \in m .. Len(cpp) : Waits(cpp[x]) => x = k)'
  BY <1>1, <1>2, <1>10, <1>13
<1>17. StackAbove(m)'
  BY <1>14, <1>15, <1>16 DEF StackAbove
<1> QED BY <1>11, <1>17

LEMMA StartDeferKeeps ==
  ASSUME IInv, StartDefer
  PROVE  IInv'
<1>a. /\ cpp # <<>> /\ Top.fn = "defers" /\ ret = "none" /\ Top.todo # <<>> /\ PushFrame("defer")
      /\ UNCHANGED <<handlers, deferStack, ret, generator, currentGen, used>>
  BY DEF StartDefer, Resumed, genVars
<1>b. PICK m \in Nat \ {0} : Len(cpp) = m + 2
  BY <1>a, DeferRoom
<1>z. SUFFICES ASSUME NEW d, d = Last(Top.todo), NEW t, t = Front(Top.todo), NEW a, a = Top.act,
                      NEW s, s = Top.saved, NEW R, R = [Top EXCEPT !.todo = t],
                      NEW E, E = Exec(frameCount + 1)
               PROVE  IInv'
  OBVIOUS
<1>1. /\ m \in DOMAIN cpp /\ cpp[m].fn = "execute" /\ Top = cpp[m + 2] /\ s \in Nat /\ frameCount = s
      /\ s <= FramesMax /\ FramesMax \in Nat /\ Floor(m) \in Nat /\ Floor(m) < s
      /\ Below \in Seq(Record) /\ Len(Below) = m + 1 /\ (\A k \in 1 .. m + 1 : Below[k] = cpp[k])
  BY <1>a, <1>b, <1>z, DeferFacts
<1>2. Started(d) /\ cpp' = Below \o <<R, E>>
  BY <1>z DEF StartDefer, NextDefer
<1>3. R \in Record
  BY <1>a, <1>b, <1>z, RestRecord
<1>4. E \in Record /\ E.fn = "execute"
  <2>1. Len(handlers) \in Nat /\ frameCount + 1 \in Nat
    BY <1>1, TypeFacts DEF IInv, TypeFact
  <2> QED BY <2>1, <1>z, RecordTypes DEF Exec
<1>5. /\ cpp' \in Seq(Record) /\ Len(cpp') = m + 3 /\ cpp'[m + 2] = R /\ cpp'[m + 3] = E
      /\ \A k \in 1 .. m + 1 : cpp'[k] = cpp[k]
  <2>1. ASSUME NEW b \in Seq(Record), NEW r \in Record, NEW e \in Record, Len(b) = m + 1,
               cpp' = b \o <<r, e>>
        PROVE  /\ cpp' \in Seq(Record) /\ Len(cpp') = m + 3 /\ cpp'[m + 2] = r /\ cpp'[m + 3] = e
               /\ \A k \in 1 .. m + 1 : cpp'[k] = b[k]
    BY <2>1, AppendedTwo
  <2> QED BY <2>1, <1>1, <1>2, <1>3, <1>4
<1>6. /\ frameCount' = s + 1 /\ frameCount' \in Nat /\ frameCount <= frameCount' /\ frameCount' <= FramesMax
      /\ frameCount' <= frameCount + 1 /\ gone' = gone
      /\ frames' \in [1 .. FramesMax -> Nat] /\ kind' \in Seq({"script", "func", "gen", "defer"})
      /\ trys' \in Seq(Nat) /\ Len(trys') = Len(kind')
  <2>1. frameCount' = frameCount + 1 /\ frameCount' \in 1 .. FramesMax /\ gone' = gone
    BY <1>a, PushFacts
  <2>2. /\ frames' \in [1 .. FramesMax -> Nat] /\ kind' \in Seq({"script", "func", "gen", "defer"})
        /\ trys' \in Seq(Nat) /\ Len(trys') = Len(kind')
    BY <1>a, PushFacts
  <2> QED BY <2>1, <2>2, <1>1
<1>7. /\ Len(kind) \in Nat /\ Len(kind') = Len(kind) + 1
      /\ \A i \in 1 .. frameCount : frames'[i] = frames[i] /\ open'[i] = open[i] /\ runs'[i] = runs[i]
      /\ frames'[frameCount + 1] = Len(kind) + 1
      /\ \A x \in 1 .. Len(kind) : kind'[x] = kind[x] /\ trys'[x] = trys[x]
      /\ kind'[Len(kind) + 1] = "defer"
      /\ runs'[frameCount + 1] = "defer" /\ open'[frameCount + 1] = 0
  BY <1>a, PushFacts
<1>8. Takes(m, d, t, a, m + 3)
  <2>1. Len(kind') \in Nat /\ Len(kind) <= Len(kind')
    BY <1>7
  <2>2. \A b \in Len(kind) + 1 .. Len(kind') : kind'[b] # "gen"
    <3>1. \A b \in Len(kind) + 1 .. Len(kind') : b = Len(kind) + 1
      BY <1>7
    <3> QED BY <3>1, <1>7
  <2>3. \A i \in frameCount + 1 .. frameCount' :
          frames'[i] \in Len(kind) + 1 .. Len(kind') /\ runs'[i] = "defer" /\ open'[i] = 0
    <3>1. \A i \in frameCount + 1 .. frameCount' : i = frameCount + 1
      BY <1>1, <1>6
    <3>2. Len(kind) + 1 \in Len(kind) + 1 .. Len(kind')
      BY <1>7
    <3> QED BY <3>1, <3>2, <1>7
  <2>4. m + 3 \in {m + 2, m + 3}
    OBVIOUS
  <2> QED BY <2>1, <2>2, <2>3, <2>4, <1>a, <1>b, <1>2, <1>4, <1>5, <1>6, <1>7, <1>z DEF Takes
<1>9. TypeOK' /\ Kept(m) /\ FramesAbove(m)' /\ Floor(m)' = Floor(m)
  BY <1>8, DeferTaken
<1>10. /\ m > 1 => DeferFrameAt(m - 1)'
       /\ Ends(cpp'[m + 1]) /\ (cpp'[m + 1].fn = "unwind" => cpp'[m + 1].target = cpp[m].base)
       /\ StopAt(m + 1)' /\ ClosedAt(m + 1)' /\ ExitAt(m + 1)'
       /\ cpp'[m + 2].fn = "defers" /\ cpp'[m + 2].saved = s
       /\ MarkAt(m + 2)' /\ TodoAt(m + 2)'
  BY <1>8, <1>9, <1>z, TakenStack
<1>11. StackAbove(m)' /\ Floor(m + 3)' = s
  <2>1. runs'[s + 1] = "defer" /\ cpp'[m + 3] = Exec(frameCount + 1) /\ handlers' = handlers
    BY <1>a, <1>1, <1>5, <1>7, <1>z
  <2> QED BY <2>1, <1>1, <1>5, <1>6, <1>9, <1>10, DeferCallOnTop
<1>13. Reported' /\ TopFrames' /\ OverClosed'
  <2>1. Len(cpp') # 0
    BY <1>5
  <2>2. Top' = cpp'[m + 3]
    BY <2>1, <1>5, <1>9, NextTop
  <2>3. Top'.fn = "execute"
    BY <2>2, <1>4, <1>5
  <2>4. Reported'
    BY <2>3, <1>a DEF Reported, Ends, Calls
  <2>5. TopFrames'
    <3>1. Floor(Len(cpp))' = s
      BY <1>5, <1>11
    <3> QED BY <2>3, <3>1, <1>1, <1>6 DEF TopFrames, Calls
  <2>6. OverClosed'
    BY <2>3 DEF OverClosed
  <2> QED BY <2>4, <2>5, <2>6
<1>14. Above(m)'
  BY <1>9, <1>11, <1>13 DEF Above
<1> QED BY <1>1, <1>9, <1>14, Assembled

\* An exit that is reported to an execute() unwinds its frames, and natives let
\* it through.
LEMMA ExitPassesKeeps ==
  ASSUME IInv, ExitPasses
  PROVE  IInv'
<1> SUFFICES ASSUME NEW n, n = Len(cpp), NEW f, f = frameCount
             PROVE  IInv'
  OBVIOUS
<1>1. /\ ret = "exit" /\ cpp # <<>>
      /\ UNCHANGED <<handlers, deferStack, generator, currentGen, defers, used>>
  BY DEF ExitPasses, genVars
<1>2. /\ n \in Nat \ {0} /\ DOMAIN cpp = 1 .. n /\ n \in DOMAIN cpp /\ Top = cpp[n]
      /\ cpp \in Seq(Record) /\ Top \in Record /\ f \in Nat /\ n + 1 - 1 = n
      /\ handlers \in Seq(Handler)
  <2>1. cpp \in Seq(Record) /\ handlers \in Seq(Handler)
    BY DEF IInv, TypeOK
  <2>2. n \in Nat \ {0} /\ Top = cpp[n] /\ Top \in Record
    BY <2>1, <1>1, FrontLast DEF Top
  <2> QED BY <2>1, <2>2, TypeFacts DEF IInv, TypeFact
<1>3. /\ \A j \in 1 .. n : cpp[j].fn # "defers"
      /\ \A j \in 1 .. n : cpp[j].fn = "resume" => \E p \in j .. n : cpp[p].fn = "posted"
      /\ \A i \in 1 .. f : open[i] # 0 =>
           \E p \in 1 .. n : cpp[p].fn = "posted" /\ i <= cpp[p].caller.n
  <2>1. ExitFree(n + 1, f)
    BY <1>1 DEF IInv, ExitsFree
  <2> QED BY <2>1, <1>2, ExitFreeFacts
<1>4. Top.fn \in {"execute", "native"}
  <2>1. ~Ends(Top)
    BY <1>1 DEF IInv, Reported
  <2>2. Top.fn # "defers"
    BY <1>2, <1>3
  <2>3. Top.fn # "posted"
    BY DEF ExitPasses
  <2>4. Top.fn # "resume"
    <3>1. n \in 1 .. n /\ \A p \in n .. n : p = n
      BY <1>2
    <3> QED BY <3>1, <2>3, <1>2, <1>3
  <2> QED BY <2>1, <2>2, <2>3, <2>4, <1>2, RecordFacts DEF Waits, Calls
<1>5. CASE Top.fn = "native"
  <2>1. cpp' = Below /\ ret' = "exit" /\ UNCHANGED <<frames, frameCount, kind, trys, gone>>
    BY <1>1, <1>5 DEF ExitPasses, frameVars
  <2>2. Calls(Top)
    BY <1>5 DEF Calls
  <2>3. /\ n > 1 /\ n = n - 1 + 1
        /\ n - 1 \in DOMAIN cpp /\ cpp[n - 1].fn = "execute" /\ Calm(n - 1)
        /\ Below \in Seq(Record) /\ Len(Below) = n - 1 /\ \A k \in 1 .. n - 1 : Below[k] = cpp[k]
    BY <2>2, <1>1, CallFacts
  <2>4. GeneratorDone(n - 1)
    BY <2>3, <1>1, <1>2, <1>5 DEF GeneratorDone
  <2>5. Len(cpp') = n - 1 /\ DOMAIN cpp' = 1 .. n - 1 /\ \A k \in 1 .. n - 1 : cpp'[k] = cpp[k]
    BY <2>1, <2>3
  <2>6. Steady(n - 1)
    <3>1. HandlersKept(n - 1)
      BY <2>3, <1>1, SameHandlers
    <3>2. \A k \in DOMAIN cpp' : ~(k > n - 1)
      BY <2>5, <1>2
    <3>3. n - 1 <= Len(cpp') /\ handlers' = handlers
      BY <2>5, <1>1, <1>2
    <3>4. UNCHANGED <<deferStack, defers, used>>
      BY <1>1
    <3> QED BY <3>1, <3>2, <3>3, <3>4, <2>1, <2>3, <2>4, <2>5, <1>2 DEF Steady
  <2>7. \A k \in 1 .. n - 1 : k \in 1 .. n
    BY <1>2
  <2>8. \A k \in 1 .. n : cpp[k].fn = "posted" => k \in 1 .. n - 1
    BY <1>2, <1>5
  <2>9. ExitFree(Len(cpp) + 1, frameCount)'
    <3>1. frameCount' = f /\ open' = open /\ (Len(cpp) + 1)' - 1 = n - 1
      BY <2>1, <2>5, <1>2 DEF open
    <3>2. \A j \in 1 .. n - 1 : cpp'[j].fn # "defers"
      BY <2>5, <2>7, <1>3
    <3>3. \A j \in 1 .. n - 1 : cpp'[j].fn = "resume" => \E p \in j .. n - 1 : cpp'[p].fn = "posted"
      <4> SUFFICES ASSUME NEW j \in 1 .. n - 1, cpp'[j].fn = "resume"
                   PROVE  \E p \in j .. n - 1 : cpp'[p].fn = "posted"
        OBVIOUS
      <4>1. PICK p \in j .. n : cpp[p].fn = "posted"
        BY <2>5, <2>7, <1>3
      <4>2. p \in 1 .. n /\ p \in Nat
        BY <1>2
      <4>3. p \in 1 .. n - 1
        BY <4>1, <4>2, <2>8
      <4>4. p \in j .. n - 1
        BY <4>3, <1>2
      <4> QED BY <4>1, <4>3, <4>4, <2>5
    <3>4. \A i \in 1 .. f : open[i] # 0 =>
            \E p \in 1 .. n - 1 : cpp'[p].fn = "posted" /\ i <= cpp'[p].caller.n
      BY <2>5, <2>8, <1>3
    <3> QED BY <3>1, <3>2, <3>3, <3>4 DEF ExitFree
  <2>10. \A k \in DOMAIN cpp' : cpp'[k].fn # "defers"
    BY <2>5, <2>7, <1>3
  <2>11. Len(cpp') = n - 1 /\ handlers' = handlers
    BY <2>5, <1>1
  <2> QED BY <2>3, <2>6, <2>9, <2>10, <2>11, GoesOn
<1>6. CASE Top.fn = "execute"
  <2> DEFINE u == [fn |-> "unwind", target |-> Top.base, how |-> "exit"]
  <2>1. /\ cpp' = Append(cpp, u) /\ ret' = "none"
        /\ UNCHANGED <<frames, frameCount, kind, trys, gone>>
    BY <1>1, <1>6 DEF ExitPasses, frameVars
  <2>2. u \in Record
    BY <1>2, <1>6, RecordFacts, RecordTypes
  <2>3. /\ u.fn = "unwind" /\ u.target = Top.base /\ u.how = "exit"
    OBVIOUS
  <2> HIDE DEF u
  <2>4. /\ cpp' \in Seq(Record) /\ Len(cpp') = n + 1 /\ \A k \in 1 .. n : cpp'[k] = cpp[k]
        /\ cpp'[n + 1] = u
    BY <2>1, <2>2, <1>2, Appended
  <2>5. cpp[n].fn = "execute" /\ Calm(n) /\ GeneratorDone(n)
    BY <1>1, <1>2, <1>6 DEF Calm, GeneratorDone
  <2>6. Steady(n)
    <3>1. HandlersKept(n)
      BY <2>5, <1>1, <1>2, SameHandlers
    <3>2. \A k \in DOMAIN cpp' : k > n => k = n + 1
      BY <2>4, <1>2
    <3>3. \A k \in DOMAIN cpp' : k > n => Ends(cpp'[k])
      BY <3>2, <2>3, <2>4 DEF Ends
    <3>4. n <= Len(cpp') /\ handlers' = handlers
      BY <2>4, <1>1, <1>2
    <3>5. UNCHANGED <<deferStack, defers, used>>
      BY <1>1
    <3> QED BY <3>1, <3>3, <3>4, <3>5, <2>1, <2>4, <2>5, <1>2 DEF Steady
  <2>7. /\ open' = open /\ frameCount' = f /\ Floor(n)' = Floor(n) /\ Floor(n) < f
        /\ Floor(n) \in Nat
    BY <2>5, <2>6, <1>2, SteadyFacts, BelowExec
  <2>8. Lim(n + 1)' = f /\ Floor(n + 1 - 1)' = Floor(n)
    BY <2>4, <2>7, <1>2 DEF Lim
  <2>9. cpp[n].base = Floor(n)
    <3>1. NestedAt(n)
      BY <1>2 DEF IInv, Nested
    <3>2. CASE n = 1
      BY <3>1, <3>2 DEF NestedAt, Floor
    <3>3. CASE n # 1
      <4>1. n > 1 /\ n - 1 \in 1 .. n
        BY <3>3, <1>2
      <4>2. Waits(cpp[n - 1]) /\ cpp[n - 1].fn # "defers"
        BY <4>1, <3>1, <2>5, <1>3 DEF NestedAt
      <4>3. Calls(cpp[n - 1])
        BY <4>2 DEF Waits
      <4> QED BY <4>1, <4>2, <4>3, <3>1, <3>3, <2>5 DEF NestedAt, Floor, Mark
    <3> QED BY <3>2, <3>3
  <2>10. StopAt(n + 1)'
    <3>1. (Stop(cpp[n + 1]))' = Floor(n)
      BY <2>3, <2>4, <2>9, <1>2 DEF Stop
    <3>2. ~(n + 1 < Len(cpp'))
      BY <2>4, <1>2
    <3>3. Floor(n) <= f
      BY <2>7, <1>2
    <3> QED BY <3>1, <3>2, <3>3, <2>3, <2>4, <2>8 DEF StopAt
  <2>11. ClosedAt(n + 1)'
    <3>1. ASSUME NEW i \in Floor(n) + 1 .. f
          PROVE  open[i] = 0
      <4> SUFFICES ASSUME open[i] # 0
                   PROVE  FALSE
        OBVIOUS
      <4>1. i \in 1 .. f /\ i > Floor(n) /\ i \in Nat
        BY <2>7, <1>2
      <4>2. PICK p \in 1 .. n : cpp[p].fn = "posted" /\ i <= cpp[p].caller.n
        BY <4>1, <1>3
      <4>3. p # n
        BY <4>2, <2>5
      <4>4. p \in 1 .. n - 1
        BY <4>3, <1>2
      <4>5. Waits(cpp[p]) /\ Mark(cpp[p]) = cpp[p].caller.n
        BY <4>2 DEF Waits, Calls, Mark
      <4>6. Mark(cpp[p]) \in Nat /\ Mark(cpp[p]) <= Floor(n)
        BY <4>4, <4>5, <2>5, <1>2, BelowExec
      <4> QED BY <4>1, <4>2, <4>5, <4>6, <2>7
    <3> QED BY <3>1, <2>3, <2>4, <2>7, <2>8 DEF ClosedAt
  <2>12. ExitAt(n + 1)'
    <3>1. \A j \in 1 .. n : \A p \in j .. n : p \in 1 .. n
      BY <1>2
    <3>2. /\ \A j \in 1 .. n : cpp'[j].fn # "defers"
          /\ \A j \in 1 .. n : cpp'[j].fn = "resume" => \E p \in j .. n : cpp'[p].fn = "posted"
      BY <3>1, <2>4, <1>3
    <3>3. \A i \in 1 .. f : open'[i] # 0 =>
            \E p \in 1 .. n : cpp'[p].fn = "posted" /\ i <= cpp'[p].caller.n
      BY <2>4, <2>7, <1>3
    <3>4. ExitFree(n + 1, f)'
      BY <3>2, <3>3, <1>2 DEF ExitFree
    <3> QED BY <3>4, <2>8 DEF ExitAt
  <2>13. \A i \in Floor(n) + 1 .. frameCount : \A d \in Nat :
           <<i, d>> \in handled => <<i, d>> \in handled' \cup caught'
    BY <1>1 DEF handled
  <2>14. cpp'[n + 1].fn = "unwind" => cpp'[n + 1].target = cpp[n].base
    BY <2>3, <2>4, <1>2
  <2> QED BY <2>1, <2>4, <2>5, <2>6, <2>10, <2>11, <2>12, <2>13, <2>14, <1>2, EndsBegin
<1> QED BY <1>4, <1>5, <1>6

-----------------------------------------------------------------------------
(* The invariant.                                                            *)

LEMMA InitInv == Init => IInv
<1> HAVE Init
<1>1. /\ frames = [i \in 1 .. FramesMax |-> IF i = 1 THEN 1 ELSE 0] /\ frameCount = 1
      /\ handlers = <<>> /\ deferStack = [i \in 1 .. FramesMax |-> <<>>]
      /\ cpp = <<[fn |-> "execute", base |-> 0, floor |-> 0]>> /\ ret = "none"
      /\ generator = [state |-> "none", act |-> 0] /\ currentGen = [set |-> FALSE, base |-> 0]
      /\ kind = <<"script">> /\ trys = <<0>> /\ defers = <<>> /\ gone = {}
      /\ used = [trys |-> 0, yields |-> 0]
  BY DEF Init
<1>2. FramesMax \in Nat \ {0} /\ 1 \in 1 .. FramesMax /\ 1 \in 1 .. 1
      /\ (\A k \in 1 .. 1 : k = 1) /\ \A i \in 1 + 1 .. 1 : FALSE
  BY BoundAssumption
<1>3. /\ Len(cpp) = 1 /\ DOMAIN cpp = 1 .. 1 /\ cpp # <<>> /\ cpp[1].fn = "execute"
      /\ cpp[1].base = 0 /\ cpp[1].floor = 0 /\ Top = cpp[1]
  BY <1>1 DEF Top, Last
<1>4. frames[1] = 1 /\ Len(kind) = 1 /\ Len(trys) = 1 /\ kind[1] = "script" /\ trys[1] = 0
  BY <1>1, <1>2
<1>5. /\ DOMAIN handlers = {} /\ Len(handlers) = 0 /\ DOMAIN defers = {} /\ Len(defers) = 0
      /\ \A d \in 1 .. Len(defers) : FALSE
  BY <1>1
<1>6. open[1] = 0 /\ runs[1] = "script" /\ (\A i \in 1 .. frameCount : i = 1)
  BY <1>1, <1>2, <1>4 DEF open, runs
<1>7. ~Waits(cpp[1]) /\ ~Ends(cpp[1]) /\ ~Calls(cpp[1])
  BY <1>3 DEF Waits, Ends, Calls
<1>8. \A k \in DOMAIN cpp : k = 1 /\ cpp[k].fn = "execute" /\ ~Waits(cpp[k]) /\ ~Ends(cpp[k]) /\ ~Calls(cpp[k])
  BY <1>2, <1>3, <1>7
<1>9. Floor(1) = 0
  BY DEF Floor
<1>10. TypeOK
  <2>1. cpp \in Seq(Record)
    <3>1. [fn |-> "execute", base |-> 0, floor |-> 0] \in Record
      BY RecordTypes
    <3> QED BY <3>1, <1>1
  <2>2. frames \in [1 .. FramesMax -> Nat] /\ frameCount \in 0 .. FramesMax
    BY <1>1, <1>2
  <2>3. deferStack \in [1 .. FramesMax -> Seq(Nat)] /\ handlers \in Seq(Handler)
        /\ defers \in Seq([owner : Nat, started : Nat])
    BY <1>1
  <2>4. kind \in Seq({"script", "func", "gen", "defer"}) /\ trys \in Seq(Nat) /\ Len(trys) = Len(kind)
    BY <1>1
  <2>5. /\ generator \in [state : {"none", "created", "running", "suspended", "completed"}, act : Nat]
        /\ currentGen \in GenRec /\ used \in [trys : Nat, yields : Nat]
    BY <1>1 DEF GenRec
  <2> QED BY <2>1, <2>2, <2>3, <2>4, <2>5, <1>1 DEF TypeOK
<1>11. Nested /\ Reported /\ MarksRise /\ MarksHold
  <2>1. Nested
    BY <1>3, <1>8 DEF Nested, NestedAt
  <2>2. Reported
    BY <1>1, <1>3, <1>7 DEF Reported
  <2>3. MarksRise /\ MarksHold
    BY <1>8 DEF MarksRise, MarksHold, MarkAt
  <2> QED BY <2>1, <2>2, <2>3
<1>12. TopFrames /\ EndsStop
  <2>1. TopFrames
    BY <1>1, <1>3, <1>7, <1>9 DEF TopFrames
  <2>2. EndsStop
    BY <1>8 DEF EndsStop, StopAt, Ends
  <2> QED BY <2>1, <2>2
<1>13. Live /\ DeferFrames /\ OneGenerator /\ Resumes
  <2>1. Live
    <3>1. \A i \in 1 .. frameCount : frames[i] \in 1 .. Len(kind) /\ frames[i] \notin gone
      BY <1>1, <1>2, <1>4, <1>6
    <3> QED BY <3>1, <1>6 DEF Live
  <2>2. DeferFrames
    BY <1>8 DEF DeferFrames, DeferFrameAt
  <2>3. OneGenerator
    <3>1. \A a \in 1 .. Len(kind) : kind[a] # "gen"
      BY <1>2, <1>4
    <3>2. generator.state = "none"
      BY <1>1
    <3> QED BY <3>1, <3>2, <1>8 DEF OneGenerator
  <2>4. Resumes
    <3>1. ~currentGen.set
      BY <1>1
    <3> QED BY <3>1, <1>6, <1>8 DEF Resumes, ResumeAt
  <2> QED BY <2>1, <2>2, <2>3, <2>4
<1>14. HandlersLive /\ HandlersRise /\ OpenHandled /\ FloorsExact /\ CallersKept
  <2>1. HandlersLive /\ HandlersRise
    BY <1>5 DEF HandlersLive, HandlersRise
  <2>2. OpenHandled
    <3>1. \A d \in Nat : ~(d < 0)
      OBVIOUS
    <3> QED BY <3>1, <1>6 DEF OpenHandled
  <2>3. FloorsExact
    <3>1. FloorAt(1)
      BY <1>3, <1>5, <1>9 DEF FloorAt
    <3> QED BY <3>1, <1>8 DEF FloorsExact
  <2>4. CallersKept
    BY <1>8 DEF CallersKept, CallerAt
  <2> QED BY <2>1, <2>2, <2>3, <2>4
<1>15. EndsClosed /\ OverClosed /\ DeferOpens /\ ExitsFree /\ LastSlot
  <2>1. EndsClosed
    BY <1>8 DEF EndsClosed, ClosedAt
  <2>2. OverClosed /\ LastSlot
    BY <1>1 DEF OverClosed, LastSlot
  <2>3. DeferOpens
    BY <1>6 DEF DeferOpens
  <2>4. ExitsFree
    BY <1>1, <1>8 DEF ExitsFree, ExitAt
  <2> QED BY <2>1, <2>2, <2>3, <2>4
<1>16. ListsExact /\ TodosExact /\ NoneLost /\ StartedEnds /\ DefersLifo
  <2>1. ListsExact
    <3>1. \A i \in 1 .. FramesMax : deferStack[i] = <<>> /\ DOMAIN deferStack[i] = {}
      BY <1>1
    <3> QED BY <3>1 DEF ListsExact, ListAt, Pends, Rising
  <2>2. TodosExact
    BY <1>8 DEF TodosExact, TodoAt
  <2>3. NoneLost /\ StartedEnds
    BY <1>5 DEF NoneLost, StartedEnds
  <2>4. DefersLifo
    BY <1>5 DEF DefersLifo
  <2> QED BY <2>1, <2>2, <2>3, <2>4
<1> QED BY <1>10, <1>11, <1>12, <1>13, <1>14, <1>15, <1>16 DEF IInv

LEMMA StillInv ==
  ASSUME IInv, UNCHANGED vars
  PROVE  IInv'
<1>1. /\ frames' = frames /\ frameCount' = frameCount /\ handlers' = handlers
      /\ deferStack' = deferStack /\ cpp' = cpp /\ ret' = ret /\ generator' = generator
      /\ currentGen' = currentGen /\ kind' = kind /\ trys' = trys /\ defers' = defers
      /\ gone' = gone /\ used' = used
  BY DEF vars
<1>2. TypeOK' /\ Nested' /\ Reported' /\ MarksRise' /\ MarksHold'
  BY <1>1 DEF IInv, TypeOK, Nested, NestedAt, Reported, Top, MarksRise, MarksHold, MarkAt, Mark,
              Waits, Calls, Ends
<1>3. TopFrames' /\ EndsStop' /\ Live' /\ DeferFrames' /\ OneGenerator' /\ Resumes'
  BY <1>1 DEF IInv, TopFrames, Top, Floor, Mark, Calls, EndsStop, StopAt, Stop, Lim, Live, DeferFrames,
              DeferFrameAt, runs, OneGenerator, Resumes, ResumeAt, resumed
<1>4. HandlersLive' /\ HandlersRise' /\ OpenHandled' /\ FloorsExact' /\ CallersKept'
  BY <1>1 DEF IInv, HandlersLive, HandlersRise, OpenHandled, handled, caught, open, FloorsExact,
              FloorAt, Floor, Mark, CallersKept, CallerAt, Calls
<1>5. EndsClosed' /\ OverClosed' /\ DeferOpens' /\ ExitsFree' /\ LastSlot'
  <2>1. EndsClosed'
    <3> SUFFICES ASSUME NEW k \in DOMAIN cpp
                 PROVE  ClosedAt(k)'
      BY <1>1 DEF EndsClosed
    <3>1. ClosedAt(k)
      BY DEF IInv, EndsClosed
    <3>2. Lim(k)' = Lim(k) /\ Floor(k - 1)' = Floor(k - 1)
      BY <1>1 DEF Lim, Floor, Mark
    <3>3. open' = open
      BY <1>1 DEF open
    <3> QED BY <3>1, <3>2, <3>3, <1>1 DEF ClosedAt
  <2>2. OverClosed' /\ LastSlot'
    BY <1>1 DEF IInv, OverClosed, Top, open, LastSlot, runs
  <2>3. DeferOpens'
    BY <1>1 DEF IInv, DeferOpens, open, runs, marks, Mark, Waits, Calls
  <2>4. ExitsFree'
    BY <1>1 DEF IInv, ExitsFree, ExitAt, ExitFree, Lim, Mark, open
  <2> QED BY <2>1, <2>2, <2>3, <2>4
<1>6. ListsExact' /\ TodosExact' /\ NoneLost' /\ StartedEnds' /\ DefersLifo'
  BY <1>1 DEF IInv, ListsExact, ListAt, Pends, Rising, runs, TodosExact, TodoAt, NoneLost, Pending,
              StartedEnds, ending, Lim, Mark, Stop, DefersLifo
<1> QED BY <1>2, <1>3, <1>4, <1>5, <1>6 DEF IInv

LEMMA StepInv ==
  ASSUME Plain, IInv, [Next]_vars
  PROVE  IInv'
<1>1. CASE Call
  BY <1>1, CallKeeps
<1>2. CASE Reenter("native") \/ Reenter("posted")
  BY <1>2, ReenterKeeps
<1>3. CASE TryBegin
  BY <1>3, TryBeginKeeps
<1>4. CASE TryEnd
  BY <1>4, TryEndKeeps
<1>5. CASE Defer
  BY <1>5, DeferKeeps
<1>6. CASE Throw
  BY <1>6, ThrowKeeps
<1>7. CASE Exit
  BY <1>7, ExitKeeps
<1>8. CASE Return
  BY <1>8, ReturnKeeps
<1>9. CASE NewGenerator
  BY <1>9, NewGeneratorKeeps
<1>10. CASE NextValue
  BY <1>10, NextValueKeeps
<1>11. CASE Yield
  BY <1>11, YieldKeeps
<1>12. CASE GeneratorBack
  BY <1>12, GeneratorBackKeeps
<1>13. CASE Catch
  BY <1>13, CatchKeeps
<1>14. CASE Unwind
  BY <1>14, UnwindKeeps
<1>15. CASE Returning
  BY <1>15, ReturningKeeps
<1>16. CASE NativeBack
  BY <1>16, NativeBackKeeps
<1>17. CASE PostedBack
  BY <1>17, PostedBackKeeps
<1>18. CASE StartDefer
  BY <1>18, StartDeferKeeps
<1>19. CASE StartDeferAtLimit
  BY <1>19, StartDeferAtLimitKeeps
<1>20. CASE DeferBack
  BY <1>20, DeferBackKeeps
<1>21. CASE DefersDone
  BY <1>21, DefersDoneKeeps
<1>22. CASE ExitPasses
  BY <1>22, ExitPassesKeeps
<1>23. CASE Escape
  BY <1>23, EscapeKeeps
<1>24. CASE Finished \/ UNCHANGED vars
  BY <1>24, StillInv DEF Finished
<1> QED BY <1>1, <1>2, <1>3, <1>4, <1>5, <1>6, <1>7, <1>8, <1>9, <1>10, <1>11, <1>12, <1>13, <1>14,
           <1>15, <1>16, <1>17, <1>18, <1>19, <1>20, <1>21, <1>22, <1>23, <1>24 DEF Next

LEMMA Invariance ==
  ASSUME Plain
  PROVE  Spec => []IInv
<1>1. IInv /\ [Next]_vars => IInv'
  BY StepInv
<1> QED BY <1>1, InitInv, PTL DEF Spec

-----------------------------------------------------------------------------
(* What the VM promises.                                                     *)

\* What ends functions keeps to frames that are there.
LEMMA EndRange ==
  ASSUME IInv, NEW k \in DOMAIN cpp, Ends(cpp[k])
  PROVE  /\ k > 1 /\ k - 1 \in DOMAIN cpp /\ cpp[k - 1].fn = "execute"
         /\ Floor(k - 1) \in Nat
         /\ Lim(k) \in Nat /\ Lim(k) <= frameCount /\ frameCount \in Nat
<1>1. /\ Len(cpp) \in Nat /\ DOMAIN cpp = 1 .. Len(cpp) /\ frameCount \in Nat
      /\ \A x \in DOMAIN cpp : cpp[x] \in Record
  BY TypeFacts DEF IInv, TypeFact
<1>2. NestedAt(k) /\ cpp[k].fn # "execute" /\ ~Waits(cpp[k])
  BY DEF IInv, Nested, Ends, Waits, Calls
<1>3. k > 1 /\ k - 1 \in DOMAIN cpp
  BY <1>1, <1>2 DEF NestedAt
<1>4. cpp[k - 1].fn = "execute"
  BY <1>2, <1>3 DEF NestedAt
<1>5. Floor(k - 1) \in Nat
  BY <1>3, <1>4, BelowExec
<1>6. CASE k = Len(cpp)
  BY <1>1, <1>3, <1>4, <1>5, <1>6 DEF Lim
<1>7. CASE k # Len(cpp)
  <2>1. k + 1 \in DOMAIN cpp /\ k + 1 > 1 /\ k + 1 - 1 = k /\ k \in Nat
    BY <1>1, <1>7
  <2>2. NestedAt(k + 1)
    BY <2>1 DEF IInv, Nested
  <2>3. cpp[k + 1].fn # "execute" /\ ~Ends(cpp[k + 1])
    BY <2>1, <2>2, <1>2 DEF NestedAt
  <2>4. Waits(cpp[k + 1]) /\ cpp[k + 1] \in Record
    BY <2>1, <2>3, <1>1, RecordFacts
  <2>5. Mark(cpp[k + 1]) \in Nat /\ Mark(cpp[k + 1]) <= frameCount
    <3>1. MarkAt(k + 1)
      BY <2>1 DEF IInv, MarksHold
    <3> QED BY <3>1, <2>4, RecordFacts DEF MarkAt
  <2> QED BY <2>5, <1>1, <1>3, <1>4, <1>5, <1>7 DEF Lim
<1> QED BY <1>6, <1>7

LEMMA CaughtInOwner ==
  ASSUME IInv
  PROVE  CatchInOwner
<1>1. CatchOpen
  <2> SUFFICES ASSUME NEW k \in DOMAIN cpp, cpp[k].fn = "catch", NEW h, h = cpp[k].handler
               PROVE  h.frame <= frameCount /\ frames[h.frame] = h.act /\ trys[h.act] > h.depth
    BY DEF CatchOpen, Waiting
  <2>1. Ends(cpp[k]) /\ Stop(cpp[k]) = h.frame
    BY DEF Ends, Stop
  <2>2. h.frame \in Nat /\ h.depth \in Nat
    <3>1. cpp[k] \in Record
      BY TypeFacts DEF IInv, TypeFact
    <3> QED BY <3>1, RecordFacts DEF Handler
  <2>3. StopAt(k) /\ ClosedAt(k)
    BY DEF IInv, EndsStop, EndsClosed
  <2>4. Floor(k - 1) < h.frame /\ h.frame <= Lim(k)
    BY <2>1, <2>3 DEF StopAt
  <2>5. h.frame \in 1 .. frameCount
    BY <2>1, <2>2, <2>4, EndRange
  <2>6. h.act = frames[h.frame] /\ open[h.frame] = h.depth + 1
    BY <2>3 DEF ClosedAt
  <2>7. open[h.frame] = trys[h.act]
    BY <2>5, <2>6 DEF open
  <2>8. h.depth + 1 > h.depth /\ h.frame <= frameCount
    BY <2>2, <2>5
  <2> QED BY <2>6, <2>7, <2>8
<1>2. ASSUME cpp # <<>>, NEW k, k = Len(cpp), Ends(Top)
      PROVE  /\ k \in DOMAIN cpp /\ Top = cpp[k] /\ Lim(k) = frameCount /\ StopAt(k) /\ ClosedAt(k)
             /\ Top \in Record /\ NestedAt(k)
  <2>1. cpp \in Seq(Record)
    BY DEF IInv, TypeOK
  <2>2. k \in DOMAIN cpp /\ Top = cpp[k] /\ Top \in Record
    <3>1. Top = cpp[k] /\ Top \in Record /\ k \in Nat \ {0}
      BY <2>1, <1>2, FrontLast DEF Top
    <3>2. k \in DOMAIN cpp
      BY <2>1, <3>1, <1>2
    <3> QED BY <3>1, <3>2
  <2>3. Lim(k) = frameCount
    BY <1>2 DEF Lim
  <2> QED BY <2>2, <2>3 DEF IInv, Nested, EndsStop, EndsClosed
<1>3. ASSUME cpp # <<>>, Top.fn = "unwind"
      PROVE  ErrorPast(Top.target)
  <2> SUFFICES ASSUME NEW k, k = Len(cpp)
               PROVE  ErrorPast(Top.target)
    OBVIOUS
  <2>1. Ends(Top)
    BY <1>3 DEF Ends
  <2>2. k \in DOMAIN cpp /\ Top = cpp[k] /\ Lim(k) = frameCount /\ ClosedAt(k) /\ NestedAt(k) /\ Top \in Record
    BY <2>1, <1>2, <1>3
  <2>3. /\ k > 1 /\ k - 1 \in DOMAIN cpp /\ cpp[k - 1].fn = "execute"
        /\ Floor(k - 1) \in Nat /\ frameCount \in Nat
    BY <2>1, <2>2, EndRange
  <2>4. Top.target = cpp[k - 1].base /\ Top.target \in Nat
    BY <2>2, <2>3, <1>3, RecordFacts DEF NestedAt
  <2>5. cpp[k - 1].base >= Floor(k - 1)
    <3>1. NestedAt(k - 1)
      BY <2>3 DEF IInv, Nested
    <3>2. CASE k - 1 = 1
      BY <3>1, <3>2, <2>3 DEF NestedAt, Floor
    <3>3. CASE k - 1 # 1
      <4>1. k - 1 > 1 /\ k - 1 - 1 \in DOMAIN cpp
        BY <3>3, <2>3, TypeFacts DEF IInv, TypeFact
      <4>2. Waits(cpp[k - 1 - 1]) /\ cpp[k - 1 - 1] \in Record
        BY <4>1, <3>1, <2>3, TypeFacts DEF IInv, TypeFact, NestedAt
      <4>3. CASE cpp[k - 1 - 1].fn = "defers"
        <5>1. cpp[k - 1].base = cpp[k - 1 - 1].saved + 1 /\ Floor(k - 1) = cpp[k - 1 - 1].saved
          BY <4>1, <4>3, <3>1, <3>3, <2>3 DEF NestedAt, Floor, Mark
        <5> QED BY <5>1, <2>3
      <4>4. CASE cpp[k - 1 - 1].fn # "defers"
        <5>1. Calls(cpp[k - 1 - 1])
          BY <4>2, <4>4 DEF Waits
        <5>2. cpp[k - 1].base = Floor(k - 1)
          BY <5>1, <4>1, <4>4, <3>1, <3>3, <2>3 DEF NestedAt, Floor, Mark
        <5> QED BY <5>2, <2>3
      <4> QED BY <4>3, <4>4
    <3> QED BY <3>2, <3>3
  <2>6. \A i \in Floor(k - 1) + 1 .. frameCount : open[i] = 0
    BY <2>2, <1>3 DEF ClosedAt
  <2>7. \A i \in Top.target + 1 .. frameCount : i \in Floor(k - 1) + 1 .. frameCount /\ i \in 1 .. frameCount
    BY <2>3, <2>4, <2>5
  <2> QED BY <2>6, <2>7 DEF ErrorPast, open
<1>4. ASSUME cpp # <<>>, Top.fn = "catch"
      PROVE  ErrorPast(Top.handler.frame) /\ trys[Top.handler.act] = Top.handler.depth + 1
  <2> SUFFICES ASSUME NEW k, k = Len(cpp), NEW h, h = Top.handler
               PROVE  ErrorPast(h.frame) /\ trys[h.act] = h.depth + 1
    OBVIOUS
  <2>1. Ends(Top)
    BY <1>4 DEF Ends
  <2>2. k \in DOMAIN cpp /\ Top = cpp[k] /\ Lim(k) = frameCount /\ ClosedAt(k) /\ StopAt(k) /\ Top \in Record
    BY <2>1, <1>2, <1>4
  <2>3. Floor(k - 1) \in Nat /\ frameCount \in Nat /\ h.frame \in Nat
    BY <2>1, <2>2, <1>4, EndRange, RecordFacts DEF Handler
  <2>4. Floor(k - 1) < h.frame /\ h.frame <= frameCount
    BY <2>2, <1>4 DEF StopAt, Stop
  <2>5. h.frame \in 1 .. frameCount /\ \A i \in h.frame + 1 .. frameCount : i \in 1 .. frameCount
    BY <2>3, <2>4
  <2>6. /\ \A i \in h.frame + 1 .. frameCount : open[i] = 0
        /\ h.act = frames[h.frame] /\ open[h.frame] = h.depth + 1
    BY <2>2, <1>4 DEF ClosedAt
  <2> QED BY <2>5, <2>6 DEF ErrorPast, open
<1>5. CatchInnermost
  BY <1>3, <1>4 DEF CatchInnermost
<1> QED BY <1>1, <1>5 DEF CatchInOwner

LEMMA DefersAreExact ==
  ASSUME IInv
  PROVE  DefersExact
<1>1. DefersOwned
  <2> SUFFICES ASSUME NEW k \in DOMAIN cpp, cpp[k].fn = "defers"
               PROVE  \A i \in DOMAIN cpp[k].todo : defers[cpp[k].todo[i]].owner = cpp[k].act
    BY DEF DefersOwned, Waiting
  <2>1. TodoAt(k)
    BY DEF IInv, TodosExact
  <2> QED BY <2>1 DEF TodoAt, Pends
<1>2. DefersRunOnce
  <2>1. DOMAIN defers = 1 .. Len(defers)
    BY TypeFacts DEF IInv, TypeFact
  <2>2. \A d \in DOMAIN defers :
          /\ defers[d].started \in {0, 1}
          /\ defers[d].started = 0 => \E i \in 1 .. frameCount : frames[i] = defers[d].owner
    BY <2>1 DEF IInv, NoneLost
  <2>3. \A i \in 1 .. frameCount : frames[i] \notin gone
    BY DEF IInv, Live
  <2> QED BY <2>2, <2>3 DEF DefersRunOnce
<1> QED BY <1>1, <1>2 DEF DefersExact, IInv

\* A sequence another one begins with.
LEMMA PrefixOf ==
  ASSUME NEW S, NEW s \in Seq(S), NEW t \in Seq(S), Len(s) <= Len(t),
         \A j \in 1 .. Len(s) : t[j] = s[j]
  PROVE  IsPrefix(s, t) /\ (Len(s) = Len(t) => s = t)
<1> SUFFICES ASSUME NEW n, n = Len(s), NEW u, u = SubSeq(s, 1, n), NEW v, v = SubSeq(t, 1, n)
             PROVE  u = v /\ (Len(s) = Len(t) => s = t)
  BY DEF IsPrefix
<1>1. n \in Nat /\ Len(t) \in Nat
  BY LenProperties
<1>2. 1 \in Int /\ n \in Int /\ \A i \in 1 .. n : s[i] \in S /\ t[i] \in S
  BY <1>1, ElementOfSeq
<1>3. /\ u \in Seq(S) /\ Len(u) = (IF 1 <= n THEN n - 1 + 1 ELSE 0)
      /\ \A i \in 1 .. n - 1 + 1 : u[i] = s[1 + i - 1]
  BY <1>2, SubSeqProperties
<1>4. /\ v \in Seq(S) /\ Len(v) = (IF 1 <= n THEN n - 1 + 1 ELSE 0)
      /\ \A i \in 1 .. n - 1 + 1 : v[i] = t[1 + i - 1]
  BY <1>2, SubSeqProperties
<1>5. /\ 1 <= n => n - 1 + 1 = n
      /\ ~(1 <= n) => n = 0
      /\ n - 1 + 1 = n /\ \A i \in 1 .. n : 1 + i - 1 = i
  BY <1>1
<1>6. Len(u) = n /\ Len(v) = n /\ \A i \in 1 .. n : u[i] = s[i] /\ v[i] = t[i]
  BY <1>3, <1>4, <1>5
<1>7. u = v
  BY <1>3, <1>4, <1>6, SeqEqual
<1>8. Len(s) = Len(t) => s = t
  BY SeqEqual
<1> QED BY <1>7, <1>8

LEMMA CallersUntouched ==
  ASSUME IInv
  PROVE  CallerUntouched
<1> SUFFICES ASSUME NEW k \in DOMAIN cpp, NEW r, r = cpp[k], Calls(r), NEW hs, hs = r.caller.handlers
             PROVE  /\ r.caller.n <= frameCount
                    /\ \A i \in 1 .. r.caller.n : frames[i] = r.caller.frames[i]
                    /\ IsPrefix(hs, handlers)
                    /\ r = Top /\ ret # "exit" => handlers = hs
  BY DEF CallerUntouched, Waiting, Calls
<1>1. cpp \in Seq(Record) /\ handlers \in Seq(Handler) /\ r \in Record
  BY TypeFacts DEF IInv, TypeOK, TypeFact
<1>2. hs \in Seq(Handler)
  BY <1>1, RecordFacts
<1>3. r.caller.n <= frameCount
  <2>1. Waits(r) /\ Mark(r) = r.caller.n
    BY DEF Waits, Calls, Mark
  <2> QED BY <2>1 DEF IInv, MarksHold, MarkAt
<1>4. /\ \A i \in 1 .. r.caller.n : frames[i] = r.caller.frames[i]
      /\ Len(hs) <= Len(handlers) /\ \A j \in 1 .. Len(hs) : handlers[j] = hs[j]
  BY DEF IInv, CallersKept, CallerAt
<1>5. IsPrefix(hs, handlers) /\ (Len(hs) = Len(handlers) => hs = handlers)
  BY <1>1, <1>2, <1>4, PrefixOf
<1>6. ASSUME r = Top
      PROVE  Len(handlers) = Len(hs)
  <2>1. cpp # <<>>
    OBVIOUS
  <2>2. Top = cpp[Len(cpp)] /\ Len(cpp) \in Nat \ {0}
    BY <2>1, <1>1, FrontLast DEF Top
  <2>3. Len(cpp) \in DOMAIN cpp
    BY <2>2, <1>1
  <2> QED BY <2>2, <2>3, <1>6 DEF IInv, CallersKept, CallerAt
<1> QED BY <1>3, <1>4, <1>5, <1>6

\* The types of the model's variables, for every program.
THEOREM UnwindTypes ==
  ASSUME Plain
  PROVE  Spec => []TypeOK
<1>1. IInv => TypeOK
  BY DEF IInv
<1> QED BY <1>1, Invariance, PTL

\* An error that is offered to the try blocks (RUNTIME_ERR, OP_THROW, callValue)
\* ends in the innermost one that is still open and in the function that entered
\* it (tryHandleError, the handler floor of execute()), whatever callbacks,
\* generators and deferred calls run in between and however deep they nest, if
\* no error leaves an instruction as an exception inside a try (Plain).
THEOREM CatchesInOwner ==
  ASSUME Plain
  PROVE  Spec => []CatchInOwner
<1> QED BY CaughtInOwner, Invariance, PTL

\* The deferred calls of a function are started when it ends, each once, the
\* last one first, and none is lost, on whatever way it ends (runDefers,
\* unwindFramesAndRunDefers, OP_RETURN).
THEOREM DefersRunExactly ==
  ASSUME Plain
  PROVE  Spec => []DefersExact
<1> QED BY DefersAreExact, Invariance, PTL

\* Whatever a callback, a posted call or a generator does, the code that waits
\* for it finds its own frames and exception handlers as they were (callWithVM,
\* drainPosted, resumeGenerator), as long as nothing leaves a try block behind
\* its back: an error that leaves an instruction, an exit or a yield inside one.
THEOREM CallersStay ==
  ASSUME Plain
  PROVE  Spec => []CallerUntouched
<1> QED BY CallersUntouched, Invariance, PTL

\* A function that has returned or was unwound never runs again.
THEOREM NoneResurrected ==
  ASSUME Plain
  PROVE  Spec => []NoResurrection
<1>1. IInv => NoResurrection
  BY DEF IInv, Live, NoResurrection
<1> QED BY <1>1, Invariance, PTL
=============================================================================

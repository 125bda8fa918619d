--------------------------- MODULE CCtorMgrProofs ---------------------------
(***************************************************************************)
(* Proofs about the class constructor manager, for any number of threads,  *)
(* classes and methods, whatever the methods do.                           *)
(***************************************************************************)
EXTENDS CCtorMgr, SequenceTheorems, FiniteSetTheorems, TLAPS

-----------------------------------------------------------------------------
(* The inductive invariant. *)

FrameType == [m : Methods \cup {NoMethod}, pc : Pcs, cls : Classes \cup {NoClass},
              i : Nat \ {0}, q : Seq(Classes), own : BOOLEAN, ok : BOOLEAN]
EntryType == [state : {"none", "linked", "unlinked", "freed"}, owner : Threads \cup {NoThread},
              waiting : Nat, sem : Nat, classes : Seq(Classes)]

Types ==
    /\ meta \in Threads \cup {NoThread, Broken} /\ depth \in Nat /\ (meta \in Threads => depth > 0)
    /\ holder \in Threads \cup {NoThread}
    /\ running \subseteq Classes /\ once \subseteq Classes /\ converted \subseteq Methods
    /\ entry \in [Methods -> EntryType]
    /\ stack \in [Threads -> Seq(FrameType)]
    /\ calls \in [Threads -> 0 .. MaxCalls]

Constructing == {"run", "help"}
Converting == {"enter", "run", "store"}

\* A stack: what waits for a call below the top, and what a constructor was
\* called by.
Shape(s) ==
    \A i \in 1 .. Len(s) :
        /\ i < Len(s) => s[i].pc \in Constructing \cup {"body"}
        /\ s[i].m = NoMethod => s[i].pc \in {"enter", "run"} /\ s[i].cls = NoClass
        /\ s[i].own => s[i].pc \in {"run", "store", "body"}
        /\ s[i].cls # NoClass => i > 1 /\ s[i - 1].pc \in Constructing /\ CCtor[s[i].cls] # NoMethod
        /\ i < Len(s) /\ s[i].pc \in Constructing => s[i].q # <<>> /\ s[i + 1].cls = Head(s[i].q)

\* The manager's lock: who runs constructors has it, and the frame that took
\* it is below all others that do.
Manager(s, t) ==
    \A i \in 1 .. Len(s) :
        /\ s[i].pc \in Constructing => holder = t
        /\ s[i].pc \in {"wait", "woken"} => holder # t
        /\ s[i].own /\ s[i].pc = "run" => \A j \in 1 .. i - 1 : s[j].pc = "body"
Took(s) == \E i \in 1 .. Len(s) : s[i].own /\ s[i].pc = "run"
HolderOK == /\ \A t \in Threads : Manager(stack[t], t)
            /\ holder # NoThread => Took(stack[holder])

\* A class is flagged as running while it has one frame.
Constructs(s, c) == \E i \in 1 .. Len(s) : s[i].cls = c
ClassOK ==
    /\ \A t \in Threads : \A i \in 1 .. Len(stack[t]) :
          stack[t][i].cls # NoClass =>
             /\ stack[t][i].cls \in running \ once
             /\ \A j \in 1 .. Len(stack[t]) : stack[t][j].cls = stack[t][i].cls => j = i
    /\ \A c \in running \ once : holder # NoThread /\ Constructs(stack[holder], c)

\* The entry of a method, its users and those who wait.
Does(s, m, pcs) == \E i \in 1 .. Len(s) : s[i].m = m /\ s[i].pc \in pcs
InPc(m, pcs) == {t \in Threads : Does(stack[t], m, pcs)}
EntryOK(m) ==
    /\ entry[m].state = "linked" => /\ m \notin converted /\ entry[m].sem = 0
                                    /\ entry[m].owner # NoThread
                                    /\ Does(stack[entry[m].owner], m, Converting)
    /\ entry[m].state \in {"unlinked", "freed"} => m \in converted
    /\ entry[m].state = "unlinked" => entry[m].sem = Cardinality(InPc(m, {"wait"}))
    /\ entry[m].waiting = Cardinality(InPc(m, {"wait", "woken"}))

FrameOK(f, t) ==
    f.m # NoMethod =>
        /\ f.pc \in Converting => entry[f.m].state = "linked" /\ entry[f.m].owner = t
        /\ f.pc = "wait" => entry[f.m].state \in {"linked", "unlinked"}
        /\ f.pc = "woken" => entry[f.m].state = "unlinked"
        /\ f.pc = "enter" => f.q = entry[f.m].classes
        /\ f.own /\ f.pc = "body" => f.m \in converted
        /\ f.own /\ f.ok /\ f.pc = "run" => Range(entry[f.m].classes) \subseteq once \cup Range(f.q)
        /\ f.own /\ f.ok /\ f.pc \in {"store", "body"} => Range(entry[f.m].classes) \subseteq once

OneConversion(s) ==
    \A i, j \in 1 .. Len(s) :
        s[i].m = s[j].m /\ s[i].m # NoMethod /\ {s[i].pc, s[j].pc} \subseteq Converting => i = j

ConvertOK ==
    /\ \A m \in Methods : EntryOK(m)
    /\ \A t \in Threads : OneConversion(stack[t]) /\ \A i \in 1 .. Len(stack[t]) : FrameOK(stack[t][i], t)

Shapes == \A t \in Threads : Shape(stack[t])

CCtorInv == Types /\ Shapes /\ HolderOK /\ ClassOK /\ ConvertOK

-----------------------------------------------------------------------------
(* Stacks. *)

\* A stack without its top.
LEMMA Popped ==
    ASSUME NEW F, NEW s \in Seq(F), s # <<>>
    PROVE  /\ Front(s) \in Seq(F)
           /\ Len(s) \in Nat /\ Len(s) > 0 /\ Len(Front(s)) = Len(s) - 1
           /\ \A i \in 1 .. Len(s) - 1 : Front(s)[i] = s[i]
<1>1. Len(s) \in Nat /\ Len(s) > 0 /\ \A i \in 1 .. Len(s) : s[i] \in F
  OBVIOUS
<1>2. Len(s) - 1 \in Int /\ 1 \in Int /\ \A i \in 1 .. Len(s) - 1 : s[i] \in F
  BY <1>1
<1>3. /\ Front(s) \in Seq(F)
      /\ Len(Front(s)) = IF 1 <= Len(s) - 1 THEN (Len(s) - 1) - 1 + 1 ELSE 0
      /\ \A i \in 1 .. (Len(s) - 1) - 1 + 1 : Front(s)[i] = s[1 + i - 1]
  BY <1>2, SubSeqProperties DEF Front
<1>4. \A i \in 1 .. Len(s) - 1 : Front(s)[i] = s[i]
  BY <1>1, <1>3
<1>5. Len(Front(s)) = Len(s) - 1
  <2>1. PICK n \in Nat : n = Len(s) /\ n > 0
    BY <1>1
  <2>2. (IF 1 <= n - 1 THEN (n - 1) - 1 + 1 ELSE 0) = n - 1
    BY <2>1
  <2> QED BY <1>3, <2>1, <2>2
<1> QED BY <1>1, <1>3, <1>4, <1>5

\* A stack with one frame more.
LEMMA Pushed ==
    ASSUME NEW F, NEW s \in Seq(F), NEW g \in F
    PROVE  /\ Append(s, g) \in Seq(F) /\ Len(s) \in Nat
           /\ Len(Append(s, g)) = Len(s) + 1
           /\ Append(s, g)[Len(s) + 1] = g
           /\ \A i \in 1 .. Len(s) : Append(s, g)[i] = s[i]
  OBVIOUS

\* A stack whose top has been replaced.
LEMMA Replaced ==
    ASSUME NEW F, NEW s \in Seq(F), s # <<>>, NEW g \in F
    PROVE  /\ Append(Front(s), g) \in Seq(F)
           /\ Len(s) \in Nat /\ Len(s) > 0 /\ Len(Append(Front(s), g)) = Len(s)
           /\ Append(Front(s), g)[Len(s)] = g
           /\ \A i \in 1 .. Len(s) - 1 : Append(Front(s), g)[i] = s[i]
<1>1. PICK r \in Seq(F) : r = Front(s)
  BY Popped
<1>2. Len(s) \in Nat /\ Len(s) > 0 /\ Len(r) = Len(s) - 1 /\ \A i \in 1 .. Len(s) - 1 : r[i] = s[i]
  BY <1>1, Popped
<1> QED BY <1>1, <1>2, Pushed

\* Frames that agree on all but the step of the body.
Same(f, g) == /\ f.m = g.m /\ f.pc = g.pc /\ f.cls = g.cls
              /\ f.q = g.q /\ f.own = g.own /\ f.ok = g.ok

\* The stack r after s: its top replaced by g, g pushed, the top popped, the
\* top popped and the frame below replaced by g.
Replaces(s, r, g) == /\ Len(s) \in Nat /\ Len(s) > 0 /\ Len(r) = Len(s) /\ r[Len(s)] = g
                     /\ \A i \in 1 .. Len(s) - 1 : r[i] = s[i]
Pushes(s, r, g) == /\ Len(s) \in Nat /\ Len(r) = Len(s) + 1 /\ r[Len(s) + 1] = g
                   /\ \A i \in 1 .. Len(s) : Same(r[i], s[i])
Pops(s, r) == /\ Len(s) \in Nat /\ Len(s) > 0 /\ Len(r) = Len(s) - 1
              /\ \A i \in 1 .. Len(s) - 1 : r[i] = s[i]
Returned(s, r, g) == /\ Len(s) \in Nat /\ Len(s) > 1 /\ Len(r) = Len(s) - 1 /\ r[Len(s) - 1] = g
                     /\ \A i \in 1 .. Len(s) - 2 : r[i] = s[i]

Others(t) == /\ stack' \in [Threads -> Seq(FrameType)]
             /\ \A u \in Threads \ {t} : stack'[u] = stack[u]

\* The top of a stack that is not empty is one of its frames.
LEMMA TopFrame ==
    ASSUME Types, NEW t \in Threads, stack[t] # <<>>
    PROVE  /\ stack[t] \in Seq(FrameType) /\ Top(t) \in FrameType
           /\ Len(stack[t]) \in Nat /\ Len(stack[t]) > 0
           /\ Top(t) = stack[t][Len(stack[t])]
<1>1. stack[t] \in Seq(FrameType)
  BY DEF Types
<1> QED BY <1>1 DEF Top

\* Goto replaces the top of one stack.
LEMMA GotoFacts ==
    ASSUME Types, NEW t \in Threads, stack[t] # <<>>, NEW g \in FrameType, Goto(t, g)
    PROVE  Others(t) /\ Replaces(stack[t], stack'[t], g)
<1>1. stack[t] \in Seq(FrameType)
  BY DEF Types
<1>2. stack'[t] = Append(Front(stack[t]), g) /\ \A u \in Threads \ {t} : stack'[u] = stack[u]
  BY DEF Types, Goto
<1>3. stack'[t] \in Seq(FrameType) /\ Replaces(stack[t], stack'[t], g)
  BY <1>1, <1>2, Replaced DEF Replaces
<1>4. stack' \in [Threads -> Seq(FrameType)]
  BY <1>3 DEF Types, Goto
<1> QED BY <1>2, <1>3, <1>4 DEF Others

\* Appending to a stack pushes a frame on it.
LEMMA PushFacts ==
    ASSUME Types, NEW t \in Threads, NEW g \in FrameType,
           stack' = [stack EXCEPT ![t] = Append(stack[t], g)]
    PROVE  Others(t) /\ Pushes(stack[t], stack'[t], g)
<1>1. stack[t] \in Seq(FrameType)
  BY DEF Types
<1>2. stack'[t] = Append(stack[t], g) /\ \A u \in Threads \ {t} : stack'[u] = stack[u]
  BY DEF Types
<1>3. stack'[t] \in Seq(FrameType) /\ Pushes(stack[t], stack'[t], g)
  BY <1>1, <1>2, Pushed DEF Pushes, Same
<1>4. stack' \in [Threads -> Seq(FrameType)]
  BY <1>2, <1>3 DEF Types
<1> QED BY <1>2, <1>3, <1>4 DEF Others

\* A call pushes a frame on one that has only moved to its next step.
LEMMA CallFacts ==
    ASSUME Types, NEW t \in Threads, stack[t] # <<>>, NEW f \in FrameType, Same(f, Top(t)),
           NEW g \in FrameType,
           stack' = [stack EXCEPT ![t] = Append(Append(Front(stack[t]), f), g)]
    PROVE  Others(t) /\ Pushes(stack[t], stack'[t], g)
<1>1. stack[t] \in Seq(FrameType)
  BY DEF Types
<1>2. stack'[t] = Append(Append(Front(stack[t]), f), g) /\ \A u \in Threads \ {t} : stack'[u] = stack[u]
  BY DEF Types
<1>3. PICK r : r = Append(Front(stack[t]), f)
  OBVIOUS
<1>4. /\ r \in Seq(FrameType) /\ Len(stack[t]) \in Nat /\ Len(stack[t]) > 0 /\ Len(r) = Len(stack[t])
      /\ r[Len(stack[t])] = f /\ \A i \in 1 .. Len(stack[t]) - 1 : r[i] = stack[t][i]
  BY <1>1, <1>3, Replaced
<1>5. \A i \in 1 .. Len(stack[t]) : Same(r[i], stack[t][i])
  BY <1>4 DEF Same, Top
<1>6. /\ stack'[t] \in Seq(FrameType) /\ Len(stack'[t]) = Len(r) + 1 /\ stack'[t][Len(r) + 1] = g
      /\ \A i \in 1 .. Len(r) : stack'[t][i] = r[i]
  BY <1>2, <1>3, <1>4, Pushed
<1>7. Pushes(stack[t], stack'[t], g)
  BY <1>4, <1>5, <1>6 DEF Pushes
<1>8. stack' \in [Threads -> Seq(FrameType)]
  BY <1>2, <1>6 DEF Types
<1> QED BY <1>2, <1>7, <1>8 DEF Others

\* A return takes the top off one stack.
LEMMA PopFacts ==
    ASSUME Types, NEW t \in Threads, stack[t] # <<>>,
           stack' = [stack EXCEPT ![t] = Front(stack[t])]
    PROVE  Others(t) /\ Pops(stack[t], stack'[t])
<1>1. stack[t] \in Seq(FrameType)
  BY DEF Types
<1>2. stack'[t] = Front(stack[t]) /\ \A u \in Threads \ {t} : stack'[u] = stack[u]
  BY DEF Types
<1>3. stack'[t] \in Seq(FrameType) /\ Pops(stack[t], stack'[t])
  BY <1>1, <1>2, Popped DEF Pops
<1>4. stack' \in [Threads -> Seq(FrameType)]
  BY <1>2, <1>3 DEF Types
<1> QED BY <1>2, <1>3, <1>4 DEF Others

\* The end of a constructor takes the top off and replaces its caller.
LEMMA BackFacts ==
    ASSUME Types, NEW t \in Threads, Len(stack[t]) > 1, NEW g \in FrameType,
           stack' = [stack EXCEPT ![t] = Append(Front(Front(stack[t])), g)]
    PROVE  Others(t) /\ Returned(stack[t], stack'[t], g)
<1>1. stack[t] \in Seq(FrameType) /\ stack[t] # <<>>
  BY DEF Types
<1>2. stack'[t] = Append(Front(Front(stack[t])), g) /\ \A u \in Threads \ {t} : stack'[u] = stack[u]
  BY DEF Types
<1>3. PICK r : r = Front(stack[t])
  OBVIOUS
<1>4. /\ r \in Seq(FrameType) /\ Len(stack[t]) \in Nat /\ Len(r) = Len(stack[t]) - 1
      /\ \A i \in 1 .. Len(stack[t]) - 1 : r[i] = stack[t][i]
  BY <1>1, <1>3, Popped
<1>5. r # <<>>
  BY <1>4
<1>6. /\ stack'[t] \in Seq(FrameType) /\ Len(stack'[t]) = Len(r) /\ stack'[t][Len(r)] = g
      /\ \A i \in 1 .. Len(r) - 1 : stack'[t][i] = r[i]
  BY <1>2, <1>3, <1>4, <1>5, Replaced
<1>7. Returned(stack[t], stack'[t], g)
  BY <1>4, <1>6 DEF Returned
<1>8. stack' \in [Threads -> Seq(FrameType)]
  BY <1>2, <1>6 DEF Types
<1> QED BY <1>2, <1>7, <1>8 DEF Others

-----------------------------------------------------------------------------
(* Frames with some fields changed. *)

\* Only the control point of a frame changes.
LEMMA SetPc ==
    ASSUME NEW f \in FrameType, NEW x \in Pcs, NEW g, g = [f EXCEPT !.pc = x]
    PROVE  /\ g \in FrameType /\ g.pc = x /\ g.m = f.m /\ g.cls = f.cls
           /\ g.q = f.q /\ g.own = f.own /\ g.ok = f.ok
  BY DEF FrameType

\* Only the position in the body changes.
LEMMA NextI ==
    ASSUME NEW f \in FrameType, NEW g, g = [f EXCEPT !.i = @ + 1]
    PROVE  g \in FrameType /\ Same(g, f)
<1>1. f.i + 1 \in Nat \ {0}
  BY DEF FrameType
<1> QED BY <1>1 DEF FrameType, Same

\* The frame of a method that was just called (userData stored or not).
LEMMA CalledType ==
    ASSUME NEW m \in Methods \cup {NoMethod}, NEW c \in Classes \cup {NoClass}, NEW g, g = Called(m, c)
    PROVE  /\ g \in FrameType /\ g.m = m /\ g.cls = c /\ g.pc \in {"body", "convert"} /\ ~g.own
           /\ g.pc = "body" => m \in converted
<1>1. <<>> \in Seq(Classes) /\ 1 \in Nat \ {0}
  OBVIOUS
<1>2. CASE m \in converted
  BY <1>1, <1>2 DEF Called, Frame, FrameType, Pcs
<1>3. CASE m \notin converted
  BY <1>1, <1>3 DEF Called, Frame, FrameType, Pcs
<1> QED BY <1>2, <1>3

-----------------------------------------------------------------------------
(* Shape. *)

\* A frame that stays with its method and its class keeps the shape.
LEMMA ShapeReplaced ==
    ASSUME NEW s, NEW r, NEW f, NEW g, Shape(s), Replaces(s, r, g), f = s[Len(s)],
           g.m = NoMethod => g.pc \in {"enter", "run"},
           g.own => g.pc \in {"run", "store", "body"},
           g.m = f.m, g.cls = f.cls
    PROVE  Shape(r)
<1> PICK n \in Nat : n = Len(s) /\ n > 0 /\ Len(r) = n /\ r[n] = g /\ s[n] = f
  BY DEF Replaces
<1>1. \A i \in 1 .. n - 1 : r[i] = s[i]
  BY DEF Replaces
<1> SUFFICES ASSUME NEW i \in 1 .. n
             PROVE  /\ i < n => r[i].pc \in Constructing \cup {"body"}
                    /\ r[i].m = NoMethod => r[i].pc \in {"enter", "run"} /\ r[i].cls = NoClass
                    /\ r[i].own => r[i].pc \in {"run", "store", "body"}
                    /\ r[i].cls # NoClass => i > 1 /\ r[i - 1].pc \in Constructing /\ CCtor[r[i].cls] # NoMethod
                    /\ i < n /\ r[i].pc \in Constructing => r[i].q # <<>> /\ r[i + 1].cls = Head(r[i].q)
  BY DEF Shape
<1>2. /\ i < n => s[i].pc \in Constructing \cup {"body"}
      /\ s[i].m = NoMethod => s[i].pc \in {"enter", "run"} /\ s[i].cls = NoClass
      /\ s[i].own => s[i].pc \in {"run", "store", "body"}
      /\ s[i].cls # NoClass => i > 1 /\ s[i - 1].pc \in Constructing /\ CCtor[s[i].cls] # NoMethod
      /\ i < n /\ s[i].pc \in Constructing => s[i].q # <<>> /\ s[i + 1].cls = Head(s[i].q)
  BY DEF Shape
<1>3. i > 1 => r[i - 1] = s[i - 1]
  BY <1>1
<1>4. i < n => r[i] = s[i] /\ r[i + 1].cls = s[i + 1].cls
  BY <1>1
<1>5. CASE i = n
  BY <1>2, <1>3, <1>5
<1>6. CASE i < n
  BY <1>2, <1>3, <1>4, <1>6
<1> QED BY <1>5, <1>6

\* A call from a body or from the list of constructors keeps the shape.
LEMMA ShapePushed ==
    ASSUME NEW s, NEW r, NEW g, Shape(s), Pushes(s, r, g),
           g.m = NoMethod => g.pc \in {"enter", "run"} /\ g.cls = NoClass, ~g.own,
           s = <<>> \/ Len(s) > 0,
           Len(s) > 0 => /\ s[Len(s)].pc \in Constructing \cup {"body"}
                         /\ s[Len(s)].pc \in Constructing => s[Len(s)].q # <<>> /\ g.cls = Head(s[Len(s)].q),
           g.cls # NoClass => Len(s) > 0 /\ s[Len(s)].pc \in Constructing /\ CCtor[g.cls] # NoMethod
    PROVE  Shape(r)
<1> PICK n \in Nat : n = Len(s) /\ Len(r) = n + 1 /\ r[n + 1] = g
  BY DEF Pushes
<1>1. \A i \in 1 .. n : Same(r[i], s[i])
  BY DEF Pushes
<1> SUFFICES ASSUME NEW i \in 1 .. n + 1
             PROVE  /\ i < n + 1 => r[i].pc \in Constructing \cup {"body"}
                    /\ r[i].m = NoMethod => r[i].pc \in {"enter", "run"} /\ r[i].cls = NoClass
                    /\ r[i].own => r[i].pc \in {"run", "store", "body"}
                    /\ r[i].cls # NoClass => i > 1 /\ r[i - 1].pc \in Constructing /\ CCtor[r[i].cls] # NoMethod
                    /\ i < n + 1 /\ r[i].pc \in Constructing => r[i].q # <<>> /\ r[i + 1].cls = Head(r[i].q)
  BY DEF Shape
<1>2. i <= n =>
      /\ i < n => s[i].pc \in Constructing \cup {"body"}
      /\ s[i].m = NoMethod => s[i].pc \in {"enter", "run"} /\ s[i].cls = NoClass
      /\ s[i].own => s[i].pc \in {"run", "store", "body"}
      /\ s[i].cls # NoClass => i > 1 /\ s[i - 1].pc \in Constructing /\ CCtor[s[i].cls] # NoMethod
      /\ i < n /\ s[i].pc \in Constructing => s[i].q # <<>> /\ s[i + 1].cls = Head(s[i].q)
  BY DEF Shape
<1>3. i > 1 => r[i - 1].pc = s[i - 1].pc
  BY <1>1 DEF Same
<1>4. i <= n => r[i].m = s[i].m /\ r[i].pc = s[i].pc /\ r[i].cls = s[i].cls /\ r[i].q = s[i].q /\ r[i].own = s[i].own
  BY <1>1 DEF Same
<1>5. i < n => r[i + 1].cls = s[i + 1].cls
  BY <1>1 DEF Same
<1>6. CASE i = n + 1
  BY <1>3, <1>6
<1>7. CASE i = n
  BY <1>2, <1>3, <1>4, <1>7
<1>8. CASE i < n
  BY <1>2, <1>3, <1>4, <1>5, <1>8
<1> QED BY <1>6, <1>7, <1>8

\* A return keeps the shape.
LEMMA ShapePopped ==
    ASSUME NEW s, NEW r, Shape(s), Pops(s, r)
    PROVE  Shape(r)
<1> PICK n \in Nat : n = Len(s) /\ n > 0 /\ Len(r) = n - 1
  BY DEF Pops
<1>1. \A i \in 1 .. n - 1 : r[i] = s[i]
  BY DEF Pops
<1> SUFFICES ASSUME NEW i \in 1 .. n - 1
             PROVE  /\ i < n - 1 => r[i].pc \in Constructing \cup {"body"}
                    /\ r[i].m = NoMethod => r[i].pc \in {"enter", "run"} /\ r[i].cls = NoClass
                    /\ r[i].own => r[i].pc \in {"run", "store", "body"}
                    /\ r[i].cls # NoClass => i > 1 /\ r[i - 1].pc \in Constructing /\ CCtor[r[i].cls] # NoMethod
                    /\ i < n - 1 /\ r[i].pc \in Constructing => r[i].q # <<>> /\ r[i + 1].cls = Head(r[i].q)
  BY DEF Shape
<1>2. /\ i < n => s[i].pc \in Constructing \cup {"body"}
      /\ s[i].m = NoMethod => s[i].pc \in {"enter", "run"} /\ s[i].cls = NoClass
      /\ s[i].own => s[i].pc \in {"run", "store", "body"}
      /\ s[i].cls # NoClass => i > 1 /\ s[i - 1].pc \in Constructing /\ CCtor[s[i].cls] # NoMethod
      /\ i < n /\ s[i].pc \in Constructing => s[i].q # <<>> /\ s[i + 1].cls = Head(s[i].q)
  BY DEF Shape
<1>3. /\ r[i] = s[i] /\ (i > 1 => r[i - 1] = s[i - 1])
      /\ i < n - 1 => r[i + 1] = s[i + 1]
  BY <1>1
<1> QED BY <1>2, <1>3

\* The same top frame, but for the queue and the result.
LEMMA ShapeReturned ==
    ASSUME NEW s, NEW r, NEW e, NEW g, Shape(s), Returned(s, r, g), e = s[Len(s) - 1],
           g.m = e.m, g.pc = e.pc, g.cls = e.cls, g.own = e.own
    PROVE  Shape(r)
<1> PICK n \in Nat : n = Len(s) - 1 /\ n > 0 /\ Len(s) = n + 1 /\ Len(r) = n /\ r[n] = g /\ s[n] = e
  <2>1. PICK k \in Nat : k = Len(s) /\ k > 1 /\ Len(r) = k - 1 /\ r[k - 1] = g
    BY DEF Returned
  <2>2. k - 1 \in Nat /\ k - 1 > 0 /\ k = (k - 1) + 1
    BY <2>1
  <2> QED BY <2>1, <2>2
<1>1. \A i \in 1 .. n - 1 : r[i] = s[i]
  BY DEF Returned
<1> SUFFICES ASSUME NEW i \in 1 .. n
             PROVE  /\ i < n => r[i].pc \in Constructing \cup {"body"}
                    /\ r[i].m = NoMethod => r[i].pc \in {"enter", "run"} /\ r[i].cls = NoClass
                    /\ r[i].own => r[i].pc \in {"run", "store", "body"}
                    /\ r[i].cls # NoClass => i > 1 /\ r[i - 1].pc \in Constructing /\ CCtor[r[i].cls] # NoMethod
                    /\ i < n /\ r[i].pc \in Constructing => r[i].q # <<>> /\ r[i + 1].cls = Head(r[i].q)
  BY DEF Shape
<1>2. /\ i < n => s[i].pc \in Constructing \cup {"body"}
      /\ s[i].m = NoMethod => s[i].pc \in {"enter", "run"} /\ s[i].cls = NoClass
      /\ s[i].own => s[i].pc \in {"run", "store", "body"}
      /\ s[i].cls # NoClass => i > 1 /\ s[i - 1].pc \in Constructing /\ CCtor[s[i].cls] # NoMethod
      /\ i < n /\ s[i].pc \in Constructing => s[i].q # <<>> /\ s[i + 1].cls = Head(s[i].q)
  BY DEF Shape
<1>3. i > 1 => r[i - 1] = s[i - 1]
  BY <1>1
<1>4. i < n => r[i] = s[i] /\ r[i + 1].cls = s[i + 1].cls
  BY <1>1
<1>5. CASE i = n
  BY <1>2, <1>3, <1>5
<1>6. CASE i < n
  BY <1>2, <1>3, <1>4, <1>6
<1> QED BY <1>5, <1>6

-----------------------------------------------------------------------------
(* The manager's lock. *)

\* Threads that t leaves alone.
LEMMA ManagerOther ==
    ASSUME HolderOK, NEW t \in Threads, Others(t), NEW u \in Threads \ {t},
           holder' = u <=> holder = u
    PROVE  Manager(stack[u], u)'
<1>1. stack'[u] = stack[u] /\ Manager(stack[u], u)
  BY DEF Others, HolderOK
<1> QED BY <1>1 DEF Manager

\* The manager's lock, when the top frame neither takes it nor gives it up.
LEMMA HolderReplaced ==
    ASSUME HolderOK, NEW t \in Threads, Others(t), NEW f, NEW g,
           Replaces(stack[t], stack'[t], g), f = stack[t][Len(stack[t])],
           holder' = holder, holder \in Threads \cup {NoThread},
           g.pc \in Constructing => holder = t,
           g.pc \in {"wait", "woken"} => holder # t,
           (g.own /\ g.pc = "run") <=> (f.own /\ f.pc = "run")
    PROVE  HolderOK'
<1> PICK s, r : s = stack[t] /\ r = stack'[t]
  OBVIOUS
<1> PICK n \in Nat : n = Len(s) /\ n > 0 /\ Len(r) = n /\ r[n] = g /\ s[n] = f
  BY DEF Replaces
<1>1. \A i \in 1 .. n - 1 : r[i] = s[i]
  BY DEF Replaces
<1>2. Manager(r, t)'
  <2> SUFFICES ASSUME NEW i \in 1 .. n
               PROVE  /\ r[i].pc \in Constructing => holder = t
                      /\ r[i].pc \in {"wait", "woken"} => holder # t
                      /\ r[i].own /\ r[i].pc = "run" => \A j \in 1 .. i - 1 : r[j].pc = "body"
    BY DEF Manager
  <2>1. /\ s[i].pc \in Constructing => holder = t
        /\ s[i].pc \in {"wait", "woken"} => holder # t
        /\ s[i].own /\ s[i].pc = "run" => \A j \in 1 .. i - 1 : s[j].pc = "body"
    BY DEF HolderOK, Manager
  <2>2. \A j \in 1 .. i - 1 : r[j] = s[j]
    BY <1>1
  <2>3. CASE i = n
    BY <2>1, <2>2, <2>3
  <2>4. CASE i < n
    BY <1>1, <2>1, <2>2, <2>4
  <2> QED BY <2>3, <2>4
<1>3. \A u \in Threads : Manager(stack[u], u)'
  BY <1>2, ManagerOther
<1>4. holder # NoThread => Took(stack'[holder])
  <2>1. CASE holder = t
    <3>1. PICK i \in 1 .. n : s[i].own /\ s[i].pc = "run"
      BY <2>1, CCtorAssumption DEF HolderOK, Took
    <3>2. r[i].own /\ r[i].pc = "run"
      BY <1>1, <3>1
    <3> QED BY <2>1, <3>2 DEF Took
  <2>2. CASE holder # t
    BY <2>2 DEF HolderOK, Others
  <2> QED BY <2>1, <2>2
<1>5. (\A u \in Threads : Manager(stack[u], u))' /\ (holder # NoThread => Took(stack[holder]))'
  BY <1>3, <1>4 DEF Took
<1> QED BY <1>5 DEF HolderOK

\* The manager's lock, when a frame is called that does not use it yet.
LEMMA HolderPushed ==
    ASSUME HolderOK, NEW t \in Threads, Others(t), NEW g, Pushes(stack[t], stack'[t], g),
           holder' = holder, holder \in Threads \cup {NoThread},
           g.pc \notin Constructing \cup {"wait", "woken"}
    PROVE  HolderOK'
<1> PICK s, r : s = stack[t] /\ r = stack'[t]
  OBVIOUS
<1> PICK n \in Nat : n = Len(s) /\ Len(r) = n + 1 /\ r[n + 1] = g
  BY DEF Pushes
<1>1. \A i \in 1 .. n : Same(r[i], s[i])
  BY DEF Pushes
<1>2. Manager(r, t)'
  <2> SUFFICES ASSUME NEW i \in 1 .. n + 1
               PROVE  /\ r[i].pc \in Constructing => holder = t
                      /\ r[i].pc \in {"wait", "woken"} => holder # t
                      /\ r[i].own /\ r[i].pc = "run" => \A j \in 1 .. i - 1 : r[j].pc = "body"
    BY DEF Manager
  <2>2. \A j \in 1 .. i - 1 : r[j].pc = s[j].pc
    BY <1>1 DEF Same
  <2>3. CASE i = n + 1
    BY <2>3 DEF Constructing
  <2>4. CASE i <= n
    <3>1. /\ s[i].pc \in Constructing => holder = t
          /\ s[i].pc \in {"wait", "woken"} => holder # t
          /\ s[i].own /\ s[i].pc = "run" => \A j \in 1 .. i - 1 : s[j].pc = "body"
      BY <2>4 DEF HolderOK, Manager
    <3>2. r[i].pc = s[i].pc /\ r[i].own = s[i].own
      BY <1>1, <2>4 DEF Same
    <3> QED BY <2>2, <3>1, <3>2
  <2> QED BY <2>3, <2>4
<1>3. \A u \in Threads : Manager(stack[u], u)'
  BY <1>2, ManagerOther
<1>4. holder # NoThread => Took(stack'[holder])
  <2>1. CASE holder = t
    <3>1. PICK i \in 1 .. n : s[i].own /\ s[i].pc = "run"
      BY <2>1, CCtorAssumption DEF HolderOK, Took
    <3>2. r[i].own /\ r[i].pc = "run" /\ i \in 1 .. n + 1
      BY <1>1, <3>1 DEF Same
    <3> QED BY <2>1, <3>2 DEF Took
  <2>2. CASE holder # t
    BY <2>2 DEF HolderOK, Others
  <2> QED BY <2>1, <2>2
<1>5. (\A u \in Threads : Manager(stack[u], u))' /\ (holder # NoThread => Took(stack[holder]))'
  BY <1>3, <1>4 DEF Took
<1> QED BY <1>5 DEF HolderOK

\* The manager's lock, when a frame returns that did not take it.
LEMMA HolderPopped ==
    ASSUME HolderOK, NEW t \in Threads, Others(t), NEW f, Pops(stack[t], stack'[t]),
           f = stack[t][Len(stack[t])], ~(f.own /\ f.pc = "run"),
           holder' = holder, holder \in Threads \cup {NoThread}
    PROVE  HolderOK'
<1> PICK s, r : s = stack[t] /\ r = stack'[t]
  OBVIOUS
<1> PICK n \in Nat : n = Len(s) /\ n > 0 /\ Len(r) = n - 1 /\ s[n] = f
  BY DEF Pops
<1>1. \A i \in 1 .. n - 1 : r[i] = s[i]
  BY DEF Pops
<1>2. Manager(r, t)'
  <2> SUFFICES ASSUME NEW i \in 1 .. n - 1
               PROVE  /\ r[i].pc \in Constructing => holder = t
                      /\ r[i].pc \in {"wait", "woken"} => holder # t
                      /\ r[i].own /\ r[i].pc = "run" => \A j \in 1 .. i - 1 : r[j].pc = "body"
    BY DEF Manager
  <2>1. /\ s[i].pc \in Constructing => holder = t
        /\ s[i].pc \in {"wait", "woken"} => holder # t
        /\ s[i].own /\ s[i].pc = "run" => \A j \in 1 .. i - 1 : s[j].pc = "body"
    BY DEF HolderOK, Manager
  <2> QED BY <1>1, <2>1
<1>3. \A u \in Threads : Manager(stack[u], u)'
  BY <1>2, ManagerOther
<1>4. holder # NoThread => Took(stack'[holder])
  <2>1. CASE holder = t
    <3>1. PICK i \in 1 .. n : s[i].own /\ s[i].pc = "run"
      BY <2>1, CCtorAssumption DEF HolderOK, Took
    <3>2. r[i].own /\ r[i].pc = "run" /\ i \in 1 .. n - 1
      BY <1>1, <3>1
    <3> QED BY <2>1, <3>2 DEF Took
  <2>2. CASE holder # t
    BY <2>2 DEF HolderOK, Others
  <2> QED BY <2>1, <2>2
<1>5. (\A u \in Threads : Manager(stack[u], u))' /\ (holder # NoThread => Took(stack[holder]))'
  BY <1>3, <1>4 DEF Took
<1> QED BY <1>5 DEF HolderOK

\* The manager's lock, when a constructor ends and its caller goes on.
LEMMA HolderReturned ==
    ASSUME HolderOK, NEW t \in Threads, Others(t), NEW e, NEW f, NEW g,
           Returned(stack[t], stack'[t], g), f = stack[t][Len(stack[t])], f.pc = "body",
           e = stack[t][Len(stack[t]) - 1], g.pc = e.pc, g.own = e.own,
           holder' = holder, holder \in Threads \cup {NoThread}
    PROVE  HolderOK'
<1> PICK s, r : s = stack[t] /\ r = stack'[t]
  OBVIOUS
<1> PICK n \in Nat : n = Len(s) /\ n > 1 /\ Len(r) = n - 1 /\ s[n] = f /\ s[n - 1] = e /\ r[n - 1] = g
  BY DEF Returned
<1>1. ASSUME NEW i \in 1 .. n - 1 PROVE r[i].pc = s[i].pc /\ r[i].own = s[i].own
  <2>1. \A j \in 1 .. n - 2 : r[j] = s[j]
    BY DEF Returned
  <2>2. CASE i = n - 1
    BY <2>2
  <2>3. CASE i # n - 1
    <3>1. i \in 1 .. n - 2
      BY <2>3
    <3> QED BY <2>1, <3>1
  <2> QED BY <2>2, <2>3
<1>2. Manager(r, t)'
  <2> SUFFICES ASSUME NEW i \in 1 .. n - 1
               PROVE  /\ r[i].pc \in Constructing => holder = t
                      /\ r[i].pc \in {"wait", "woken"} => holder # t
                      /\ r[i].own /\ r[i].pc = "run" => \A j \in 1 .. i - 1 : r[j].pc = "body"
    BY DEF Manager
  <2>1. /\ s[i].pc \in Constructing => holder = t
        /\ s[i].pc \in {"wait", "woken"} => holder # t
        /\ s[i].own /\ s[i].pc = "run" => \A j \in 1 .. i - 1 : s[j].pc = "body"
    BY DEF HolderOK, Manager
  <2>2. r[i].pc = s[i].pc /\ r[i].own = s[i].own
    BY <1>1
  <2>3. ASSUME NEW j \in 1 .. i - 1 PROVE r[j].pc = s[j].pc
    <3>1. j \in 1 .. n - 1
      OBVIOUS
    <3> QED BY <1>1, <3>1
  <2>4. ASSUME r[i].own, r[i].pc = "run", NEW j \in 1 .. i - 1 PROVE r[j].pc = "body"
    <3>1. s[j].pc = "body"
      BY <2>1, <2>2, <2>4
    <3> QED BY <2>3, <3>1
  <2>5. /\ r[i].pc \in Constructing => holder = t
        /\ r[i].pc \in {"wait", "woken"} => holder # t
    BY <2>1, <2>2
  <2> QED BY <2>4, <2>5
<1>3. \A u \in Threads : Manager(stack[u], u)'
  BY <1>2, ManagerOther
<1>4. holder # NoThread => Took(stack'[holder])
  <2>1. CASE holder = t
    <3>1. PICK i \in 1 .. n : s[i].own /\ s[i].pc = "run"
      BY <2>1, CCtorAssumption DEF HolderOK, Took
    <3>2. r[i].own /\ r[i].pc = "run" /\ i \in 1 .. n - 1
      BY <1>1, <3>1
    <3> QED BY <2>1, <3>2 DEF Took
  <2>2. CASE holder # t
    BY <2>2 DEF HolderOK, Others
  <2> QED BY <2>1, <2>2
<1>5. (\A u \in Threads : Manager(stack[u], u))' /\ (holder # NoThread => Took(stack[holder]))'
  BY <1>3, <1>4 DEF Took
<1> QED BY <1>5 DEF HolderOK

\* A thread that takes the lock has only bodies below.
LEMMA HolderTaken ==
    ASSUME HolderOK, NEW t \in Threads, Others(t), NEW g, Shape(stack[t]),
           Replaces(stack[t], stack'[t], g),
           holder = NoThread, holder' = t, NoThread \notin Threads,
           g.own, g.pc = "run"
    PROVE  HolderOK'
<1> PICK s, r : s = stack[t] /\ r = stack'[t]
  OBVIOUS
<1> PICK n \in Nat : n = Len(s) /\ n > 0 /\ Len(r) = n /\ r[n] = g
  BY DEF Replaces
<1>1. \A i \in 1 .. n - 1 : r[i].pc = "body"
  <2>1. \A i \in 1 .. n - 1 : r[i] = s[i]
    BY DEF Replaces
  <2>2. \A i \in 1 .. n - 1 : s[i].pc \in Constructing \cup {"body"} /\ s[i].pc \notin Constructing
    BY DEF Shape, HolderOK, Manager
  <2> QED BY <2>1, <2>2
<1>2. Manager(r, t)'
  <2> SUFFICES ASSUME NEW i \in 1 .. n
               PROVE  /\ r[i].pc \in {"wait", "woken"} => FALSE
                      /\ r[i].own /\ r[i].pc = "run" => \A j \in 1 .. i - 1 : r[j].pc = "body"
    BY DEF Manager
  <2> QED BY <1>1
<1>3. ASSUME NEW u \in Threads \ {t} PROVE Manager(stack[u], u)'
  <2>1. stack'[u] = stack[u] /\ Manager(stack[u], u)
    BY DEF Others, HolderOK
  <2> QED BY <2>1 DEF Manager
<1>4. Took(stack'[t])
  BY DEF Took
<1>5. (\A u \in Threads : Manager(stack[u], u))' /\ (holder # NoThread => Took(stack[holder]))'
  BY <1>2, <1>3, <1>4 DEF Took
<1> QED BY <1>5 DEF HolderOK

\* The frame that took the lock gives it up.
LEMMA HolderGivenUp ==
    ASSUME HolderOK, NEW t \in Threads, Others(t), Shape(stack[t]), NEW f, Len(stack[t]) \in Nat,
           Len(stack[t]) > 0, f = stack[t][Len(stack[t])], f.own, f.pc = "run",
           holder' = NoThread, NoThread \notin Threads,
           \/ Pops(stack[t], stack'[t])
           \/ \E g : Replaces(stack[t], stack'[t], g) /\ g.pc \notin Constructing
    PROVE  HolderOK'
<1> PICK s, r : s = stack[t] /\ r = stack'[t]
  OBVIOUS
<1> PICK n \in Nat : n = Len(s) /\ n > 0 /\ s[n] = f
  OBVIOUS
<1>1. holder = t /\ \A i \in 1 .. n - 1 : s[i].pc = "body"
  BY DEF HolderOK, Manager, Constructing
<1>2. \A i \in 1 .. Len(r) : r[i].pc \notin Constructing
  <2>1. CASE Pops(s, r)
    BY <1>1, <2>1 DEF Pops, Constructing
  <2>2. ASSUME NEW g, Replaces(s, r, g), g.pc \notin Constructing
        PROVE  \A i \in 1 .. Len(r) : r[i].pc \notin Constructing
    <3>1. Len(r) = n /\ r[n] = g /\ \A i \in 1 .. n - 1 : r[i] = s[i]
      BY <2>2 DEF Replaces
    <3> QED BY <1>1, <2>2, <3>1 DEF Constructing
  <2> QED BY <2>1, <2>2
<1>3. Manager(r, t)'
  BY <1>2 DEF Manager, Constructing
<1>4. ASSUME NEW u \in Threads \ {t} PROVE Manager(stack[u], u)'
  <2>1. stack'[u] = stack[u] /\ Manager(stack[u], u)
    BY DEF Others, HolderOK
  <2> QED BY <1>1, <2>1 DEF Manager
<1>5. (\A u \in Threads : Manager(stack[u], u))' /\ (holder # NoThread => Took(stack[holder]))'
  BY <1>3, <1>4 DEF Took
<1> QED BY <1>5 DEF HolderOK

-----------------------------------------------------------------------------
(* The classes that are being constructed. *)

\* A constructor's frame is on the stack of the manager's owner, above the
\* list.
LEMMA ClassFrame ==
    ASSUME Types, Shapes, HolderOK, NEW t \in Threads, NEW i \in 1 .. Len(stack[t]),
           stack[t][i].cls # NoClass
    PROVE  /\ holder = t /\ stack[t][i].cls \in Classes /\ CCtor[stack[t][i].cls] # NoMethod
           /\ i > 1 /\ stack[t][i - 1].pc \in Constructing
<1>1. stack[t] \in Seq(FrameType)
  BY DEF Types
<1>2. stack[t][i].cls \in Classes
  <2>1. stack[t][i] \in FrameType
    BY <1>1
  <2> QED BY <2>1 DEF FrameType
<1>3. i > 1 /\ stack[t][i - 1].pc \in Constructing /\ CCtor[stack[t][i].cls] # NoMethod
  BY DEF Shapes, Shape
<1>4. i - 1 \in 1 .. Len(stack[t])
  <2>1. PICK n \in Nat : n = Len(stack[t])
    BY <1>1
  <2> QED BY <1>3, <2>1
<1>5. holder = t
  BY <1>3, <1>4 DEF HolderOK, Manager
<1> QED BY <1>2, <1>3, <1>5

\* A class without a constructor never runs.
LEMMA TrivialDone ==
    ASSUME Types, Shapes, HolderOK, ClassOK, NEW X, \A c \in X : CCtor[c] = NoMethod,
           once' = once \cup X, running' = running
    PROVE  running' \ once' = running \ once
<1>1. ASSUME NEW c \in running \ once PROVE CCtor[c] # NoMethod
  <2>1. holder \in Threads /\ Constructs(stack[holder], c)
    BY DEF ClassOK, Types
  <2>2. PICK i \in 1 .. Len(stack[holder]) : stack[holder][i].cls = c
    BY <2>1 DEF Constructs
  <2>3. c # NoClass
    BY CCtorAssumption DEF Types
  <2> QED BY <2>1, <2>2, <2>3, ClassFrame
<1> QED BY <1>1

\* While the manager is free, or its taker is on top, no class is being run.
LEMMA NoneRunning ==
    ASSUME Types, Shapes, HolderOK, ClassOK,
           \/ holder = NoThread
           \/ \E t \in Threads : /\ stack[t] # <<>> /\ Top(t).own /\ Top(t).pc = "run"
    PROVE  running \ once = {}
<1> SUFFICES ASSUME NEW c \in running \ once PROVE FALSE
  OBVIOUS
<1>1. holder \in Threads /\ holder # NoThread /\ Constructs(stack[holder], c)
  BY DEF ClassOK, Types
<1>2. PICK t \in Threads : stack[t] # <<>> /\ Top(t).own /\ Top(t).pc = "run"
  BY <1>1
<1>3. PICK n \in Nat : n = Len(stack[t]) /\ n > 0 /\ Top(t) = stack[t][n]
  BY <1>2, TopFrame
<1>4. holder = t /\ \A j \in 1 .. n - 1 : stack[t][j].pc = "body"
  BY <1>2, <1>3 DEF HolderOK, Manager, Constructing
<1>5. PICK i \in 1 .. n : stack[t][i].cls = c
  BY <1>1, <1>3, <1>4 DEF Constructs
<1>6. c # NoClass
  BY CCtorAssumption DEF Types
<1>7. i > 1 /\ stack[t][i - 1].pc \in Constructing
  BY <1>3, <1>5, <1>6, ClassFrame
<1> QED BY <1>4, <1>7 DEF Constructing

\* The frames of t keep their classes, or only lose frames without a class.
LEMMA ClassSame ==
    ASSUME ClassOK, NEW t \in Threads, Others(t), NEW n \in Nat,
           1 .. n \subseteq 1 .. Len(stack[t]) /\ 1 .. n \subseteq 1 .. Len(stack'[t]),
           \A i \in 1 .. n : stack'[t][i].cls = stack[t][i].cls,
           \A i \in 1 .. Len(stack[t]) : i \in 1 .. n \/ stack[t][i].cls = NoClass,
           \A i \in 1 .. Len(stack'[t]) : i \in 1 .. n \/ stack'[t][i].cls = NoClass,
           running' \ once' = running \ once, running \subseteq Classes,
           holder' = holder \/ running \ once = {}, holder \in Threads \cup {NoThread}
    PROVE  ClassOK'
<1> PICK s, r : s = stack[t] /\ r = stack'[t]
  OBVIOUS
<1>1. ASSUME NEW i \in 1 .. Len(r), r[i].cls # NoClass
      PROVE  r[i].cls \in running \ once /\ \A j \in 1 .. Len(r) : r[j].cls = r[i].cls => j = i
  <2>1. i \in 1 .. n /\ i \in 1 .. Len(s) /\ s[i].cls = r[i].cls
    BY <1>1
  <2>2. s[i].cls \in running \ once /\ \A j \in 1 .. Len(s) : s[j].cls = s[i].cls => j = i
    BY <1>1, <2>1 DEF ClassOK
  <2>3. ASSUME NEW j \in 1 .. Len(r), r[j].cls = r[i].cls PROVE j = i
    BY <1>1, <2>1, <2>2, <2>3
  <2> QED BY <2>1, <2>2, <2>3
<1>2. ASSUME NEW u \in Threads, NEW i \in 1 .. Len(stack'[u]), stack'[u][i].cls # NoClass
      PROVE  /\ stack'[u][i].cls \in running' \ once'
             /\ \A j \in 1 .. Len(stack'[u]) : stack'[u][j].cls = stack'[u][i].cls => j = i
  <2>1. CASE u = t
    BY <1>1, <1>2, <2>1
  <2>2. CASE u # t
    BY <1>2, <2>2 DEF ClassOK, Others
  <2> QED BY <2>1, <2>2
<1>3. ASSUME NEW c \in running' \ once' PROVE holder' # NoThread /\ Constructs(stack'[holder'], c)
  <2>1. c \in running \ once /\ holder' = holder /\ holder # NoThread /\ Constructs(stack[holder], c) /\ c # NoClass
    BY <1>3, CCtorAssumption DEF ClassOK
  <2>2. CASE holder = t
    <3>1. PICK i \in 1 .. Len(s) : s[i].cls = c
      BY <2>1, <2>2 DEF Constructs
    <3>2. i \in 1 .. Len(r) /\ r[i].cls = c
      BY <2>1, <3>1
    <3> QED BY <2>1, <2>2, <3>2 DEF Constructs
  <2>3. CASE holder # t
    BY <2>1, <2>3 DEF Others
  <2> QED BY <2>1, <2>2, <2>3
<1>4. (\A u \in Threads : \A i \in 1 .. Len(stack[u]) :
          stack[u][i].cls # NoClass =>
             /\ stack[u][i].cls \in running \ once
             /\ \A j \in 1 .. Len(stack[u]) : stack[u][j].cls = stack[u][i].cls => j = i)'
  BY <1>2
<1>5. (\A c \in running \ once : holder # NoThread /\ Constructs(stack[holder], c))'
  BY <1>3 DEF Constructs
<1> QED BY <1>4, <1>5 DEF ClassOK

\* The flags of the classes, when the top frame stays with its class.
LEMMA ClassReplaced ==
    ASSUME Types, ClassOK, NEW t \in Threads, Others(t), NEW f, NEW g,
           Replaces(stack[t], stack'[t], g), f = stack[t][Len(stack[t])], g.cls = f.cls,
           running' \ once' = running \ once, holder' = holder \/ running \ once = {}
    PROVE  ClassOK'
<1>1. PICK n \in Nat : n = Len(stack[t]) /\ n > 0 /\ Len(stack'[t]) = n /\ stack'[t][n] = g /\ stack[t][n] = f
  BY DEF Replaces
<1>2. \A i \in 1 .. n : stack'[t][i].cls = stack[t][i].cls
  BY <1>1 DEF Replaces
<1>3. running \subseteq Classes /\ holder \in Threads \cup {NoThread}
  BY DEF Types
<1> QED BY <1>1, <1>2, <1>3, ClassSame

\* The flags of the classes, when a method is called that is no constructor.
LEMMA ClassPushed ==
    ASSUME Types, ClassOK, NEW t \in Threads, Others(t), NEW g,
           Pushes(stack[t], stack'[t], g), g.cls = NoClass,
           running' \ once' = running \ once, holder' = holder
    PROVE  ClassOK'
<1>1. PICK n \in Nat : n = Len(stack[t]) /\ Len(stack'[t]) = n + 1 /\ stack'[t][n + 1] = g
  BY DEF Pushes
<1>2. \A i \in 1 .. n : stack'[t][i].cls = stack[t][i].cls
  BY <1>1 DEF Pushes, Same
<1>3. running \subseteq Classes /\ holder \in Threads \cup {NoThread}
  BY DEF Types
<1>4. \A i \in 1 .. Len(stack'[t]) : i \in 1 .. n \/ stack'[t][i].cls = NoClass
  BY <1>1
<1>5. 1 .. n \subseteq 1 .. Len(stack[t]) /\ 1 .. n \subseteq 1 .. Len(stack'[t])
  BY <1>1
<1> QED BY <1>1, <1>2, <1>3, <1>4, <1>5, ClassSame

\* The flags of the classes, when a method returns that is no constructor.
LEMMA ClassPopped ==
    ASSUME Types, ClassOK, NEW t \in Threads, Others(t), NEW f,
           Pops(stack[t], stack'[t]), f = stack[t][Len(stack[t])], f.cls = NoClass,
           running' \ once' = running \ once, holder' = holder \/ running \ once = {}
    PROVE  ClassOK'
<1>1. PICK k \in Nat : k = Len(stack[t]) /\ k > 0 /\ Len(stack'[t]) = k - 1 /\ stack[t][k] = f
  BY DEF Pops
<1>2. PICK n \in Nat : n = k - 1
  BY <1>1
<1>3. \A i \in 1 .. n : stack'[t][i].cls = stack[t][i].cls
  BY <1>1, <1>2 DEF Pops
<1>4. running \subseteq Classes /\ holder \in Threads \cup {NoThread}
  BY DEF Types
<1>5. \A i \in 1 .. Len(stack[t]) : i \in 1 .. n \/ stack[t][i].cls = NoClass
  BY <1>1, <1>2
<1>6. 1 .. n \subseteq 1 .. Len(stack[t]) /\ 1 .. n \subseteq 1 .. Len(stack'[t])
  BY <1>1, <1>2
<1> QED BY <1>1, <1>2, <1>3, <1>4, <1>5, <1>6, ClassSame

\* A constructor is called.
LEMMA ClassStarted ==
    ASSUME Types, ClassOK, NEW t \in Threads, Others(t), NEW g, NEW c \in Classes,
           Pushes(stack[t], stack'[t], g), g.cls = c, c \notin running \cup once,
           running' = running \cup {c}, once' = once, holder' = holder, holder = t
    PROVE  ClassOK'
<1> PICK s, r : s = stack[t] /\ r = stack'[t]
  OBVIOUS
<1> PICK n \in Nat : n = Len(s) /\ Len(r) = n + 1 /\ r[n + 1] = g
  BY DEF Pushes
<1>1. \A i \in 1 .. n : r[i].cls = s[i].cls
  BY DEF Pushes, Same
<1>2. c # NoClass /\ t # NoThread
  BY CCtorAssumption
<1>3. \A i \in 1 .. n : s[i].cls # c
  BY <1>2 DEF ClassOK
<1>4. ASSUME NEW i \in 1 .. Len(r), r[i].cls # NoClass
      PROVE  r[i].cls \in running' \ once' /\ \A j \in 1 .. Len(r) : r[j].cls = r[i].cls => j = i
  <2>1. CASE i = n + 1
    BY <1>1, <1>3, <2>1
  <2>2. CASE i \in 1 .. n
    <3>1. s[i].cls \in running \ once /\ \A j \in 1 .. n : s[j].cls = s[i].cls => j = i
      BY <1>1, <1>4, <2>2 DEF ClassOK
    <3>2. r[i].cls # c
      BY <1>1, <1>3, <2>2
    <3> QED BY <1>1, <2>2, <3>1, <3>2
  <2> QED BY <2>1, <2>2
<1>5. ASSUME NEW u \in Threads, NEW i \in 1 .. Len(stack'[u]), stack'[u][i].cls # NoClass
      PROVE  /\ stack'[u][i].cls \in running' \ once'
             /\ \A j \in 1 .. Len(stack'[u]) : stack'[u][j].cls = stack'[u][i].cls => j = i
  <2>1. CASE u = t
    BY <1>4, <1>5, <2>1
  <2>2. CASE u # t
    BY <1>5, <2>2 DEF ClassOK, Others
  <2> QED BY <2>1, <2>2
<1>6. ASSUME NEW d \in running' \ once' PROVE holder' # NoThread /\ Constructs(stack'[holder'], d)
  <2>1. CASE d = c
    BY <1>2, <2>1 DEF Constructs
  <2>2. CASE d # c
    <3>1. PICK i \in 1 .. n : s[i].cls = d
      BY <1>6, <2>2 DEF ClassOK, Constructs
    <3> QED BY <1>1, <1>2, <3>1 DEF Constructs
  <2> QED BY <2>1, <2>2
<1>7. (\A u \in Threads : \A i \in 1 .. Len(stack[u]) :
          stack[u][i].cls # NoClass =>
             /\ stack[u][i].cls \in running \ once
             /\ \A j \in 1 .. Len(stack[u]) : stack[u][j].cls = stack[u][i].cls => j = i)'
  BY <1>5
<1>8. (\A d \in running \ once : holder # NoThread /\ Constructs(stack[holder], d))'
  BY <1>6 DEF Constructs
<1> QED BY <1>7, <1>8 DEF ClassOK

\* A constructor returns or throws.
LEMMA ClassEnded ==
    ASSUME Types, Shapes, HolderOK, ClassOK, NEW t \in Threads, Others(t), NEW e, NEW f, NEW g,
           Returned(stack[t], stack'[t], g), f = stack[t][Len(stack[t])],
           e = stack[t][Len(stack[t]) - 1], g.cls = e.cls, f.cls # NoClass,
           running' \ once' = (running \ once) \ {f.cls}, holder' = holder
    PROVE  ClassOK'
<1> PICK s, r : s = stack[t] /\ r = stack'[t]
  OBVIOUS
<1> PICK n \in Nat : n = Len(s) /\ n > 1 /\ Len(r) = n - 1 /\ s[n] = f /\ s[n - 1] = e /\ r[n - 1] = g
  BY DEF Returned
<1>1. ASSUME NEW i \in 1 .. n - 1 PROVE r[i].cls = s[i].cls
  <2>1. \A j \in 1 .. n - 2 : r[j] = s[j]
    BY DEF Returned
  <2>2. CASE i = n - 1
    BY <2>2
  <2>3. CASE i # n - 1
    <3>1. i \in 1 .. n - 2
      BY <2>3
    <3> QED BY <2>1, <3>1
  <2> QED BY <2>2, <2>3
<1>2. holder = t /\ t # NoThread
  BY ClassFrame, CCtorAssumption
<1>3. \A j \in 1 .. n : s[j].cls = f.cls => j = n
  BY DEF ClassOK
<1>4. ASSUME NEW i \in 1 .. n - 1, r[i].cls # NoClass
      PROVE  r[i].cls \in running' \ once' /\ \A j \in 1 .. n - 1 : r[j].cls = r[i].cls => j = i
  <2>1. i \in 1 .. n /\ s[i].cls = r[i].cls
    BY <1>1
  <2>2. s[i].cls \in running \ once /\ \A j \in 1 .. n : s[j].cls = s[i].cls => j = i
    BY <1>4, <2>1 DEF ClassOK
  <2>3. s[i].cls # f.cls
    BY <1>3, <2>1
  <2>4. \A j \in 1 .. n - 1 : j \in 1 .. n
    OBVIOUS
  <2> QED BY <1>1, <2>1, <2>2, <2>3, <2>4
<1>5. ASSUME NEW u \in Threads, NEW i \in 1 .. Len(stack'[u]), stack'[u][i].cls # NoClass
      PROVE  /\ stack'[u][i].cls \in running' \ once'
             /\ \A j \in 1 .. Len(stack'[u]) : stack'[u][j].cls = stack'[u][i].cls => j = i
  <2>1. CASE u = t
    BY <1>4, <1>5, <2>1
  <2>2. CASE u # t
    <3>1. stack'[u] = stack[u]
      BY <2>2 DEF Others
    <3>2. holder = u
      BY <1>5, <3>1, ClassFrame
    <3> QED BY <1>2, <2>2, <3>2
  <2> QED BY <2>1, <2>2
<1>6. ASSUME NEW d \in running' \ once' PROVE holder' # NoThread /\ Constructs(stack'[holder'], d)
  <2>1. d \in running \ once /\ d # f.cls
    BY <1>6
  <2>2. PICK i \in 1 .. n : s[i].cls = d
    BY <1>2, <2>1 DEF ClassOK, Constructs
  <2>3. i # n
    BY <2>1, <2>2
  <2>4. i \in 1 .. n - 1
    BY <2>3
  <2>5. r[i].cls = d
    BY <1>1, <2>2, <2>4
  <2> QED BY <1>2, <2>4, <2>5 DEF Constructs
<1>7. (\A u \in Threads : \A i \in 1 .. Len(stack[u]) :
          stack[u][i].cls # NoClass =>
             /\ stack[u][i].cls \in running \ once
             /\ \A j \in 1 .. Len(stack[u]) : stack[u][j].cls = stack[u][i].cls => j = i)'
  BY <1>5
<1>8. (\A d \in running \ once : holder # NoThread /\ Constructs(stack[holder], d))'
  BY <1>6 DEF Constructs
<1> QED BY <1>7, <1>8 DEF ClassOK

-----------------------------------------------------------------------------
(* The pool of locked methods. *)

\* Frames that keep what FrameOK says of them.
LEMMA FrameStays ==
    ASSUME NEW f, NEW t, FrameOK(f, t), once \subseteq once',
           f.m # NoMethod => entry'[f.m] = entry[f.m],
           f.m \in converted => f.m \in converted'
    PROVE  FrameOK(f, t)'
  BY DEF FrameOK, Range

\* The threads at some points of a method can be counted.
LEMMA InPcFinite ==
    ASSUME NEW m, NEW P
    PROVE  IsFiniteSet(InPc(m, P)) /\ Cardinality(InPc(m, P)) \in Nat
<1>1. InPc(m, P) \subseteq Threads
  BY DEF InPc
<1> QED BY <1>1, CCtorAssumption, FS_Subset, FS_CardinalityType

\* A frame that stays within or without P is nothing new to P.
LEMMA DoesReplaced ==
    ASSUME NEW s, NEW r, NEW f, NEW g, Replaces(s, r, g), f = s[Len(s)], NEW m, NEW P,
           g.m = f.m, f.pc \in P <=> g.pc \in P
    PROVE  Does(r, m, P) <=> Does(s, m, P)
<1> PICK n \in Nat : n = Len(s) /\ n > 0 /\ Len(r) = n /\ r[n] = g /\ s[n] = f
  BY DEF Replaces
<1>1. \A i \in 1 .. n - 1 : r[i] = s[i]
  BY DEF Replaces
<1>2. \A i \in 1 .. n : (r[i].m = m /\ r[i].pc \in P) <=> (s[i].m = m /\ s[i].pc \in P)
  BY <1>1
<1> QED BY <1>2 DEF Does

\* The top frame begins to do something.
LEMMA DoesMore ==
    ASSUME NEW s, NEW r, NEW f, NEW g, Replaces(s, r, g), f = s[Len(s)], NEW m, NEW P,
           g.m = f.m, f.pc \notin P, g.pc \in P
    PROVE  Does(r, m, P) <=> m = f.m \/ Does(s, m, P)
<1> PICK n \in Nat : n = Len(s) /\ n > 0 /\ Len(r) = n /\ r[n] = g /\ s[n] = f
  BY DEF Replaces
<1>1. \A i \in 1 .. n - 1 : r[i] = s[i]
  BY DEF Replaces
<1>2. \A i \in 1 .. n : (r[i].m = m /\ r[i].pc \in P) <=> ((i = n /\ m = f.m) \/ (s[i].m = m /\ s[i].pc \in P))
  BY <1>1
<1>3. n \in 1 .. n
  OBVIOUS
<1> QED BY <1>2, <1>3 DEF Does

\* Nor is a called frame that is outside P,
LEMMA DoesPushed ==
    ASSUME NEW s, NEW r, NEW g, Pushes(s, r, g), NEW m, NEW P, g.m # m \/ g.pc \notin P
    PROVE  Does(r, m, P) <=> Does(s, m, P)
<1> PICK n \in Nat : n = Len(s) /\ Len(r) = n + 1 /\ r[n + 1] = g
  BY DEF Pushes
<1>1. \A i \in 1 .. n : r[i].pc = s[i].pc /\ r[i].m = s[i].m
  BY DEF Pushes, Same
<1>2. \A i \in 1 .. n + 1 : (r[i].m = m /\ r[i].pc \in P) <=> (i \in 1 .. n /\ s[i].m = m /\ s[i].pc \in P)
  BY <1>1
<1>3. \A i \in 1 .. n : i \in 1 .. n + 1
  OBVIOUS
<1> QED BY <1>2, <1>3 DEF Does

\* a return from outside P,
LEMMA DoesPopped ==
    ASSUME NEW s, NEW r, NEW f, Pops(s, r), f = s[Len(s)], NEW m, NEW P, f.m # m \/ f.pc \notin P
    PROVE  Does(r, m, P) <=> Does(s, m, P)
<1> PICK n \in Nat : n = Len(s) /\ n > 0 /\ Len(r) = n - 1 /\ s[n] = f
  BY DEF Pops
<1>1. \A i \in 1 .. n - 1 : r[i] = s[i]
  BY DEF Pops
<1>2. \A i \in 1 .. n : (s[i].m = m /\ s[i].pc \in P) <=> (i \in 1 .. n - 1 /\ r[i].m = m /\ r[i].pc \in P)
  BY <1>1
<1>3. \A i \in 1 .. n - 1 : i \in 1 .. n
  OBVIOUS
<1> QED BY <1>2, <1>3 DEF Does

\* or the end of a constructor.
LEMMA DoesReturned ==
    ASSUME NEW s, NEW r, NEW e, NEW f, NEW g, Returned(s, r, g), f = s[Len(s)], NEW m, NEW P,
           f.pc \notin P, e = s[Len(s) - 1], g.pc = e.pc, g.m = e.m
    PROVE  Does(r, m, P) <=> Does(s, m, P)
<1> PICK n \in Nat : n = Len(s) /\ n > 1 /\ Len(r) = n - 1 /\ s[n] = f /\ s[n - 1] = e /\ r[n - 1] = g
  BY DEF Returned
<1>1. \A i \in 1 .. n - 1 : r[i].pc = s[i].pc /\ r[i].m = s[i].m
  <2>1. \A i \in 1 .. n - 2 : r[i] = s[i]
    BY DEF Returned
  <2> QED BY <2>1
<1>2. \A i \in 1 .. n : (s[i].m = m /\ s[i].pc \in P) <=> (i \in 1 .. n - 1 /\ r[i].m = m /\ r[i].pc \in P)
  BY <1>1
<1>3. \A i \in 1 .. n - 1 : i \in 1 .. n
  OBVIOUS
<1> QED BY <1>2, <1>3 DEF Does

\* ConvertOK from its parts after a step of t.
LEMMA ConvertAssembled ==
    ASSUME NEW t \in Threads, Others(t), ConvertOK, \A m \in Methods : EntryOK(m)',
           OneConversion(stack'[t]),
           \A u \in Threads : \A i \in 1 .. Len(stack'[u]) : \A x : x = stack'[u][i] => FrameOK(x, u)'
    PROVE  ConvertOK'
<1>1. ASSUME NEW u \in Threads PROVE OneConversion(stack'[u])
  BY DEF Others, ConvertOK
<1>2. ASSUME NEW u \in Threads, NEW i \in 1 .. Len(stack'[u]) PROVE FrameOK(stack[u][i], u)'
  <2>1. PICK x : x = stack'[u][i]
    OBVIOUS
  <2>2. FrameOK(x, u)'
    BY <2>1
  <2> QED BY <2>1, <2>2 DEF FrameOK
<1>3. (\A u \in Threads : OneConversion(stack[u]))'
  BY <1>1 DEF OneConversion
<1>4. (\A u \in Threads : \A i \in 1 .. Len(stack[u]) : FrameOK(stack[u][i], u))'
  BY <1>2
<1>5. (\A m \in Methods : EntryOK(m))'
  OBVIOUS
<1> QED BY <1>3, <1>4, <1>5 DEF ConvertOK

\* The set of threads that are somewhere stays when t stays.
LEMMA InPcSame ==
    ASSUME NEW t \in Threads, Others(t), NEW m, NEW P,
           Does(stack'[t], m, P) <=> Does(stack[t], m, P)
    PROVE  InPc(m, P)' = InPc(m, P)
<1>1. \A u \in Threads : Does(stack'[u], m, P) <=> Does(stack[u], m, P)
  BY DEF Others
<1>2. InPc(m, P)' = {u \in Threads : Does(stack'[u], m, P)}
  BY DEF InPc, Does
<1> QED BY <1>1, <1>2 DEF InPc

\* Nothing happens to the entries, and t does with each method what it did.
LEMMA ConvertSame ==
    ASSUME Types, ConvertOK, NEW t \in Threads, Others(t),
           entry' = entry, converted' = converted, once \subseteq once',
           \A m \in Methods : /\ Does(stack'[t], m, Converting) <=> Does(stack[t], m, Converting)
                              /\ Does(stack'[t], m, {"wait"}) <=> Does(stack[t], m, {"wait"})
                              /\ Does(stack'[t], m, {"wait", "woken"}) <=> Does(stack[t], m, {"wait", "woken"}),
           OneConversion(stack'[t]),
           \A i \in 1 .. Len(stack'[t]) : \A x : x = stack'[t][i] => FrameOK(x, t)'
    PROVE  ConvertOK'
<1>1. ASSUME NEW m \in Methods PROVE EntryOK(m)'
  <2>1. EntryOK(m)
    BY DEF ConvertOK
  <2>2. InPc(m, {"wait"})' = InPc(m, {"wait"}) /\ InPc(m, {"wait", "woken"})' = InPc(m, {"wait", "woken"})
    BY InPcSame
  <2>3. PICK w \in Threads \cup {NoThread} : w = entry[m].owner
    BY DEF Types, EntryType
  <2>4. w \in Threads => (Does(stack'[w], m, Converting) <=> Does(stack[w], m, Converting))
    BY DEF Others
  <2>5. entry[m].state = "linked" => Does(stack'[w], m, Converting)
    BY <2>1, <2>3, <2>4 DEF EntryOK
  <2>6. entry'[m].state = "linked" => /\ m \notin converted' /\ entry'[m].sem = 0
                                      /\ entry'[m].owner # NoThread
                                      /\ Does(stack'[entry'[m].owner], m, Converting)
    BY <2>1, <2>3, <2>5 DEF EntryOK
  <2>7. /\ entry'[m].state \in {"unlinked", "freed"} => m \in converted'
        /\ entry'[m].state = "unlinked" => entry'[m].sem = Cardinality(InPc(m, {"wait"})')
        /\ entry'[m].waiting = Cardinality(InPc(m, {"wait", "woken"})')
    BY <2>1, <2>2 DEF EntryOK
  <2> QED BY <2>6, <2>7 DEF EntryOK, Does, InPc
<1>2. ASSUME NEW u \in Threads, NEW i \in 1 .. Len(stack'[u]), NEW x, x = stack'[u][i]
      PROVE  FrameOK(x, u)'
  <2>1. CASE u = t
    BY <1>2, <2>1
  <2>2. CASE u # t
    <3>1. stack'[u] = stack[u]
      BY <2>2 DEF Others
    <3>2. FrameOK(x, u)
      BY <1>2, <3>1 DEF ConvertOK
    <3> QED BY <3>2, FrameStays
  <2> QED BY <2>1, <2>2
<1> QED BY <1>1, <1>2, ConvertAssembled

\* A thread converts a method once: it does not begin while it is at it.
LEMMA OneReplaced ==
    ASSUME NEW s, NEW r, NEW f, NEW g, OneConversion(s), Replaces(s, r, g), f = s[Len(s)], g.m = f.m,
           g.pc \in Converting => f.pc \in Converting \/ ~Does(s, f.m, Converting)
    PROVE  OneConversion(r)
<1> PICK n \in Nat : n = Len(s) /\ n > 0 /\ Len(r) = n /\ r[n] = g /\ s[n] = f
  BY DEF Replaces
<1>1. \A i \in 1 .. n - 1 : r[i] = s[i]
  BY DEF Replaces
<1> SUFFICES ASSUME NEW i \in 1 .. n, NEW j \in 1 .. n, r[i].m = r[j].m, r[i].m # NoMethod,
                    r[i].pc \in Converting, r[j].pc \in Converting
             PROVE  i = j
  BY DEF OneConversion
<1>2. \A k \in 1 .. n : r[k].m = s[k].m /\ (k < n => r[k].pc = s[k].pc)
  BY <1>1
<1>3. CASE g.pc \in Converting /\ f.pc \notin Converting
  <2>1. \A k \in 1 .. n : s[k].m = f.m => s[k].pc \notin Converting
    BY <1>3 DEF Does
  <2>2. (i < n => s[i].pc \in Converting) /\ (j < n => s[j].pc \in Converting)
    BY <1>2
  <2>3. CASE i < n /\ j < n
    BY <1>2, <2>2, <2>3 DEF OneConversion
  <2>4. CASE i = n \/ j = n
    BY <1>2, <2>1, <2>2, <2>4
  <2> QED BY <2>3, <2>4
<1>4. CASE g.pc \in Converting => f.pc \in Converting
  <2>1. s[i].pc \in Converting /\ s[j].pc \in Converting
    BY <1>2, <1>4
  <2> QED BY <1>2, <2>1 DEF OneConversion
<1> QED BY <1>3, <1>4

\* A called frame has not begun,
LEMMA OnePushed ==
    ASSUME NEW s, NEW r, NEW g, OneConversion(s), Pushes(s, r, g), g.m = NoMethod \/ g.pc \notin Converting
    PROVE  OneConversion(r)
<1> PICK n \in Nat : n = Len(s) /\ Len(r) = n + 1 /\ r[n + 1] = g
  BY DEF Pushes
<1>1. \A i \in 1 .. n : r[i].pc = s[i].pc /\ r[i].m = s[i].m
  BY DEF Pushes, Same
<1> SUFFICES ASSUME NEW i \in 1 .. n + 1, NEW j \in 1 .. n + 1, r[i].m = r[j].m, r[i].m # NoMethod,
                    r[i].pc \in Converting, r[j].pc \in Converting
             PROVE  i = j
  BY DEF OneConversion
<1>2. i \in 1 .. n /\ j \in 1 .. n
  OBVIOUS
<1>3. s[i].m = s[j].m /\ s[i].m # NoMethod /\ s[i].pc \in Converting /\ s[j].pc \in Converting
  BY <1>1, <1>2
<1> QED BY <1>2, <1>3 DEF OneConversion

\* a return ends none twice,
LEMMA OnePopped ==
    ASSUME NEW s, NEW r, OneConversion(s), Pops(s, r)
    PROVE  OneConversion(r)
<1> PICK n \in Nat : n = Len(s) /\ n > 0 /\ Len(r) = n - 1
  BY DEF Pops
<1>1. \A i \in 1 .. n - 1 : r[i] = s[i]
  BY DEF Pops
<1> SUFFICES ASSUME NEW i \in 1 .. n - 1, NEW j \in 1 .. n - 1, r[i].m = r[j].m, r[i].m # NoMethod,
                    r[i].pc \in Converting, r[j].pc \in Converting
             PROVE  i = j
  BY DEF OneConversion
<1>2. s[i].m = s[j].m /\ s[i].m # NoMethod /\ s[i].pc \in Converting /\ s[j].pc \in Converting
  BY <1>1
<1> QED BY <1>2 DEF OneConversion

\* and a constructor's end leaves its caller where it is.
LEMMA OneReturned ==
    ASSUME NEW s, NEW r, NEW e, NEW g, OneConversion(s), Returned(s, r, g),
           e = s[Len(s) - 1], g.pc = e.pc, g.m = e.m
    PROVE  OneConversion(r)
<1> PICK n \in Nat : n = Len(s) /\ n > 1 /\ Len(r) = n - 1 /\ s[n - 1] = e /\ r[n - 1] = g
  BY DEF Returned
<1>1. \A i \in 1 .. n - 1 : r[i].pc = s[i].pc /\ r[i].m = s[i].m
  <2>1. \A i \in 1 .. n - 2 : r[i] = s[i]
    BY DEF Returned
  <2> QED BY <2>1
<1> SUFFICES ASSUME NEW i \in 1 .. n - 1, NEW j \in 1 .. n - 1, r[i].m = r[j].m, r[i].m # NoMethod,
                    r[i].pc \in Converting, r[j].pc \in Converting
             PROVE  i = j
  BY DEF OneConversion
<1>2. s[i].m = s[j].m /\ s[i].m # NoMethod /\ s[i].pc \in Converting /\ s[j].pc \in Converting
  BY <1>1
<1> QED BY <1>2 DEF OneConversion

\* The pool, when the top frame stays with its entry or without one.
LEMMA ConvertReplaced ==
    ASSUME Types, ConvertOK, NEW t \in Threads, Others(t), NEW f, NEW g,
           Replaces(stack[t], stack'[t], g), f = stack[t][Len(stack[t])],
           entry' = entry, converted' = converted, once \subseteq once',
           g.m = f.m, f.pc \in Converting <=> g.pc \in Converting,
           f.pc \notin {"wait", "woken"}, g.pc \notin {"wait", "woken"}, FrameOK(g, t)'
    PROVE  ConvertOK'
<1> PICK s, r : s = stack[t] /\ r = stack'[t]
  OBVIOUS
<1> PICK n \in Nat : n = Len(s) /\ n > 0 /\ Len(r) = n /\ r[n] = g /\ s[n] = f
  BY DEF Replaces
<1>1. \A i \in 1 .. n - 1 : r[i] = s[i]
  BY DEF Replaces
<1>2. ASSUME NEW m \in Methods
      PROVE  /\ Does(r, m, Converting) <=> Does(s, m, Converting)
             /\ Does(r, m, {"wait"}) <=> Does(s, m, {"wait"})
             /\ Does(r, m, {"wait", "woken"}) <=> Does(s, m, {"wait", "woken"})
  BY DoesReplaced
<1>3. OneConversion(r)
  BY OneReplaced DEF ConvertOK
<1>4. ASSUME NEW i \in 1 .. n, NEW x, x = r[i] PROVE FrameOK(x, t)'
  <2>1. CASE i = n
    BY <1>4, <2>1
  <2>2. CASE i < n
    <3>1. x = s[i]
      BY <1>1, <1>4, <2>2
    <3>2. FrameOK(x, t)
      BY <3>1 DEF ConvertOK
    <3> QED BY <3>2, FrameStays
  <2> QED BY <2>1, <2>2
<1> QED BY <1>2, <1>3, <1>4, ConvertSame

\* The pool, when a method is called.
LEMMA ConvertPushed ==
    ASSUME Types, ConvertOK, NEW t \in Threads, Others(t), NEW g, Pushes(stack[t], stack'[t], g),
           entry' = entry, converted' = converted, once \subseteq once', ~g.own,
           g.pc \in {"convert", "body"} \/ g.m = NoMethod
    PROVE  ConvertOK'
<1> PICK s, r : s = stack[t] /\ r = stack'[t]
  OBVIOUS
<1> PICK n \in Nat : n = Len(s) /\ Len(r) = n + 1 /\ r[n + 1] = g
  BY DEF Pushes
<1>1. \A i \in 1 .. n : Same(r[i], s[i])
  BY DEF Pushes
<1>2. ASSUME NEW m \in Methods
      PROVE  /\ Does(r, m, Converting) <=> Does(s, m, Converting)
             /\ Does(r, m, {"wait"}) <=> Does(s, m, {"wait"})
             /\ Does(r, m, {"wait", "woken"}) <=> Does(s, m, {"wait", "woken"})
  <2>1. \/ g.m # m
        \/ g.pc \notin Converting /\ g.pc \notin {"wait"} /\ g.pc \notin {"wait", "woken"}
    BY CCtorAssumption DEF Converting
  <2> QED BY <2>1, DoesPushed
<1>3. OneConversion(r)
  <2>1. g.m = NoMethod \/ g.pc \notin Converting
    BY DEF Converting
  <2> QED BY <2>1, OnePushed DEF ConvertOK
<1>4. ASSUME NEW i \in 1 .. n + 1, NEW x, x = r[i] PROVE FrameOK(x, t)'
  <2>1. CASE i = n + 1
    BY <1>4, <2>1 DEF FrameOK, Converting
  <2>2. CASE i <= n
    <3>1. PICK y : y = s[i]
      OBVIOUS
    <3>2. FrameOK(y, t)
      BY <2>2, <3>1 DEF ConvertOK
    <3>3. FrameOK(y, t)'
      BY <3>2, FrameStays
    <3>4. Same(x, y)
      BY <1>1, <1>4, <2>2, <3>1
    <3> QED BY <3>3, <3>4 DEF Same, FrameOK
  <2> QED BY <2>1, <2>2
<1> QED BY <1>2, <1>3, <1>4, ConvertSame

\* The pool, when a method returns.
LEMMA ConvertPopped ==
    ASSUME Types, ConvertOK, NEW t \in Threads, Others(t), NEW f, Pops(stack[t], stack'[t]),
           f = stack[t][Len(stack[t])],
           entry' = entry, converted' = converted, once \subseteq once',
           f.pc = "body" \/ f.m = NoMethod
    PROVE  ConvertOK'
<1> PICK s, r : s = stack[t] /\ r = stack'[t]
  OBVIOUS
<1> PICK n \in Nat : n = Len(s) /\ n > 0 /\ Len(r) = n - 1 /\ s[n] = f
  BY DEF Pops
<1>1. \A i \in 1 .. n - 1 : r[i] = s[i]
  BY DEF Pops
<1>2. ASSUME NEW m \in Methods
      PROVE  /\ Does(r, m, Converting) <=> Does(s, m, Converting)
             /\ Does(r, m, {"wait"}) <=> Does(s, m, {"wait"})
             /\ Does(r, m, {"wait", "woken"}) <=> Does(s, m, {"wait", "woken"})
  <2>1. \/ f.m # m
        \/ f.pc \notin Converting /\ f.pc \notin {"wait"} /\ f.pc \notin {"wait", "woken"}
    BY CCtorAssumption DEF Converting
  <2> QED BY <2>1, DoesPopped
<1>3. OneConversion(r)
  BY OnePopped DEF ConvertOK
<1>4. ASSUME NEW i \in 1 .. n - 1, NEW x, x = r[i] PROVE FrameOK(x, t)'
  <2>1. i \in 1 .. n /\ x = s[i]
    BY <1>1, <1>4
  <2>2. FrameOK(x, t)
    BY <2>1 DEF ConvertOK
  <2> QED BY <2>2, FrameStays
<1> QED BY <1>2, <1>3, <1>4, ConvertSame

\* The pool, when a constructor ends.
LEMMA ConvertReturned ==
    ASSUME Types, ConvertOK, NEW t \in Threads, Others(t), NEW e, NEW f, NEW g,
           Returned(stack[t], stack'[t], g), f = stack[t][Len(stack[t])], f.pc = "body",
           e = stack[t][Len(stack[t]) - 1], g.pc = e.pc, g.m = e.m,
           entry' = entry, converted' = converted, once \subseteq once', FrameOK(g, t)'
    PROVE  ConvertOK'
<1> PICK s, r : s = stack[t] /\ r = stack'[t]
  OBVIOUS
<1> PICK n \in Nat : n = Len(s) /\ n > 1 /\ Len(r) = n - 1 /\ s[n] = f /\ s[n - 1] = e /\ r[n - 1] = g
  BY DEF Returned
<1>1. \A i \in 1 .. n - 2 : r[i] = s[i]
  BY DEF Returned
<1>2. ASSUME NEW m \in Methods
      PROVE  /\ Does(r, m, Converting) <=> Does(s, m, Converting)
             /\ Does(r, m, {"wait"}) <=> Does(s, m, {"wait"})
             /\ Does(r, m, {"wait", "woken"}) <=> Does(s, m, {"wait", "woken"})
  <2>1. f.pc \notin Converting /\ f.pc \notin {"wait"} /\ f.pc \notin {"wait", "woken"}
    BY DEF Converting
  <2> QED BY <2>1, DoesReturned
<1>3. OneConversion(r)
  BY OneReturned DEF ConvertOK
<1>4. ASSUME NEW i \in 1 .. n - 1, NEW x, x = r[i] PROVE FrameOK(x, t)'
  <2>1. CASE i = n - 1
    BY <1>4, <2>1
  <2>2. CASE i < n - 1
    <3>1. i \in 1 .. n /\ x = s[i]
      BY <1>1, <1>4, <2>2
    <3>2. FrameOK(x, t)
      BY <3>1 DEF ConvertOK
    <3> QED BY <3>2, FrameStays
  <2> QED BY <2>1, <2>2
<1> QED BY <1>2, <1>3, <1>4, ConvertSame

-----------------------------------------------------------------------------
(* The steps. *)

\* The other threads' stacks keep their shape.
LEMMA ShapesKept ==
    ASSUME Shapes, NEW t \in Threads, Others(t), Shape(stack'[t])
    PROVE  Shapes'
<1>1. \A u \in Threads : Shape(stack'[u])
  BY DEF Shapes, Others
<1> QED BY <1>1 DEF Shapes, Shape

\* The metadata lock keeps its type whatever is done with it.
LEMMA LockTyped ==
    ASSUME Types, NEW t \in Threads,
           WriteLock(t) \/ WriteUnlock(t) \/ ReadLockAndUnlock(t) \/ UNCHANGED lockVars
    PROVE  meta' \in Threads \cup {NoThread, Broken} /\ depth' \in Nat /\ (meta' \in Threads => depth' > 0)
<1> USE CCtorAssumption DEF Types, lockVars
<1>1. CASE WriteLock(t)
  BY <1>1 DEF WriteLock
<1>2. CASE WriteUnlock(t)
  BY <1>2 DEF WriteUnlock
<1>3. CASE ReadLockAndUnlock(t)
  BY <1>3 DEF ReadLockAndUnlock
<1>4. CASE UNCHANGED lockVars
  BY <1>4
<1> QED BY <1>1, <1>2, <1>3, <1>4

\* The top frame changes, and nothing else but what is done.
LEMMA QuietReplace ==
    ASSUME CCtorInv, NEW t \in Threads, stack[t] # <<>>, NEW f, f = Top(t), NEW g \in FrameType, Goto(t, g),
           UNCHANGED <<holder, converted, entry, calls>>, UNCHANGED lockVars \/ ReadLockAndUnlock(t),
           running' \ once' = running \ once, running' \subseteq Classes,
           once \subseteq once', once' \subseteq Classes,
           g.m = f.m, g.cls = f.cls,
           g.m = NoMethod => g.pc \in {"enter", "run"},
           g.own => g.pc \in {"run", "store", "body"},
           g.pc \in Constructing => holder = t,
           f.pc \notin {"wait", "woken"}, g.pc \notin {"wait", "woken"},
           (g.own /\ g.pc = "run") <=> (f.own /\ f.pc = "run"),
           f.pc \in Converting <=> g.pc \in Converting,
           FrameOK(g, t)'
    PROVE  CCtorInv'
<1> USE DEF CCtorInv
<1>1. Others(t) /\ Replaces(stack[t], stack'[t], g) /\ f = stack[t][Len(stack[t])]
  BY GotoFacts, TopFrame
<1>2. holder' = holder /\ converted' = converted /\ entry' = entry /\ calls' = calls
  OBVIOUS
<1>3. holder \in Threads \cup {NoThread}
  BY DEF Types
<1>4. Types'
  BY <1>1, <1>2, LockTyped DEF Types, Others
<1>5. Shape(stack[t])
  BY DEF Shapes
<1>6. Shapes'
  <2>1. Shape(stack'[t])
    BY <1>1, <1>5, ShapeReplaced
  <2> QED BY <1>1, <2>1, ShapesKept
<1>7. HolderOK'
  BY <1>1, <1>2, <1>3, HolderReplaced
<1>9. ClassOK'
  BY <1>1, <1>2, ClassReplaced
<1>10. ConvertOK'
  BY <1>1, <1>2, ConvertReplaced
<1> QED BY <1>4, <1>6, <1>7, <1>9, <1>10

\* A call of a method or of the manager.
LEMMA QuietPush ==
    ASSUME CCtorInv, NEW t \in Threads, NEW g \in FrameType, Others(t), Pushes(stack[t], stack'[t], g),
           UNCHANGED <<lockVars, holder, classVars, converted, entry>>, calls' \in [Threads -> 0 .. MaxCalls],
           stack[t] = <<>> \/ (stack[t] # <<>> /\ Top(t).pc = "body"),
           g.cls = NoClass, ~g.own,
           \/ g.pc \in {"convert", "body"} /\ g.m # NoMethod
           \/ g.pc = "enter" /\ g.m = NoMethod
    PROVE  CCtorInv'
<1> USE DEF CCtorInv
<1>1. /\ holder' = holder /\ meta' = meta /\ depth' = depth /\ converted' = converted /\ entry' = entry
      /\ running' = running /\ once' = once
  BY DEF lockVars, classVars
<1>2. holder \in Threads \cup {NoThread}
  BY DEF Types
<1>3. Types'
  BY <1>1 DEF Types, Others
<1>4. Shapes'
  <2>1. stack[t] # <<>> => Top(t) = stack[t][Len(stack[t])] /\ Len(stack[t]) > 0
    BY TopFrame
  <2>2. stack[t] = <<>> => Len(stack[t]) = 0
    OBVIOUS
  <2>3. Len(stack[t]) > 0 => stack[t][Len(stack[t])].pc = "body"
    BY <2>1, <2>2
  <2>4. Shape(stack[t])
    BY DEF Shapes
  <2>5. Shape(stack'[t])
    BY <2>1, <2>3, <2>4, ShapePushed DEF Constructing
  <2> QED BY <2>5, ShapesKept
<1>5. HolderOK'
  BY <1>1, <1>2, HolderPushed DEF Constructing
<1>7. ClassOK'
  BY <1>1, ClassPushed
<1>8. ConvertOK'
  BY <1>1, ConvertPushed
<1> QED BY <1>3, <1>4, <1>5, <1>7, <1>8

\* What the invariant says of the top frame.
LEMMA TopFacts ==
    ASSUME CCtorInv, NEW t \in Threads, stack[t] # <<>>, NEW f, f = Top(t)
    PROVE  /\ f \in FrameType /\ FrameOK(f, t)
           /\ f.m = NoMethod => f.pc \in {"enter", "run"} /\ f.cls = NoClass
           /\ f.own => f.pc \in {"run", "store", "body"}
           /\ f.pc \in Constructing => holder = t
           /\ f.pc \in {"wait", "woken"} => holder # t
<1> USE DEF CCtorInv
<1>1. PICK n \in Nat : n = Len(stack[t]) /\ n > 0 /\ f = stack[t][n]
  BY TopFrame
<1>2. f \in FrameType
  BY TopFrame
<1>3. FrameOK(f, t)
  BY <1>1 DEF ConvertOK
<1>4. (f.m = NoMethod => f.pc \in {"enter", "run"} /\ f.cls = NoClass) /\ (f.own => f.pc \in {"run", "store", "body"})
  BY <1>1 DEF Shapes, Shape
<1>5. (f.pc \in Constructing => holder = t) /\ (f.pc \in {"wait", "woken"} => holder # t)
  BY <1>1 DEF HolderOK, Manager
<1> QED BY <1>2, <1>3, <1>4, <1>5

\* HandleLockedMethod for the thread's own entry; a method converted
\* meanwhile.
LEMMA QuietConvert ==
    ASSUME CCtorInv, NEW t \in Threads, ConvertOwn(t) \/ ConvertDone(t)
    PROVE  CCtorInv'
<1> USE DEF CCtorInv
<1>1. PICK f : f = Top(t)
  OBVIOUS
<1>2. /\ stack[t] # <<>> /\ f.pc = "convert" /\ meta' = meta /\ depth' = depth
      /\ Goto(t, [f EXCEPT !.pc = "body"])
      /\ UNCHANGED <<holder, classVars, converted, entry, calls>>
  BY <1>1 DEF ConvertOwn, ConvertDone, At, LockAndUnlock, lockVars
<1>3. /\ f \in FrameType /\ ~f.own /\ f.m # NoMethod
  BY <1>1, <1>2, TopFacts
<1>4. PICK g : g = [f EXCEPT !.pc = "body"]
  OBVIOUS
<1>5. /\ g \in FrameType /\ g.pc = "body" /\ g.m = f.m /\ g.cls = f.cls /\ ~g.own
  BY <1>3, <1>4, SetPc DEF Pcs
<1>6. FrameOK(g, t)'
  BY <1>5 DEF FrameOK, Converting
<1>7. running' = running /\ once' = once /\ running \subseteq Classes /\ once \subseteq Classes
  BY <1>2 DEF Types, classVars
<1> QED BY <1>1, <1>2, <1>3, <1>4, <1>5, <1>6, <1>7, QuietReplace DEF lockVars, Constructing, Converting

\* The manager's lock is the thread's already.
LEMMA EnterAgain ==
    ASSUME CCtorInv, NEW t \in Threads, Enter(t), holder = t
    PROVE  CCtorInv'
<1> USE DEF CCtorInv
<1>1. PICK f : f = Top(t)
  OBVIOUS
<1>2. /\ stack[t] # <<>> /\ f.pc = "enter" /\ holder' = holder
      /\ Goto(t, [f EXCEPT !.pc = "run"])
      /\ UNCHANGED <<lockVars, classVars, converted, entry, calls>>
  BY <1>1, CCtorAssumption DEF Enter, At
<1>3. f \in FrameType /\ ~f.own /\ FrameOK(f, t)
  BY <1>1, <1>2, TopFacts
<1>4. PICK g : g = [f EXCEPT !.pc = "run"]
  OBVIOUS
<1>5. /\ g \in FrameType /\ g.pc = "run" /\ g.m = f.m /\ g.cls = f.cls /\ ~g.own
  BY <1>3, <1>4, SetPc DEF Pcs
<1>6. FrameOK(g, t)'
  BY <1>2, <1>3, <1>5 DEF FrameOK, Converting
<1>7. running' = running /\ once' = once /\ running \subseteq Classes /\ once \subseteq Classes
  BY <1>2 DEF Types, classVars
<1> QED BY <1>1, <1>2, <1>3, <1>4, <1>5, <1>6, <1>7, QuietReplace DEF Constructing, Converting

\* A static field is accessed.
LEMMA FieldAccessStep ==
    ASSUME CCtorInv, NEW t \in Threads, FieldAccess(t)
    PROVE  CCtorInv'
<1> USE DEF CCtorInv
<1>1. PICK f : f = Top(t)
  OBVIOUS
<1>2. /\ stack[t] # <<>> /\ f.pc = "body"
      /\ Goto(t, [f EXCEPT !.i = @ + 1])
      /\ UNCHANGED <<lockVars, holder, classVars, converted, entry, calls>>
  BY <1>1 DEF FieldAccess, AtStep, At
<1>3. f \in FrameType /\ f.m # NoMethod /\ FrameOK(f, t)
  BY <1>1, <1>2, TopFacts
<1>4. PICK g : g = [f EXCEPT !.i = @ + 1]
  OBVIOUS
<1>5. g \in FrameType /\ Same(g, f)
  BY <1>3, <1>4, NextI
<1>6. running' = running /\ once' = once /\ running \subseteq Classes /\ once \subseteq Classes
  BY <1>2 DEF Types, classVars
<1>7. FrameOK(g, t)'
  <2>1. FrameOK(f, t)'
    BY <1>2, <1>3, <1>6, FrameStays
  <2> QED BY <1>5, <2>1 DEF Same, FrameOK
<1>8. g.m = f.m /\ g.pc = f.pc /\ g.cls = f.cls /\ g.own = f.own
  BY <1>5 DEF Same
<1> QED BY <1>1, <1>2, <1>3, <1>4, <1>5, <1>6, <1>7, <1>8, QuietReplace DEF Constructing, Converting

\* The queue without its first class.
LEMMA RangeTail ==
    ASSUME NEW S, NEW q \in Seq(S), q # <<>>
    PROVE  Tail(q) \in Seq(S) /\ Head(q) \in S /\ Range(q) \subseteq {Head(q)} \cup Range(Tail(q))
<1>1. PICK n \in Nat : n = Len(q) /\ n > 0
  OBVIOUS
<1>2. /\ Tail(q) \in Seq(S) /\ Head(q) \in S /\ Head(q) = q[1] /\ DOMAIN q = 1 .. n
      /\ Len(Tail(q)) = n - 1 /\ \A i \in 1 .. n - 1 : Tail(q)[i] = q[i + 1]
  BY <1>1
<1>3. DOMAIN Tail(q) = 1 .. n - 1
  BY <1>2
<1>4. ASSUME NEW i \in 1 .. n PROVE q[i] \in {Head(q)} \cup Range(Tail(q))
  <2>1. CASE i = 1
    BY <1>2, <2>1
  <2>2. CASE i > 1
    <3>1. i - 1 \in 1 .. n - 1 /\ q[i] = Tail(q)[i - 1]
      BY <1>2, <2>2
    <3> QED BY <1>3, <3>1 DEF Range
  <2> QED BY <2>1, <2>2
<1> QED BY <1>2, <1>4 DEF Range

\* A class of the queue is done with, for the frame that took the lock.
LEMMA QueueShorter ==
    ASSUME CCtorInv, NEW t \in Threads, stack[t] # <<>>, NEW f, f = Top(t), f.pc \in Constructing, f.q # <<>>,
           Goto(t, [f EXCEPT !.q = Tail(@)]),
           UNCHANGED <<holder, converted, entry, calls>>, UNCHANGED lockVars \/ ReadLockAndUnlock(t),
           running' \ once' = running \ once, running' \subseteq Classes,
           once \subseteq once', once' \subseteq Classes,
           f.own /\ f.pc = "run" => Head(f.q) \in once'
    PROVE  CCtorInv'
<1> USE DEF CCtorInv
<1>1. /\ f \in FrameType /\ FrameOK(f, t) /\ holder = t
      /\ f.m = NoMethod => f.pc = "run"
      /\ f.own => f.pc = "run"
  BY TopFacts DEF Constructing
<1>2. Tail(f.q) \in Seq(Classes) /\ Range(f.q) \subseteq {Head(f.q)} \cup Range(Tail(f.q))
  <2>1. f.q \in Seq(Classes)
    BY <1>1 DEF FrameType
  <2> QED BY <2>1, RangeTail
<1>3. PICK g : g = [f EXCEPT !.q = Tail(f.q)]
  OBVIOUS
<1>4. Goto(t, g)
  BY <1>3
<1>5. /\ g \in FrameType /\ g.pc = f.pc /\ g.m = f.m /\ g.cls = f.cls
      /\ g.q = Tail(f.q) /\ g.own = f.own /\ g.ok = f.ok
  <2>1. PICK q \in Seq(Classes) : q = Tail(f.q) /\ g = [f EXCEPT !.q = q]
    BY <1>2, <1>3
  <2>2. /\ g \in FrameType /\ g.pc = f.pc /\ g.m = f.m /\ g.cls = f.cls
        /\ g.q = q /\ g.own = f.own /\ g.ok = f.ok
    <3> HIDE DEF CCtorInv
    <3>1. f \in FrameType
      BY <1>1
    <3> QED BY ONLY <3>1, <2>1 DEF FrameType
  <2> QED BY <2>1, <2>2
<1>6. entry' = entry /\ converted' = converted
  OBVIOUS
<1>7. FrameOK(f, t)'
  BY <1>1, <1>6, FrameStays
<1>8. FrameOK(g, t)'
  <2>1. ASSUME f.m # NoMethod, f.own, f.ok, f.pc = "run"
        PROVE  Range(entry'[f.m].classes) \subseteq once' \cup Range(Tail(f.q))
    <3>1. Range(entry[f.m].classes) \subseteq once \cup Range(f.q)
      BY <1>1, <2>1 DEF FrameOK
    <3> QED BY <1>2, <1>6, <2>1, <3>1
  <2>2. f.pc # "enter" /\ f.pc # "body" /\ f.pc # "store"
    BY DEF Constructing
  <2> QED BY <1>5, <1>7, <2>1, <2>2 DEF FrameOK
<1>9. f.pc \notin {"wait", "woken"}
  BY DEF Constructing
<1> QED BY <1>1, <1>4, <1>5, <1>8, <1>9, QuietReplace

\* A class that is running or done is left alone: the taker of the lock skips
\* only what is done.
LEMMA SkipCCtorStep ==
    ASSUME CCtorInv, NEW t \in Threads, SkipCCtor(t)
    PROVE  CCtorInv'
<1> USE DEF CCtorInv
<1>1. PICK f : f = Top(t)
  OBVIOUS
<1>2. /\ stack[t] # <<>> /\ f.pc \in Constructing /\ f.q # <<>> /\ Head(f.q) \in running \cup once
      /\ Goto(t, [f EXCEPT !.q = Tail(@)])
      /\ UNCHANGED <<lockVars, holder, classVars, converted, entry, calls>>
  BY <1>1 DEF SkipCCtor, Running, At, Constructing, MustRun
<1>3. running' = running /\ once' = once /\ running \subseteq Classes /\ once \subseteq Classes
  BY <1>2 DEF Types, classVars
<1>4. f.own /\ f.pc = "run" => running \ once = {}
  BY <1>1, <1>2, NoneRunning
<1> QED BY <1>1, <1>2, <1>3, <1>4, QueueShorter

\* A class without a constructor is flagged as done.
LEMMA RunTrivial ==
    ASSUME CCtorInv, NEW t \in Threads, RunCCtor(t), CCtor[Head(Top(t).q)] = NoMethod
    PROVE  CCtorInv'
<1> USE DEF CCtorInv
<1>1. PICK f : f = Top(t)
  OBVIOUS
<1>2. /\ stack[t] # <<>> /\ f.pc \in Constructing /\ f.q # <<>>
      /\ once' = once \cup {Head(f.q)} /\ running' = running
      /\ Goto(t, [f EXCEPT !.q = Tail(@)])
      /\ ReadLockAndUnlock(t)
      /\ UNCHANGED <<holder, converted, entry, calls>>
  BY <1>1 DEF RunCCtor, Running, At, Constructing
<1>3. running \subseteq Classes /\ once \subseteq Classes
  BY DEF Types
<1>4. Head(f.q) \in Classes
  <2>1. f.q \in Seq(Classes)
    BY <1>1, <1>2, TopFacts DEF FrameType
  <2> QED BY <1>2, <2>1, RangeTail
<1>5. running' \ once' = running \ once
  BY <1>1, <1>2, TrivialDone
<1> QED BY <1>1, <1>2, <1>3, <1>4, <1>5, QueueShorter

\* _ILCCtorMgr_RunCCtor calls the constructor.
LEMMA RunConstructor ==
    ASSUME CCtorInv, NEW t \in Threads, RunCCtor(t), CCtor[Head(Top(t).q)] # NoMethod
    PROVE  CCtorInv'
<1> USE DEF CCtorInv
<1>1. PICK f, c : f = Top(t) /\ c = Head(f.q)
  OBVIOUS
<1>2. /\ stack[t] # <<>> /\ f.pc \in Constructing /\ f.q # <<>> /\ c \notin running \cup once
      /\ once' = once /\ running' = running \cup {c}
      /\ stack' = [stack EXCEPT ![t] = Append(stack[t], Called(CCtor[c], c))]
      /\ ReadLockAndUnlock(t)
      /\ UNCHANGED <<holder, converted, entry, calls>>
  BY <1>1 DEF RunCCtor, Running, At, Constructing, MustRun
<1>3. c \in Classes
  <2>1. f.q \in Seq(Classes)
    BY <1>1, <1>2, TopFacts DEF FrameType
  <2> QED BY <1>1, <1>2, <2>1, RangeTail
<1>4. CCtor[c] \in Methods
  BY <1>1, <1>3, CCtorAssumption
<1>5. PICK g : g = Called(CCtor[c], c)
  OBVIOUS
<1>6. g \in FrameType /\ g.m # NoMethod /\ g.cls = c /\ g.pc \in {"body", "convert"} /\ ~g.own
  BY <1>3, <1>4, <1>5, CalledType, CCtorAssumption
<1>7. Others(t) /\ Pushes(stack[t], stack'[t], g)
  BY <1>2, <1>5, <1>6, PushFacts
<1>8. holder = t /\ holder' = holder /\ holder \in Threads \cup {NoThread}
  BY <1>1, <1>2, TopFacts DEF Types
<1>9. Types'
  BY <1>2, <1>3, <1>7, <1>8, LockTyped DEF Types, Others
<1>10. Shapes'
  <2>1. f = stack[t][Len(stack[t])] /\ Len(stack[t]) > 0
    BY <1>1, <1>2, TopFrame
  <2>2. Shape(stack[t])
    BY DEF Shapes
  <2>3. Shape(stack'[t])
    BY <1>1, <1>2, <1>6, <1>7, <2>1, <2>2, ShapePushed
  <2> QED BY <1>7, <2>3, ShapesKept
<1>11. HolderOK'
  BY <1>6, <1>7, <1>8, HolderPushed DEF Constructing
<1>13. ClassOK'
  BY <1>2, <1>3, <1>6, <1>7, <1>8, ClassStarted
<1>14. ConvertOK'
  BY <1>2, <1>6, <1>7, ConvertPushed
<1> QED BY <1>9, <1>10, <1>11, <1>13, <1>14

\* The manager's lock is taken.
LEMMA EnterFirst ==
    ASSUME CCtorInv, NEW t \in Threads, Enter(t), holder = NoThread
    PROVE  CCtorInv'
<1> USE DEF CCtorInv
<1>1. PICK f : f = Top(t)
  OBVIOUS
<1>2. /\ stack[t] # <<>> /\ f.pc = "enter" /\ holder' = t
      /\ Goto(t, [f EXCEPT !.pc = "run", !.own = TRUE])
      /\ UNCHANGED <<lockVars, classVars, converted, entry, calls>>
  BY <1>1, CCtorAssumption DEF Enter, At
<1>3. f \in FrameType /\ FrameOK(f, t)
  BY <1>1, <1>2, TopFacts
<1>4. PICK g : g = [f EXCEPT !.pc = "run", !.own = TRUE]
  OBVIOUS
<1>5. /\ g \in FrameType /\ g.pc = "run" /\ g.m = f.m /\ g.cls = f.cls /\ g.q = f.q /\ g.own
  BY <1>3, <1>4 DEF FrameType, Pcs
<1>6. Others(t) /\ Replaces(stack[t], stack'[t], g) /\ f = stack[t][Len(stack[t])]
  BY <1>1, <1>2, <1>4, <1>5, GotoFacts, TopFrame
<1>7. /\ running' = running /\ once' = once /\ entry' = entry /\ converted' = converted
      /\ meta' = meta /\ depth' = depth /\ calls' = calls
  BY <1>2 DEF Types, classVars, lockVars
<1>8. Types'
  BY <1>2, <1>6, <1>7 DEF Types, Others
<1>9. Shape(stack[t])
  BY DEF Shapes
<1>10. Shapes'
  <2>1. Shape(stack'[t])
    BY <1>5, <1>6, <1>9, ShapeReplaced
  <2> QED BY <1>6, <2>1, ShapesKept
<1>11. HolderOK'
  BY <1>2, <1>5, <1>6, <1>9, HolderTaken, CCtorAssumption
<1>13. ClassOK'
  <2>1. running \ once = {}
    BY NoneRunning
  <2> QED BY <1>5, <1>6, <1>7, <2>1, ClassReplaced
<1>14. FrameOK(g, t)'
  <2>1. ASSUME f.m # NoMethod PROVE f.q = entry[f.m].classes /\ entry[f.m].state = "linked" /\ entry[f.m].owner = t
    BY <1>2, <1>3, <2>1 DEF FrameOK, Converting
  <2> QED BY <1>5, <1>7, <2>1 DEF FrameOK, Converting
<1>15. ConvertOK'
  BY <1>2, <1>5, <1>6, <1>7, <1>14, ConvertReplaced DEF Converting
<1> QED BY <1>8, <1>10, <1>11, <1>13, <1>15

\* The lock is given up and the frame goes on or ends.
LEMMA LeaveToStore ==
    ASSUME CCtorInv, NEW t \in Threads, Leave(t), Top(t).m # NoMethod
    PROVE  CCtorInv'
<1> USE DEF CCtorInv
<1>1. PICK f : f = Top(t)
  OBVIOUS
<1>2. /\ stack[t] # <<>> /\ f.pc = "run" /\ f.q = <<>>
      /\ holder' = IF f.own THEN NoThread ELSE holder
      /\ Goto(t, [f EXCEPT !.pc = "store"])
      /\ UNCHANGED <<lockVars, classVars, converted, entry, calls>>
  BY <1>1 DEF Leave, At
<1>3. f \in FrameType /\ FrameOK(f, t) /\ holder = t
  BY <1>1, <1>2, TopFacts DEF Constructing
<1>4. PICK g : g = [f EXCEPT !.pc = "store"]
  OBVIOUS
<1>5. /\ g \in FrameType /\ g.pc = "store" /\ g.m = f.m /\ g.cls = f.cls /\ g.q = f.q /\ g.own = f.own
      /\ g.ok = f.ok
  BY <1>3, <1>4, SetPc DEF Pcs
<1>6. Others(t) /\ Replaces(stack[t], stack'[t], g) /\ f = stack[t][Len(stack[t])]
  BY <1>1, <1>2, <1>4, <1>5, GotoFacts, TopFrame
<1>7. /\ running' = running /\ once' = once /\ entry' = entry /\ converted' = converted
      /\ meta' = meta /\ depth' = depth /\ calls' = calls
      /\ running \subseteq Classes /\ once \subseteq Classes
  BY <1>2 DEF Types, classVars, lockVars
<1>8. FrameOK(g, t)'
  <2>1. ASSUME f.own, f.ok PROVE Range(entry[f.m].classes) \subseteq once
    <3>1. Range(entry[f.m].classes) \subseteq once \cup Range(f.q)
      BY <1>1, <1>2, <1>3, <2>1 DEF FrameOK
    <3>2. Range(f.q) = {}
      BY <1>2 DEF Range
    <3> QED BY <3>1, <3>2
  <2> QED BY <1>1, <1>2, <1>3, <1>5, <1>7, <2>1 DEF FrameOK, Converting
<1>9. CASE ~f.own
  <2>1. holder' = holder
    BY <1>2, <1>9
  <2> QED BY <1>1, <1>2, <1>4, <1>5, <1>7, <1>8, <1>9, <2>1, QuietReplace
          DEF lockVars, Constructing, Converting
<1>10. CASE f.own
  <2>1. holder' = NoThread
    BY <1>2, <1>10
  <2>2. Types'
    BY <1>6, <1>7, <2>1 DEF Types, Others
  <2>3. Shape(stack[t])
    BY DEF Shapes
  <2>4. Shapes'
    <3>1. Shape(stack'[t])
      BY <1>1, <1>5, <1>6, <2>3, ShapeReplaced
    <3> QED BY <1>6, <3>1, ShapesKept
  <2>5. HolderOK'
    <3>1. Len(stack[t]) \in Nat /\ Len(stack[t]) > 0
      BY <1>2, TopFrame
    <3>2. g.pc \notin Constructing
      BY <1>5 DEF Constructing
    <3> QED BY <1>2, <1>6, <1>10, <2>1, <2>3, <3>1, <3>2, HolderGivenUp, CCtorAssumption
  <2>7. ClassOK'
    <3>1. running \ once = {}
      BY <1>1, <1>2, <1>10, NoneRunning
    <3> QED BY <1>5, <1>6, <1>7, <3>1, ClassReplaced
  <2>8. ConvertOK'
    BY <1>2, <1>5, <1>6, <1>7, <1>8, ConvertReplaced DEF Converting
  <2> QED BY <2>2, <2>4, <2>5, <2>7, <2>8
<1> QED BY <1>9, <1>10

\* A frame ends: the manager, called from outside, or a method.
LEMMA LeaveStack ==
    ASSUME CCtorInv, NEW t \in Threads, stack[t] # <<>>, NEW f, f = Top(t), f.cls = NoClass,
           stack' = [stack EXCEPT ![t] = Front(stack[t])],
           \/ f.pc = "body" /\ holder' = holder
           \/ f.pc = "run" /\ f.m = NoMethod /\ holder' = IF f.own THEN NoThread ELSE holder,
           UNCHANGED <<lockVars, classVars, converted, entry, calls>>
    PROVE  CCtorInv'
<1> USE DEF CCtorInv
<1>1. Others(t) /\ Pops(stack[t], stack'[t]) /\ f = stack[t][Len(stack[t])]
  BY PopFacts, TopFrame
<1>2. /\ running' = running /\ once' = once /\ entry' = entry /\ converted' = converted
      /\ meta' = meta /\ depth' = depth /\ calls' = calls
      /\ holder \in Threads \cup {NoThread}
  BY DEF Types, classVars, lockVars
<1>3. Types'
  BY <1>1, <1>2 DEF Types, Others
<1>4. Shape(stack[t])
  BY DEF Shapes
<1>5. Shapes'
  BY <1>1, <1>4, ShapePopped, ShapesKept
<1>7. ConvertOK'
  BY <1>1, <1>2, ConvertPopped
<1>8. CASE f.own /\ f.pc = "run"
  <2>1. holder' = NoThread
    BY <1>8
  <2>2. HolderOK'
    <3>1. Len(stack[t]) \in Nat /\ Len(stack[t]) > 0
      BY TopFrame
    <3> QED BY <1>1, <1>4, <1>8, <2>1, <3>1, HolderGivenUp, CCtorAssumption
  <2>3. ClassOK'
    <3>1. running \ once = {}
      BY <1>8, NoneRunning
    <3> QED BY <1>1, <1>2, <3>1, ClassPopped
  <2> QED BY <1>3, <1>5, <1>7, <2>2, <2>3
<1>9. CASE ~(f.own /\ f.pc = "run")
  <2>1. holder' = holder
    BY <1>9
  <2>2. HolderOK'
    BY <1>1, <1>2, <1>9, <2>1, HolderPopped
  <2>3. ClassOK'
    BY <1>1, <1>2, <2>1, ClassPopped
  <2> QED BY <1>3, <1>5, <1>7, <2>2, <2>3
<1> QED BY <1>8, <1>9

\* ConvertMethod gives the metadata up and goes to the body.
LEMMA GiveUpMetadata ==
    ASSUME CCtorInv, NEW t \in Threads, ReadUserData(t) \/ HelpDone(t)
    PROVE  CCtorInv'
<1> USE DEF CCtorInv
<1>1. PICK f : f = Top(t)
  OBVIOUS
<1>2. /\ stack[t] # <<>> /\ f.pc \in {"help", "read", "last"} /\ WriteUnlock(t)
      /\ Goto(t, [f EXCEPT !.pc = "body"])
      /\ UNCHANGED <<holder, classVars, converted, entry, calls>>
  BY <1>1 DEF ReadUserData, HelpDone, At
<1>3. f \in FrameType /\ ~f.own /\ f.m # NoMethod
  BY <1>1, <1>2, TopFacts
<1>4. PICK g : g = [f EXCEPT !.pc = "body"]
  OBVIOUS
<1>5. g \in FrameType /\ g.pc = "body" /\ g.m = f.m /\ g.cls = f.cls /\ ~g.own
  BY <1>3, <1>4, SetPc DEF Pcs
<1>6. Others(t) /\ Replaces(stack[t], stack'[t], g) /\ f = stack[t][Len(stack[t])]
  BY <1>1, <1>2, <1>4, <1>5, GotoFacts, TopFrame
<1>7. /\ running' = running /\ once' = once /\ entry' = entry /\ converted' = converted
      /\ holder' = holder /\ calls' = calls /\ holder \in Threads \cup {NoThread}
  BY <1>2 DEF Types, classVars
<1>9. Types'
  BY <1>2, <1>6, <1>7, LockTyped DEF Types, Others
<1>10. Shapes'
  <2>1. Shape(stack'[t])
    BY <1>3, <1>5, <1>6, ShapeReplaced DEF Shapes
  <2> QED BY <1>6, <2>1, ShapesKept
<1>11. HolderOK'
  <2>1. g.pc \notin Constructing
    BY <1>5 DEF Constructing
  <2> QED BY <1>3, <1>5, <1>6, <1>7, <2>1, HolderReplaced
<1>12. ClassOK'
  BY <1>5, <1>6, <1>7, ClassReplaced
<1>13. FrameOK(g, t)'
  BY <1>5 DEF FrameOK, Converting
<1>14. ConvertOK'
  BY <1>2, <1>5, <1>6, <1>7, <1>13, ConvertReplaced DEF Converting
<1> QED BY <1>9, <1>10, <1>11, <1>12, <1>14

\* A thread that runs constructors takes over the classes of an entry.
LEMMA ConvertHelpStep ==
    ASSUME CCtorInv, NEW t \in Threads, ConvertHelp(t)
    PROVE  CCtorInv'
<1> USE DEF CCtorInv
<1>1. PICK f, q : f = Top(t) /\ q = entry[f.m].classes
  OBVIOUS
<1>2. /\ stack[t] # <<>> /\ f.pc = "convert" /\ holder = t /\ WriteLock(t)
      /\ entry[f.m].state = "linked" /\ entry[f.m].owner # t
      /\ Goto(t, [f EXCEPT !.pc = "help", !.q = q])
      /\ UNCHANGED <<holder, classVars, converted, entry, calls>>
  BY <1>1 DEF ConvertHelp, At, Locked
<1>3. f \in FrameType /\ ~f.own /\ f.m # NoMethod
  BY <1>1, <1>2, TopFacts
<1>4. q \in Seq(Classes)
  <2>1. f.m \in Methods
    BY <1>3 DEF FrameType
  <2>2. entry[f.m] \in EntryType
    BY <2>1 DEF Types
  <2> QED BY <1>1, <2>2 DEF EntryType
<1>5. PICK g : g = [f EXCEPT !.pc = "help", !.q = q]
  OBVIOUS
<1>6. g \in FrameType /\ g.pc = "help" /\ g.m = f.m /\ g.cls = f.cls /\ g.own = f.own
  BY <1>3, <1>4, <1>5 DEF FrameType, Pcs
<1>7. Others(t) /\ Replaces(stack[t], stack'[t], g) /\ f = stack[t][Len(stack[t])]
  BY <1>1, <1>2, <1>5, <1>6, GotoFacts, TopFrame
<1>8. /\ running' = running /\ once' = once /\ entry' = entry /\ converted' = converted
      /\ holder' = holder /\ calls' = calls /\ holder \in Threads \cup {NoThread}
  BY <1>2 DEF Types, classVars
<1>10. Types'
  BY <1>2, <1>7, <1>8, LockTyped DEF Types, Others
<1>11. Shapes'
  <2>1. Shape(stack'[t])
    BY <1>3, <1>6, <1>7, ShapeReplaced DEF Shapes
  <2> QED BY <1>7, <2>1, ShapesKept
<1>12. HolderOK'
  BY <1>2, <1>3, <1>6, <1>7, <1>8, HolderReplaced
<1>13. ClassOK'
  BY <1>6, <1>7, <1>8, ClassReplaced
<1>14. FrameOK(g, t)'
  BY <1>2, <1>3, <1>6, <1>8 DEF FrameOK, Converting
<1>15. ConvertOK'
  BY <1>2, <1>6, <1>7, <1>8, <1>14, ConvertReplaced DEF Converting
<1> QED BY <1>10, <1>11, <1>12, <1>13, <1>15

\* A call from outside.
LEMMA OutsideCall ==
    ASSUME CCtorInv, NEW t \in Threads, NEW m \in Methods, CallMethod(t, m)
    PROVE  CCtorInv'
<1> USE DEF CCtorInv
<1>1. PICK g : g = Called(m, NoClass)
  OBVIOUS
<1>2. g \in FrameType /\ g.m # NoMethod /\ g.cls = NoClass /\ g.pc \in {"body", "convert"} /\ ~g.own
  BY <1>1, CalledType, CCtorAssumption
<1>3. /\ stack[t] = <<>> /\ stack' = [stack EXCEPT ![t] = Append(stack[t], g)]
      /\ UNCHANGED <<lockVars, holder, classVars, converted, entry>>
  BY <1>1 DEF CallMethod
<1>4. calls' \in [Threads -> 0 .. MaxCalls]
  BY CCtorAssumption DEF CallMethod, Types
<1>5. Others(t) /\ Pushes(stack[t], stack'[t], g)
  BY <1>2, <1>3, PushFacts
<1> QED BY <1>2, <1>3, <1>4, <1>5, QuietPush

\* A step that changes at most the number of outside calls.
LEMMA CallsOnly ==
    ASSUME CCtorInv, calls' \in [Threads -> 0 .. MaxCalls], stack' = stack, meta' = meta, depth' = depth,
           holder' = holder, running' = running, once' = once, converted' = converted, entry' = entry
    PROVE  CCtorInv'
<1> USE DEF CCtorInv
<1>1. Types'
  BY DEF Types
<1>2. Shapes'
  BY DEF Shapes, Shape
<1>3. HolderOK'
  BY DEF HolderOK, Manager, Took
<1>5. ClassOK'
  BY DEF ClassOK, Constructs
<1>6. ConvertOK'
  <2>1. ASSUME NEW m \in Methods PROVE EntryOK(m)'
    <3>1. EntryOK(m)
      BY DEF ConvertOK
    <3>2. \A P : InPc(m, P)' = InPc(m, P)
      BY DEF InPc, Does
    <3> QED BY <3>1, <3>2 DEF EntryOK, Does
  <2>2. (\A t \in Threads : OneConversion(stack[t]))'
    BY DEF ConvertOK, OneConversion
  <2>3. (\A t \in Threads : \A i \in 1 .. Len(stack[t]) : FrameOK(stack[t][i], t))'
    BY DEF ConvertOK, FrameOK
  <2> QED BY <2>1, <2>2, <2>3 DEF ConvertOK
<1> QED BY <1>1, <1>2, <1>3, <1>5, <1>6

\* RunClassConstructor from outside.
LEMMA OutsideRun ==
    ASSUME CCtorInv, NEW t \in Threads, NEW c \in Classes, RunClassConstructor(t, c)
    PROVE  CCtorInv'
<1> USE DEF CCtorInv
<1>1. calls' \in [Threads -> 0 .. MaxCalls]
  BY CCtorAssumption DEF RunClassConstructor, Types
<1>2. CASE c \notin once
  <2>1. PICK g : g = [Frame(NoMethod, "enter", NoClass) EXCEPT !.q = <<c>>]
    OBVIOUS
  <2>2. g = [m |-> NoMethod, pc |-> "enter", cls |-> NoClass, i |-> 1, q |-> <<c>>, own |-> FALSE, ok |-> TRUE]
    BY <2>1 DEF Frame
  <2>3. <<c>> \in Seq(Classes) /\ 1 \in Nat \ {0}
    OBVIOUS
  <2>4. g \in FrameType /\ g.m = NoMethod /\ g.cls = NoClass /\ g.pc = "enter" /\ ~g.own
    BY <2>2, <2>3 DEF FrameType, Pcs
  <2>5. /\ stack[t] = <<>> /\ stack' = [stack EXCEPT ![t] = Append(stack[t], g)]
        /\ UNCHANGED <<lockVars, holder, classVars, converted, entry>>
    BY <1>2, <2>1 DEF RunClassConstructor
  <2>6. Others(t) /\ Pushes(stack[t], stack'[t], g)
    BY <2>4, <2>5, PushFacts
  <2> QED BY <1>1, <2>4, <2>5, <2>6, QuietPush
<1>3. CASE c \in once
  <2>1. stack' = stack /\ meta' = meta /\ depth' = depth /\ holder' = holder
    BY <1>3 DEF RunClassConstructor, Types, lockVars
  <2>2. running' = running /\ once' = once /\ converted' = converted /\ entry' = entry
    BY DEF RunClassConstructor, classVars
  <2> QED BY <1>1, <2>1, <2>2, CallsOnly
<1> QED BY <1>2, <1>3

\* A method calls another.
LEMMA CallStep ==
    ASSUME CCtorInv, NEW t \in Threads, Call(t)
    PROVE  CCtorInv'
<1> USE DEF CCtorInv
<1>1. PICK f : f = Top(t)
  OBVIOUS
<1>2. /\ stack[t] # <<>> /\ f.pc = "body"
      /\ f.i <= Len(Body[f.m]) /\ Body[f.m][f.i][1] = "call"
      /\ stack' = [stack EXCEPT ![t] = Append(Append(Front(stack[t]), [f EXCEPT !.i = @ + 1]),
                                              Called(Body[f.m][f.i][2], NoClass))]
      /\ UNCHANGED <<lockVars, holder, classVars, converted, entry, calls>>
  BY <1>1 DEF Call, AtStep, At, Below
<1>3. f \in FrameType /\ f.m \in Methods /\ f.i \in Nat \ {0}
  BY <1>1, <1>2, TopFacts DEF FrameType
<1>4. Body[f.m][f.i][2] \in Methods
  <2>1. Body[f.m] \in Seq(({"call"} \X Methods) \cup ({"field"} \X Classes))
    BY <1>3, CCtorAssumption
  <2>2. f.i \in 1 .. Len(Body[f.m])
    BY <1>2, <1>3, <2>1
  <2>3. Body[f.m][f.i] \in ({"call"} \X Methods) \cup ({"field"} \X Classes)
    BY <2>1, <2>2
  <2> QED BY <1>2, <2>3
<1>5. PICK g : g = Called(Body[f.m][f.i][2], NoClass)
  OBVIOUS
<1>6. g \in FrameType /\ g.m # NoMethod /\ g.cls = NoClass /\ g.pc \in {"body", "convert"} /\ ~g.own
  BY <1>4, <1>5, CalledType, CCtorAssumption
<1>7. PICK h : h = [f EXCEPT !.i = @ + 1]
  OBVIOUS
<1>8. h \in FrameType /\ Same(h, f)
  BY <1>3, <1>7, NextI
<1>9. Others(t) /\ Pushes(stack[t], stack'[t], g)
  BY <1>1, <1>2, <1>5, <1>6, <1>7, <1>8, CallFacts
<1>10. calls' \in [Threads -> 0 .. MaxCalls]
  BY <1>2 DEF Types
<1> QED BY <1>1, <1>2, <1>6, <1>9, <1>10, QuietPush

\* A method returns.
LEMMA ReturnStep ==
    ASSUME CCtorInv, NEW t \in Threads, Return(t)
    PROVE  CCtorInv'
  BY LeaveStack DEF Return, At, Below

\* The list of constructors is done.
LEMMA LeaveStep ==
    ASSUME CCtorInv, NEW t \in Threads, Leave(t)
    PROVE  CCtorInv'
<1>1. CASE Top(t).m = NoMethod
  <2>1. Top(t).cls = NoClass
    BY <1>1, TopFacts DEF Leave, At
  <2> QED BY <1>1, <2>1, LeaveStack DEF Leave, At, Below
<1> QED BY <1>1, LeaveToStore

\* The frame that called a constructor still has its class in the queue.
LEMMA CallerQueue ==
    ASSUME CCtorInv, NEW t \in Threads, stack[t] # <<>>, NEW f, f = Top(t), f.cls # NoClass,
           NEW e, e = Last(Below(t))
    PROVE  \E n \in Nat : /\ n = Len(stack[t]) /\ n > 1 /\ f = stack[t][n] /\ e = stack[t][n - 1]
                          /\ e \in FrameType /\ n - 1 \in 1 .. n
                          /\ FrameOK(e, t) /\ e.pc \in Constructing
                          /\ e.q # <<>> /\ f.cls = Head(e.q) /\ e.q \in Seq(Classes) /\ Tail(e.q) \in Seq(Classes)
<1> USE DEF CCtorInv
<1>1. PICK n \in Nat : n = Len(stack[t]) /\ n > 0 /\ f = stack[t][n]
  BY TopFrame
<1>2. n > 1 /\ stack[t][n - 1].pc \in Constructing
  BY <1>1, ClassFrame
<1>3. stack[t] \in Seq(FrameType)
  BY DEF Types
<1>4. e = stack[t][n - 1] /\ e \in FrameType /\ n - 1 \in 1 .. n
  <2>1. Len(Front(stack[t])) = n - 1 /\ \A i \in 1 .. n - 1 : Front(stack[t])[i] = stack[t][i]
    BY <1>1, <1>3, Popped
  <2>2. n - 1 \in 1 .. n - 1 /\ n - 1 \in 1 .. n
    BY <1>2
  <2>3. e = stack[t][n - 1]
    BY <2>1, <2>2 DEF Last, Below
  <2> QED BY <1>1, <1>3, <2>2, <2>3
<1>5. FrameOK(e, t) /\ e.pc \in Constructing /\ e.q # <<>> /\ f.cls = Head(e.q)
  <2>1. FrameOK(e, t)
    BY <1>1, <1>4 DEF ConvertOK
  <2>2. n - 1 < n /\ (n - 1) + 1 = n
    BY <1>2
  <2>3. e.pc \in Constructing => e.q # <<>> /\ stack[t][n].cls = Head(e.q)
    BY <1>1, <1>4, <2>2 DEF Shapes, Shape
  <2> QED BY <1>1, <1>2, <1>4, <2>1, <2>3
<1>6. e.q \in Seq(Classes)
  BY <1>4 DEF FrameType
<1> QED BY <1>1, <1>2, <1>4, <1>5, <1>6, RangeTail

\* A constructor ends and its caller goes on with the classes q.
LEMMA ConstructorEnds ==
    ASSUME CCtorInv, NEW t \in Threads, stack[t] # <<>>, NEW f, f = Top(t), f.pc = "body", f.cls # NoClass,
           NEW e, e = Last(Below(t)), NEW q \in Seq(Classes), NEW b \in BOOLEAN, BackTo(t, q, b),
           UNCHANGED <<lockVars, holder, converted, entry, calls>>,
           running' \ once' = (running \ once) \ {f.cls}, running' \subseteq Classes,
           once \subseteq once', once' \subseteq Classes,
           b => q = Tail(e.q) /\ f.cls \in once'
    PROVE  CCtorInv'
<1> USE DEF CCtorInv
<1>1. PICK n \in Nat : /\ n = Len(stack[t]) /\ n > 1 /\ f = stack[t][n] /\ e = stack[t][n - 1]
                      /\ e \in FrameType /\ n - 1 \in 1 .. n
                      /\ FrameOK(e, t) /\ e.pc \in Constructing
                      /\ e.q # <<>> /\ f.cls = Head(e.q) /\ e.q \in Seq(Classes)
  BY CallerQueue
<1>2. PICK g : g = [e EXCEPT !.q = q, !.ok = (e.ok /\ b)]
  OBVIOUS
<1>3. /\ g \in FrameType /\ g.pc = e.pc /\ g.m = e.m /\ g.cls = e.cls /\ g.q = q /\ g.own = e.own
      /\ g.ok => e.ok /\ b
  <2>1. PICK k \in BOOLEAN : k = (e.ok /\ b)
    OBVIOUS
  <2>2. g = [e EXCEPT !.q = q, !.ok = k]
    BY <1>2, <2>1
  <2>3. g \in FrameType /\ g.pc = e.pc /\ g.m = e.m /\ g.cls = e.cls /\ g.q = q /\ g.own = e.own /\ g.ok = k
    BY ONLY <1>1, <2>2 DEF FrameType
  <2> QED BY <2>1, <2>3
<1>4. Others(t) /\ Returned(stack[t], stack'[t], g)
  <2>1. stack' = [stack EXCEPT ![t] = Append(Front(Front(stack[t])), g)]
    BY <1>2 DEF BackTo, Below
  <2> QED BY <1>1, <1>3, <2>1, BackFacts
<1>5. f = stack[t][Len(stack[t])] /\ e = stack[t][Len(stack[t]) - 1]
  BY <1>1
<1>6. /\ entry' = entry /\ converted' = converted /\ meta' = meta /\ depth' = depth /\ calls' = calls
       /\ holder' = holder /\ holder \in Threads \cup {NoThread}
  BY DEF Types, lockVars
<1>7. Types'
  BY <1>4, <1>6 DEF Types, Others
<1>8. Shapes'
  <2>1. Shape(stack'[t])
    BY <1>3, <1>4, <1>5, ShapeReturned DEF Shapes
  <2> QED BY <1>4, <2>1, ShapesKept
<1>9. HolderOK'
  BY <1>3, <1>4, <1>5, <1>6, HolderReturned
<1>11. ClassOK'
  BY <1>3, <1>4, <1>5, <1>6, ClassEnded
<1>12. FrameOK(g, t)'
  <2>1. FrameOK(e, t)'
    BY <1>1, <1>6, FrameStays
  <2>2. ASSUME e.m # NoMethod, e.own, g.ok, e.pc = "run"
        PROVE  Range(entry'[e.m].classes) \subseteq once' \cup Range(q)
    <3>1. Range(entry[e.m].classes) \subseteq once \cup Range(e.q) /\ b
      BY <1>1, <1>3, <2>2 DEF FrameOK
    <3>2. e.q \in Seq(Classes)
      BY <1>1 DEF FrameType
    <3>3. Range(e.q) \subseteq {Head(e.q)} \cup Range(Tail(e.q))
      BY <1>1, <3>2, RangeTail
    <3> QED BY <1>1, <1>6, <3>1, <3>3
  <2>3. e.pc # "enter" /\ e.pc # "body" /\ e.pc # "store"
    BY <1>1 DEF Constructing
  <2> QED BY <1>3, <2>1, <2>2, <2>3 DEF FrameOK
<1>13. ConvertOK'
  BY <1>3, <1>4, <1>5, <1>6, <1>12, ConvertReturned
<1> QED BY <1>7, <1>8, <1>9, <1>11, <1>13

\* A constructor succeeds.
LEMMA CCtorReturnsStep ==
    ASSUME CCtorInv, NEW t \in Threads, CCtorReturns(t)
    PROVE  CCtorInv'
<1> USE DEF CCtorInv
<1>1. PICK f, e : f = Top(t) /\ e = Last(Below(t))
  OBVIOUS
<1>2. /\ stack[t] # <<>> /\ f.pc = "body" /\ f.cls # NoClass
      /\ once' = once \cup {f.cls} /\ running' = running /\ BackTo(t, Tail(e.q), TRUE)
      /\ UNCHANGED <<lockVars, holder, converted, entry, calls>>
  BY <1>1 DEF CCtorReturns, At
<1>3. f.cls \in Classes /\ running \subseteq Classes /\ once \subseteq Classes
  BY <1>1, <1>2, TopFacts DEF Types, FrameType
<1>4. Tail(e.q) \in Seq(Classes)
  BY <1>1, <1>2, CallerQueue
<1>5. running' \ once' = (running \ once) \ {f.cls}
  BY <1>2
<1> QED BY <1>1, <1>2, <1>3, <1>4, <1>5, ConstructorEnds

\* A constructor throws.
LEMMA CCtorThrowsStep ==
    ASSUME CCtorInv, NEW t \in Threads, CCtorThrows(t)
    PROVE  CCtorInv'
<1> USE DEF CCtorInv
<1>1. PICK f : f = Top(t)
  OBVIOUS
<1>2. /\ stack[t] # <<>> /\ f.pc = "body" /\ f.cls \in Throws
      /\ running' = running \ {f.cls} /\ once' = once /\ BackTo(t, <<>>, FALSE)
      /\ UNCHANGED <<lockVars, holder, converted, entry, calls>>
  BY <1>1 DEF CCtorThrows, At
<1>3. f.cls # NoClass /\ running \subseteq Classes /\ once \subseteq Classes
  BY <1>2, CCtorAssumption DEF Types
<1>4. <<>> \in Seq(Classes)
  OBVIOUS
<1>5. running' \ once' = (running \ once) \ {f.cls}
  BY <1>2
<1> QED BY <1>1, <1>2, <1>3, <1>4, <1>5, ConstructorEnds

-----------------------------------------------------------------------------
(* The steps that change the pool of locked methods. *)

\* What does not depend on the pool.
LEMMA ReplaceParts ==
    ASSUME CCtorInv, NEW t \in Threads, stack[t] # <<>>, NEW f, f = Top(t), NEW g \in FrameType, Goto(t, g),
           holder' = holder, running' \ once' = running \ once,
           f.pc \notin Constructing, g.pc \notin Constructing,
           g.m = f.m, g.cls = f.cls, g.m # NoMethod,
           g.own => g.pc \in {"run", "store", "body"},
           g.pc \in {"wait", "woken"} => holder # t
    PROVE  /\ Others(t) /\ Replaces(stack[t], stack'[t], g) /\ f = stack[t][Len(stack[t])]
           /\ Shapes' /\ HolderOK' /\ ClassOK'
<1> USE DEF CCtorInv
<1>1. Others(t) /\ Replaces(stack[t], stack'[t], g) /\ f = stack[t][Len(stack[t])]
  BY GotoFacts, TopFrame
<1>2. holder \in Threads \cup {NoThread}
  BY DEF Types
<1>3. Shapes'
  <2>1. Shape(stack'[t])
    BY <1>1, ShapeReplaced DEF Shapes
  <2> QED BY <1>1, <2>1, ShapesKept
<1>4. HolderOK'
  <2>1. ~(f.own /\ f.pc = "run") /\ ~(g.own /\ g.pc = "run")
    BY DEF Constructing
  <2> QED BY <1>1, <1>2, <2>1, HolderReplaced
<1>5. ClassOK'
  BY <1>1, ClassReplaced
<1> QED BY <1>1, <1>3, <1>4, <1>5

\* The other methods.
LEMMA DoesOther ==
    ASSUME NEW s, NEW r, NEW f, NEW g, Replaces(s, r, g), f = s[Len(s)], NEW m, NEW P, g.m = f.m, m # f.m
    PROVE  Does(r, m, P) <=> Does(s, m, P)
<1> PICK n \in Nat : n = Len(s) /\ n > 0 /\ Len(r) = n /\ r[n] = g /\ s[n] = f
  BY DEF Replaces
<1>1. \A i \in 1 .. n - 1 : r[i] = s[i]
  BY DEF Replaces
<1>2. \A i \in 1 .. n : (r[i].m = m /\ r[i].pc \in P) <=> (s[i].m = m /\ s[i].pc \in P)
  BY <1>1
<1> QED BY <1>2 DEF Does

\* An entry that the step is not about.
LEMMA EntryOther ==
    ASSUME Types, ConvertOK, NEW t \in Threads, Others(t), NEW m \in Methods,
           entry'[m] = entry[m], m \in converted' <=> m \in converted,
           Does(stack'[t], m, Converting) <=> Does(stack[t], m, Converting),
           Does(stack'[t], m, {"wait"}) <=> Does(stack[t], m, {"wait"}),
           Does(stack'[t], m, {"wait", "woken"}) <=> Does(stack[t], m, {"wait", "woken"})
    PROVE  EntryOK(m)'
<1>1. EntryOK(m)
  BY DEF ConvertOK
<1>2. InPc(m, {"wait"})' = InPc(m, {"wait"}) /\ InPc(m, {"wait", "woken"})' = InPc(m, {"wait", "woken"})
  BY InPcSame
<1>3. PICK w \in Threads \cup {NoThread} : w = entry[m].owner
  BY DEF Types, EntryType
<1>4. w \in Threads => (Does(stack'[w], m, Converting) <=> Does(stack[w], m, Converting))
  BY DEF Others
<1>5. entry[m].state = "linked" => Does(stack'[w], m, Converting)
  BY <1>1, <1>3, <1>4 DEF EntryOK
<1>6. entry'[m].state = "linked" => /\ m \notin converted' /\ entry'[m].sem = 0
                                    /\ entry'[m].owner # NoThread
                                    /\ Does(stack'[entry'[m].owner], m, Converting)
  BY <1>1, <1>3, <1>5 DEF EntryOK
<1>7. /\ entry'[m].state \in {"unlinked", "freed"} => m \in converted'
      /\ entry'[m].state = "unlinked" => entry'[m].sem = Cardinality(InPc(m, {"wait"})')
      /\ entry'[m].waiting = Cardinality(InPc(m, {"wait", "woken"})')
  BY <1>1, <1>2 DEF EntryOK
<1> QED BY <1>6, <1>7 DEF EntryOK, Does, InPc

\* A step about the entry of the top frame's method.
LEMMA PoolStep ==
    ASSUME Types, ConvertOK, NEW t \in Threads, Others(t), NEW f, NEW g,
           Replaces(stack[t], stack'[t], g), f = stack[t][Len(stack[t])],
           f.m \in Methods, g.m = f.m, once \subseteq once',
           \A m \in Methods : m # f.m => entry'[m] = entry[m] /\ (m \in converted' <=> m \in converted),
           EntryOK(f.m)', FrameOK(g, t)',
           g.pc \in Converting => f.pc \in Converting \/ ~Does(stack[t], f.m, Converting),
           \A u \in Threads : \A i \in 1 .. Len(stack[u]) : \A x :
              x = stack[u][i] /\ x.m = f.m /\ (u # t \/ i < Len(stack[t])) => FrameOK(x, u)'
    PROVE  ConvertOK'
<1>1. ASSUME NEW m \in Methods PROVE EntryOK(m)'
  <2>1. CASE m = f.m
    <3>1. PICK k : k = f.m /\ EntryOK(k)'
      OBVIOUS
    <3> QED BY <2>1, <3>1
  <2>2. CASE m # f.m
    <3>1. \A P : Does(stack'[t], m, P) <=> Does(stack[t], m, P)
      BY <2>2, DoesOther
    <3> QED BY <2>2, <3>1, EntryOther
  <2> QED BY <2>1, <2>2
<1>2. OneConversion(stack'[t])
  BY OneReplaced DEF ConvertOK
<1>3. PICK n \in Nat : n = Len(stack[t]) /\ Len(stack'[t]) = n /\ stack'[t][n] = g
  BY DEF Replaces
<1>4. ASSUME NEW u \in Threads, NEW i \in 1 .. Len(stack'[u]), NEW x, x = stack'[u][i]
      PROVE  FrameOK(x, u)'
  <2>1. CASE u = t /\ i = n
    BY <1>3, <1>4, <2>1
  <2>2. CASE u # t \/ i # n
    <3>1. i \in 1 .. Len(stack[u]) /\ x = stack[u][i] /\ (u # t \/ i < n)
      <4>1. CASE u = t
        BY <1>3, <1>4, <2>2, <4>1 DEF Replaces
      <4>2. CASE u # t
        BY <1>4, <4>2 DEF Others
      <4> QED BY <4>1, <4>2
    <3>2. x \in FrameType
      <4>1. stack[u] \in Seq(FrameType)
        BY DEF Types
      <4> QED BY <3>1, <4>1
    <3>3. CASE x.m = f.m
      BY <1>3, <3>1, <3>3
    <3>4. CASE x.m # f.m /\ x.m \in Methods
      <4>1. FrameOK(x, u)
        BY <3>1 DEF ConvertOK
      <4> QED BY <3>4, <4>1, FrameStays
    <3>5. CASE x.m = NoMethod
      BY <3>5 DEF FrameOK
    <3> QED BY <3>2, <3>3, <3>4, <3>5 DEF FrameType
  <2> QED BY <2>1, <2>2
<1> QED BY <1>1, <1>2, <1>4, ConvertAssembled

\* The number of threads that do something.
LEMMA InPcMore ==
    ASSUME NEW t \in Threads, Others(t), NEW m, NEW P,
           ~Does(stack[t], m, P), Does(stack'[t], m, P)
    PROVE  Cardinality(InPc(m, P)') = Cardinality(InPc(m, P)) + 1
<1>1. \A u \in Threads \ {t} : Does(stack'[u], m, P) <=> Does(stack[u], m, P)
  BY DEF Others
<1>2. InPc(m, P)' = {u \in Threads : Does(stack'[u], m, P)}
  BY DEF InPc, Does
<1>3. InPc(m, P)' = InPc(m, P) \cup {t} /\ t \notin InPc(m, P)
  BY <1>1, <1>2 DEF InPc
<1>4. IsFiniteSet(InPc(m, P))
  BY InPcFinite
<1>5. Cardinality(InPc(m, P) \cup {t}) =
         IF t \in InPc(m, P) THEN Cardinality(InPc(m, P)) ELSE Cardinality(InPc(m, P)) + 1
  BY <1>4, FS_AddElement
<1> QED BY <1>3, <1>5

\* One thread goes.
LEMMA InPcLess ==
    ASSUME NEW t \in Threads, Others(t), NEW m, NEW P,
           Does(stack[t], m, P), ~Does(stack'[t], m, P)
    PROVE  Cardinality(InPc(m, P)') = Cardinality(InPc(m, P)) - 1
<1>1. \A u \in Threads \ {t} : Does(stack'[u], m, P) <=> Does(stack[u], m, P)
  BY DEF Others
<1>2. InPc(m, P)' = {u \in Threads : Does(stack'[u], m, P)}
  BY DEF InPc, Does
<1>3. InPc(m, P)' = InPc(m, P) \ {t} /\ t \in InPc(m, P)
  BY <1>1, <1>2 DEF InPc
<1>4. IsFiniteSet(InPc(m, P))
  BY InPcFinite
<1>5. Cardinality(InPc(m, P) \ {t}) =
         IF t \in InPc(m, P) THEN Cardinality(InPc(m, P)) - 1 ELSE Cardinality(InPc(m, P))
  BY <1>4, FS_RemoveElement
<1> QED BY <1>3, <1>5

\* Only the top frame waits.
LEMMA WaitsOnce ==
    ASSUME Types, Shapes, NEW t \in Threads, stack[t] # <<>>, NEW m, NEW P, P \subseteq {"wait", "woken", "read"}
    PROVE  Does(stack[t], m, P) <=> Top(t).m = m /\ Top(t).pc \in P
<1>1. PICK n \in Nat : n = Len(stack[t]) /\ n > 0 /\ Top(t) = stack[t][n]
  BY TopFrame
<1>2. \A i \in 1 .. n : i < n => stack[t][i].pc \notin P
  BY <1>1 DEF Shapes, Shape, Constructing
<1>3. n \in 1 .. n
  BY <1>1
<1> QED BY <1>1, <1>2, <1>3 DEF Does

\* A frame that has moved on leaves nobody waiting on its thread.
LEMMA WaitsNoMore ==
    ASSUME NEW s, NEW r, NEW g, Shape(s), Replaces(s, r, g), NEW m, NEW P, P \subseteq {"wait", "woken", "read"},
           g.pc \notin P
    PROVE  ~Does(r, m, P)
<1> PICK n \in Nat : n = Len(s) /\ n > 0 /\ Len(r) = n /\ r[n] = g
  BY DEF Replaces
<1>1. \A i \in 1 .. n : i < n => r[i] = s[i] /\ s[i].pc \notin P
  BY DEF Replaces, Shape, Constructing
<1>2. \A i \in 1 .. n : r[i].pc \notin P
  BY <1>1
<1> QED BY <1>2 DEF Does

\* A frame of a method whose entry keeps its state, owner and classes.
LEMMA FrameKept ==
    ASSUME NEW x, NEW u, FrameOK(x, u), once \subseteq once',
           entry'[x.m].state = entry[x.m].state, entry'[x.m].owner = entry[x.m].owner,
           entry'[x.m].classes = entry[x.m].classes, x.m \in converted => x.m \in converted'
    PROVE  FrameOK(x, u)'
  BY DEF FrameOK, Range

\* A thread counts itself in and waits.
LEMMA ConvertWaitStep ==
    ASSUME CCtorInv, NEW t \in Threads, ConvertWait(t)
    PROVE  CCtorInv'
<1> USE DEF CCtorInv
<1>1. PICK f : f = Top(t)
  OBVIOUS
<1>2. PICK m : m = f.m
  OBVIOUS
<1>3. /\ stack[t] # <<>> /\ f.pc = "convert" /\ holder # t /\ meta' = meta /\ depth' = depth
      /\ entry[m].state = "linked" /\ entry[m].owner # t
      /\ entry' = [entry EXCEPT ![m].waiting = @ + 1]
      /\ Goto(t, [f EXCEPT !.pc = "wait"])
      /\ holder' = holder /\ running' = running /\ once' = once /\ converted' = converted /\ calls' = calls
  BY <1>1, <1>2 DEF ConvertWait, At, Locked, LockAndUnlock, lockVars, classVars
<1>4. f \in FrameType /\ ~f.own /\ m \in Methods
  BY <1>1, <1>2, <1>3, TopFacts DEF FrameType
<1>5. PICK g : g = [f EXCEPT !.pc = "wait"]
  OBVIOUS
<1>6. g \in FrameType /\ g.pc = "wait" /\ g.m = f.m /\ g.cls = f.cls /\ ~g.own
  BY <1>4, <1>5, SetPc DEF Pcs
<1>7. /\ Others(t) /\ Replaces(stack[t], stack'[t], g) /\ f = stack[t][Len(stack[t])]
      /\ Shapes' /\ HolderOK' /\ ClassOK'
  <2>1. f.pc \notin Constructing /\ g.pc \notin Constructing /\ g.m # NoMethod
    BY <1>2, <1>3, <1>4, <1>6, CCtorAssumption DEF Constructing
  <2> QED BY <1>1, <1>3, <1>5, <1>6, <2>1, ReplaceParts
<1>8. entry \in [Methods -> EntryType] /\ entry[m] \in EntryType
  BY <1>4 DEF Types
<1>9. /\ entry' \in [Methods -> EntryType]
      /\ entry'[m].state = "linked" /\ entry'[m].owner = entry[m].owner
      /\ entry'[m].classes = entry[m].classes /\ entry'[m].sem = entry[m].sem
      /\ entry'[m].waiting = entry[m].waiting + 1
      /\ \A k \in Methods : k # m => entry'[k] = entry[k]
  <2>1. PICK e : e = [entry[m] EXCEPT !.waiting = @ + 1]
    OBVIOUS
  <2>2. entry[m].waiting + 1 \in Nat
    BY <1>8 DEF EntryType
  <2>3. /\ e \in EntryType /\ e.state = entry[m].state /\ e.owner = entry[m].owner /\ e.sem = entry[m].sem
        /\ e.classes = entry[m].classes /\ e.waiting = entry[m].waiting + 1
    BY <1>8, <2>1, <2>2 DEF EntryType
  <2>4. entry' = [entry EXCEPT ![m] = e]
    BY <1>3, <2>1
  <2> QED BY <1>3, <1>4, <1>8, <2>3, <2>4
<1>10. Types'
  BY <1>3, <1>7, <1>9 DEF Types, Others
<1>12. EntryOK(m)
  BY <1>4 DEF ConvertOK
<1>13. EntryOK(m)'
  <2>1. Does(stack[entry[m].owner], m, Converting) /\ entry[m].owner # NoThread
    BY <1>3, <1>12 DEF EntryOK
  <2>2. stack'[entry[m].owner] = stack[entry[m].owner]
    BY <1>3, <1>7, <1>8, <2>1 DEF EntryType, Others
  <2>3. Cardinality(InPc(m, {"wait", "woken"})') = Cardinality(InPc(m, {"wait", "woken"})) + 1
    <3>1. ~Does(stack[t], m, {"wait", "woken"})
      <4>1. {"wait", "woken"} \subseteq {"wait", "woken", "read"} /\ f.pc \notin {"wait", "woken"}
        BY <1>3
      <4> QED BY <1>1, <1>3, <4>1, WaitsOnce
    <3>2. Does(stack'[t], m, {"wait", "woken"})
      BY <1>2, <1>3, <1>6, <1>7, DoesMore
    <3> QED BY <1>7, <3>1, <3>2, InPcMore
  <2>4. entry'[m].waiting = Cardinality(InPc(m, {"wait", "woken"})')
    BY <1>9, <1>12, <2>3 DEF EntryOK
  <2>5. Does(stack'[entry'[m].owner], m, Converting)
    BY <1>9, <2>1, <2>2
  <2>6. m \notin converted' /\ entry'[m].sem = 0 /\ entry'[m].owner # NoThread
    BY <1>3, <1>9, <1>12 DEF EntryOK
  <2> QED BY <1>9, <2>4, <2>5, <2>6 DEF EntryOK, Does, InPc
<1>14. FrameOK(g, t)'
  BY <1>2, <1>6, <1>9 DEF FrameOK, Converting
<1>15. ASSUME NEW u \in Threads, NEW i \in 1 .. Len(stack[u]), NEW x, x = stack[u][i], x.m = m
       PROVE  FrameOK(x, u)'
  <2>1. FrameOK(x, u)
    BY <1>15 DEF ConvertOK
  <2> QED BY <1>3, <1>9, <1>15, <2>1, FrameKept
<1>16. ConvertOK'
  <2>1. \A k \in Methods : k # f.m => entry'[k] = entry[k] /\ (k \in converted' <=> k \in converted)
    BY <1>2, <1>3, <1>9
  <2>2. EntryOK(f.m)' /\ f.m \in Methods
    BY <1>2, <1>4, <1>13
  <2>3. g.pc \notin Converting
    BY <1>6 DEF Converting
  <2> QED BY <1>2, <1>3, <1>6, <1>7, <1>14, <1>15, <2>1, <2>2, <2>3, PoolStep
<1> QED BY <1>7, <1>10, <1>16

\* A posted semaphore lets one thread go on.
LEMMA SemaphoreWaitStep ==
    ASSUME CCtorInv, NEW t \in Threads, SemaphoreWait(t)
    PROVE  CCtorInv'
<1> USE DEF CCtorInv
<1>1. PICK f : f = Top(t)
  OBVIOUS
<1>2. PICK m : m = f.m
  OBVIOUS
<1>3. /\ stack[t] # <<>> /\ f.pc = "wait" /\ meta' = meta /\ depth' = depth /\ entry[m].sem > 0
      /\ entry' = [entry EXCEPT ![m].sem = @ - 1]
      /\ Goto(t, [f EXCEPT !.pc = "woken"])
      /\ holder' = holder /\ running' = running /\ once' = once /\ converted' = converted /\ calls' = calls
  BY <1>1, <1>2 DEF SemaphoreWait, At, lockVars, classVars
<1>4. f \in FrameType /\ ~f.own /\ m \in Methods /\ holder # t /\ FrameOK(f, t)
  BY <1>1, <1>2, <1>3, TopFacts DEF FrameType
<1>5. PICK g : g = [f EXCEPT !.pc = "woken"]
  OBVIOUS
<1>6. g \in FrameType /\ g.pc = "woken" /\ g.m = f.m /\ g.cls = f.cls /\ ~g.own
  BY <1>4, <1>5, SetPc DEF Pcs
<1>7. /\ Others(t) /\ Replaces(stack[t], stack'[t], g) /\ f = stack[t][Len(stack[t])]
      /\ Shapes' /\ HolderOK' /\ ClassOK'
  <2>1. f.pc \notin Constructing /\ g.pc \notin Constructing /\ g.m # NoMethod
    BY <1>2, <1>3, <1>4, <1>6, CCtorAssumption DEF Constructing
  <2> QED BY <1>1, <1>3, <1>4, <1>5, <1>6, <2>1, ReplaceParts
<1>8. entry \in [Methods -> EntryType] /\ entry[m] \in EntryType
  BY <1>4 DEF Types
<1>9. EntryOK(m)
  BY <1>4 DEF ConvertOK
<1>10. entry[m].state = "unlinked"
  <2>1. entry[m].state \in {"linked", "unlinked"}
    BY <1>2, <1>3, <1>4, CCtorAssumption DEF FrameOK
  <2>2. entry[m].sem # 0
    BY <1>3, <1>8 DEF EntryType
  <2> QED BY <1>9, <2>1, <2>2 DEF EntryOK
<1>11. /\ entry' \in [Methods -> EntryType]
       /\ entry'[m].state = "unlinked" /\ entry'[m].owner = entry[m].owner
       /\ entry'[m].classes = entry[m].classes /\ entry'[m].sem = entry[m].sem - 1
       /\ entry'[m].waiting = entry[m].waiting
       /\ \A k \in Methods : k # m => entry'[k] = entry[k]
  <2>1. PICK e : e = [entry[m] EXCEPT !.sem = @ - 1]
    OBVIOUS
  <2>2. entry[m].sem - 1 \in Nat
    BY <1>3, <1>8 DEF EntryType
  <2>3. /\ e \in EntryType /\ e.state = entry[m].state /\ e.owner = entry[m].owner /\ e.sem = entry[m].sem - 1
        /\ e.classes = entry[m].classes /\ e.waiting = entry[m].waiting
    BY <1>8, <2>1, <2>2 DEF EntryType
  <2>4. entry' = [entry EXCEPT ![m] = e]
    BY <1>3, <2>1
  <2> QED BY <1>10, <1>4, <1>8, <2>3, <2>4
<1>12. Types'
  BY <1>3, <1>7, <1>11 DEF Types, Others
<1>14. EntryOK(m)'
  <2>1. InPc(m, {"wait", "woken"})' = InPc(m, {"wait", "woken"})
    <3>1. Does(stack'[t], m, {"wait", "woken"}) <=> Does(stack[t], m, {"wait", "woken"})
      BY <1>3, <1>6, <1>7, DoesReplaced
    <3> QED BY <1>7, <3>1, InPcSame
  <2>2. Cardinality(InPc(m, {"wait"})') = Cardinality(InPc(m, {"wait"})) - 1
    <3>1. {"wait"} \subseteq {"wait", "woken", "read"} /\ f.pc \in {"wait"} /\ g.pc \notin {"wait"}
      BY <1>3, <1>6
    <3>2. Does(stack[t], m, {"wait"})
      BY <1>1, <1>2, <1>3, <3>1, WaitsOnce
    <3>3. ~Does(stack'[t], m, {"wait"})
      BY <1>7, <3>1, WaitsNoMore DEF Shapes
    <3> QED BY <1>7, <3>2, <3>3, InPcLess
  <2>3. /\ entry'[m].sem = Cardinality(InPc(m, {"wait"})')
        /\ entry'[m].waiting = Cardinality(InPc(m, {"wait", "woken"})')
        /\ m \in converted'
    BY <1>3, <1>9, <1>10, <1>11, <2>1, <2>2 DEF EntryOK
  <2> QED BY <1>11, <2>3 DEF EntryOK, Does, InPc
<1>15. FrameOK(g, t)'
  BY <1>2, <1>6, <1>11 DEF FrameOK, Converting
<1>16. ASSUME NEW u \in Threads, NEW i \in 1 .. Len(stack[u]), NEW x, x = stack[u][i], x.m = m
       PROVE  FrameOK(x, u)'
  <2>1. FrameOK(x, u)
    BY <1>16 DEF ConvertOK
  <2> QED BY <1>3, <1>10, <1>11, <1>16, <2>1, FrameKept
<1>17. ConvertOK'
  <2>1. \A k \in Methods : k # f.m => entry'[k] = entry[k] /\ (k \in converted' <=> k \in converted)
    BY <1>2, <1>3, <1>11
  <2>2. EntryOK(f.m)' /\ f.m \in Methods
    BY <1>2, <1>4, <1>14
  <2>3. g.pc \notin Converting
    BY <1>6 DEF Converting
  <2> QED BY <1>2, <1>3, <1>6, <1>7, <1>15, <1>16, <2>1, <2>2, <2>3, PoolStep
<1> QED BY <1>7, <1>12, <1>17

\* A woken thread counts itself out; the last one frees the entry.
LEMMA WokenStep ==
    ASSUME CCtorInv, NEW t \in Threads, Woken(t)
    PROVE  CCtorInv'
<1> USE DEF CCtorInv
<1>1. PICK f : f = Top(t)
  OBVIOUS
<1>2. PICK m, last : m = f.m /\ last = (entry[m].waiting = 1) /\ last \in BOOLEAN
  OBVIOUS
<1>3. PICK pc, st : /\ pc = IF entry[m].waiting = 1 THEN "last" ELSE "read"
                    /\ st = IF entry[m].waiting = 1 THEN "freed" ELSE entry[m].state
  OBVIOUS
<1>4. /\ stack[t] # <<>> /\ f.pc = "woken" /\ WriteLock(t)
      /\ entry' = [entry EXCEPT ![m].waiting = @ - 1, ![m].state = st]
      /\ Goto(t, [f EXCEPT !.pc = pc])
      /\ holder' = holder /\ running' = running /\ once' = once /\ converted' = converted /\ calls' = calls
  BY <1>1, <1>2, <1>3 DEF Woken, At, classVars
<1>5. f \in FrameType /\ ~f.own /\ m \in Methods /\ holder # t /\ FrameOK(f, t)
  BY <1>1, <1>2, <1>4, TopFacts DEF FrameType
<1>6. PICK g : g = [f EXCEPT !.pc = pc]
  OBVIOUS
<1>7. g \in FrameType /\ g.pc = pc /\ pc \in {"last", "read"} /\ g.m = f.m /\ g.cls = f.cls /\ ~g.own
  <2>1. pc \in Pcs /\ pc \in {"last", "read"}
    BY <1>3 DEF Pcs
  <2> QED BY <1>5, <1>6, <2>1, SetPc
<1>8. /\ Others(t) /\ Replaces(stack[t], stack'[t], g) /\ f = stack[t][Len(stack[t])]
      /\ Shapes' /\ HolderOK' /\ ClassOK'
  <2>1. f.pc \notin Constructing /\ g.pc \notin Constructing /\ g.m # NoMethod
    BY <1>2, <1>4, <1>5, <1>7, CCtorAssumption DEF Constructing
  <2>2. g.pc \notin {"wait", "woken"}
    BY <1>7
  <2> QED BY <1>1, <1>4, <1>6, <1>7, <2>1, <2>2, ReplaceParts
<1>9. entry \in [Methods -> EntryType] /\ entry[m] \in EntryType
  BY <1>5 DEF Types
<1>10. EntryOK(m) /\ entry[m].state = "unlinked"
  BY <1>2, <1>4, <1>5, CCtorAssumption DEF ConvertOK, FrameOK
<1>11. Cardinality(InPc(m, {"wait", "woken"})') = Cardinality(InPc(m, {"wait", "woken"})) - 1
  <2>1. {"wait", "woken"} \subseteq {"wait", "woken", "read"} /\ f.pc \in {"wait", "woken"} /\ g.pc \notin {"wait", "woken"}
    BY <1>4, <1>7
  <2>2. Does(stack[t], m, {"wait", "woken"})
    BY <1>1, <1>2, <1>4, <2>1, WaitsOnce
  <2>3. ~Does(stack'[t], m, {"wait", "woken"})
    BY <1>8, <2>1, WaitsNoMore DEF Shapes
  <2> QED BY <1>8, <2>2, <2>3, InPcLess
<1>12. entry[m].waiting \in Nat /\ entry[m].waiting > 0
  <2>1. t \in InPc(m, {"wait", "woken"})
    <3>1. {"wait", "woken"} \subseteq {"wait", "woken", "read"} /\ f.pc \in {"wait", "woken"}
      BY <1>4
    <3> QED BY <1>1, <1>2, <1>4, <3>1, WaitsOnce DEF InPc
  <2>2. Cardinality(InPc(m, {"wait", "woken"})) # 0
    BY <2>1, InPcFinite, FS_EmptySet
  <2>3. entry[m].waiting # 0
    BY <1>10, <2>2 DEF EntryOK
  <2> QED BY <1>9, <2>3 DEF EntryType
<1>13. /\ entry' \in [Methods -> EntryType]
       /\ entry'[m].state = st /\ entry'[m].owner = entry[m].owner
       /\ entry'[m].classes = entry[m].classes /\ entry'[m].sem = entry[m].sem
       /\ entry'[m].waiting = entry[m].waiting - 1
       /\ \A k \in Methods : k # m => entry'[k] = entry[k]
  <2>1. PICK w \in Nat : w = entry[m].waiting - 1
    BY <1>12
  <2>2. PICK e : e = [entry[m] EXCEPT !.waiting = w, !.state = st]
    OBVIOUS
  <2>3. st \in {"unlinked", "freed"}
    BY <1>3, <1>10
  <2>4. /\ e \in EntryType /\ e.state = st /\ e.owner = entry[m].owner /\ e.sem = entry[m].sem
        /\ e.classes = entry[m].classes /\ e.waiting = w
    BY <1>9, <2>2, <2>3 DEF EntryType
  <2>5. entry' = [entry EXCEPT ![m] = e]
    <3>1. \A k \in Methods : entry'[k] = [entry EXCEPT ![m] = e][k]
      BY <1>4, <1>5, <1>9, <2>1, <2>2
    <3> QED BY <1>4, <1>9, <3>1
  <2> QED BY <1>5, <1>9, <2>1, <2>4, <2>5
<1>15. Types'
  BY <1>4, <1>8, <1>13, LockTyped DEF Types, Others
<1>16. EntryOK(m)'
  <2>1. InPc(m, {"wait"})' = InPc(m, {"wait"})
    <3>1. Does(stack'[t], m, {"wait"}) <=> Does(stack[t], m, {"wait"})
      BY <1>4, <1>7, <1>8, DoesReplaced
    <3> QED BY <1>8, <3>1, InPcSame
  <2>2. st \in {"unlinked", "freed"}
    BY <1>3, <1>10
  <2>3. /\ entry'[m].sem = Cardinality(InPc(m, {"wait"})')
        /\ entry'[m].waiting = Cardinality(InPc(m, {"wait", "woken"})')
        /\ m \in converted'
    BY <1>4, <1>10, <1>11, <1>13, <2>1 DEF EntryOK
  <2> QED BY <1>13, <2>2, <2>3 DEF EntryOK, Does, InPc
<1>17. FrameOK(g, t)'
  BY <1>2, <1>7, <1>13 DEF FrameOK, Converting
<1>18. ASSUME NEW u \in Threads, NEW i \in 1 .. Len(stack[u]), NEW x, x = stack[u][i], x.m = m,
              u # t \/ i < Len(stack[t])
       PROVE  FrameOK(x, u)'
  <2>1. FrameOK(x, u)
    BY <1>18 DEF ConvertOK
  <2>2. CASE entry[m].waiting # 1
    BY <1>3, <1>4, <1>13, <1>18, <2>1, <2>2, FrameKept
  <2>3. CASE entry[m].waiting = 1
    <3>1. x.pc \in {"wait", "woken", "read"} => u # t
      <4>1. PICK n \in Nat : n = Len(stack[u])
        BY DEF Types
      <4> QED BY <1>18, <4>1 DEF Shapes, Shape, Constructing
    <3>2. x.pc \notin {"wait", "woken"}
      <4>1. IsFiniteSet(InPc(m, {"wait", "woken"})) /\ Cardinality(InPc(m, {"wait", "woken"})) = 1
        BY <1>10, <2>3, InPcFinite DEF EntryOK
      <4>2. PICK y : InPc(m, {"wait", "woken"}) = {y}
        BY <4>1, FS_Singleton
      <4>3. {"wait", "woken"} \subseteq {"wait", "woken", "read"} /\ f.pc \in {"wait", "woken"}
        BY <1>4
      <4>4. t \in InPc(m, {"wait", "woken"})
        BY <1>1, <1>2, <1>4, <4>3, WaitsOnce DEF InPc
      <4>5. x.pc \in {"wait", "woken"} => u \in InPc(m, {"wait", "woken"})
        BY <1>18 DEF InPc, Does
      <4> QED BY <3>1, <4>2, <4>4, <4>5
    <3>4. x.pc \notin Converting
      BY <1>5, <1>10, <1>18, <2>1, CCtorAssumption DEF FrameOK
    <3>5. x.pc # "enter" /\ x.pc # "run"
      BY <3>4 DEF Converting
    <3> QED BY <1>4, <1>13, <1>18, <2>1, <3>2, <3>4, <3>5 DEF FrameOK
  <2> QED BY <2>2, <2>3
<1>19. ConvertOK'
  <2>1. \A k \in Methods : k # f.m => entry'[k] = entry[k] /\ (k \in converted' <=> k \in converted)
    BY <1>2, <1>4, <1>13
  <2>2. EntryOK(f.m)' /\ f.m \in Methods
    BY <1>2, <1>5, <1>16
  <2>3. g.pc \notin Converting
    BY <1>7 DEF Converting
  <2>4. \A u \in Threads : \A i \in 1 .. Len(stack[u]) : \A x :
           x = stack[u][i] /\ x.m = f.m /\ (u # t \/ i < Len(stack[t])) => FrameOK(x, u)'
    BY <1>2, <1>18
  <2>5. g.m = f.m /\ once \subseteq once' /\ ConvertOK /\ Types
    BY <1>4, <1>7
  <2> HIDE DEF CCtorInv
  <2> QED BY <1>8, <1>17, <2>1, <2>2, <2>3, <2>4, <2>5, PoolStep
<1> QED BY <1>8, <1>15, <1>19

\* The owner stores the method and unlinks or frees the entry.
LEMMA StoreStep ==
    ASSUME CCtorInv, NEW t \in Threads, Store(t)
    PROVE  CCtorInv'
<1> USE DEF CCtorInv
<1>1. PICK f : f = Top(t)
  OBVIOUS
<1>2. PICK m, st, w : /\ m = f.m /\ w = entry[m].waiting
                      /\ st = IF entry[m].waiting = 0 THEN "freed" ELSE "unlinked"
  OBVIOUS
<1>3. /\ stack[t] # <<>> /\ f.pc = "store" /\ CanLock(t) /\ meta' = meta /\ depth' = depth
      /\ entry' = [entry EXCEPT ![m].state = st, ![m].sem = w]
      /\ converted' = converted \cup {m}
      /\ Goto(t, [f EXCEPT !.pc = "body"])
      /\ holder' = holder /\ running' = running /\ once' = once /\ calls' = calls
  BY <1>1, <1>2 DEF Store, At, UnlockMethod, LockAndUnlock, lockVars, classVars
<1>4. f \in FrameType /\ m \in Methods /\ FrameOK(f, t)
  BY <1>1, <1>2, <1>3, TopFacts DEF FrameType
<1>5. PICK g : g = [f EXCEPT !.pc = "body"]
  OBVIOUS
<1>6. /\ g \in FrameType /\ g.pc = "body" /\ g.m = f.m /\ g.cls = f.cls /\ g.own = f.own /\ g.ok = f.ok
  BY <1>4, <1>5, SetPc DEF Pcs
<1>7. /\ Others(t) /\ Replaces(stack[t], stack'[t], g) /\ f = stack[t][Len(stack[t])]
      /\ Shapes' /\ HolderOK' /\ ClassOK'
  <2>1. f.pc \notin Constructing /\ g.pc \notin Constructing /\ g.m # NoMethod
    BY <1>2, <1>3, <1>4, <1>6, CCtorAssumption DEF Constructing
  <2> QED BY <1>1, <1>3, <1>5, <1>6, <2>1, ReplaceParts
<1>8. entry \in [Methods -> EntryType] /\ entry[m] \in EntryType
  BY <1>4 DEF Types
<1>9. EntryOK(m) /\ entry[m].state = "linked" /\ entry[m].owner = t
  BY <1>2, <1>3, <1>4, CCtorAssumption DEF ConvertOK, FrameOK, Converting
<1>10. /\ entry' \in [Methods -> EntryType]
       /\ entry'[m].state = st /\ entry'[m].owner = entry[m].owner
       /\ entry'[m].classes = entry[m].classes /\ entry'[m].sem = w
       /\ entry'[m].waiting = w
       /\ \A k \in Methods : k # m => entry'[k] = entry[k]
  <2>1. w \in Nat /\ st \in {"unlinked", "freed"}
    BY <1>2, <1>8 DEF EntryType
  <2>2. PICK e : e = [entry[m] EXCEPT !.state = st, !.sem = w]
    OBVIOUS
  <2>3. /\ e \in EntryType /\ e.state = st /\ e.owner = entry[m].owner /\ e.sem = w
        /\ e.classes = entry[m].classes /\ e.waiting = w
    BY <1>2, <1>8, <2>1, <2>2 DEF EntryType
  <2>4. entry' = [entry EXCEPT ![m] = e]
    <3>1. \A k \in Methods : entry'[k] = [entry EXCEPT ![m] = e][k]
      BY <1>3, <1>4, <1>8, <2>2
    <3> QED BY <1>3, <1>8, <3>1
  <2> QED BY <1>4, <1>8, <2>3, <2>4
<1>11. Types'
  BY <1>3, <1>4, <1>7, <1>10 DEF Types, Others
<1>13. InPc(m, {"wait", "woken"}) = InPc(m, {"wait"})
  <2>1. ASSUME NEW u \in Threads, Does(stack[u], m, {"wait", "woken"}) PROVE Does(stack[u], m, {"wait"})
    <3>1. PICK i \in 1 .. Len(stack[u]) : stack[u][i].m = m /\ stack[u][i].pc \in {"wait", "woken"}
      BY <2>1 DEF Does
    <3>2. FrameOK(stack[u][i], u)
      BY DEF ConvertOK
    <3>3. stack[u][i].pc # "woken"
      BY <1>4, <1>9, <3>1, <3>2, CCtorAssumption DEF FrameOK
    <3> QED BY <3>1, <3>3 DEF Does
  <2>2. ASSUME NEW u \in Threads, Does(stack[u], m, {"wait"}) PROVE Does(stack[u], m, {"wait", "woken"})
    BY <2>2 DEF Does
  <2> QED BY <2>1, <2>2 DEF InPc
<1>14. EntryOK(m)'
  <2>1. Does(stack'[t], m, {"wait"}) <=> Does(stack[t], m, {"wait"})
    BY <1>3, <1>6, <1>7, DoesReplaced
  <2>2. Does(stack'[t], m, {"wait", "woken"}) <=> Does(stack[t], m, {"wait", "woken"})
    BY <1>3, <1>6, <1>7, DoesReplaced
  <2>3. InPc(m, {"wait"})' = InPc(m, {"wait"}) /\ InPc(m, {"wait", "woken"})' = InPc(m, {"wait", "woken"})
    BY <1>7, <2>1, <2>2, InPcSame
  <2>4. w = Cardinality(InPc(m, {"wait", "woken"})) /\ w = Cardinality(InPc(m, {"wait"}))
    BY <1>2, <1>9, <1>13 DEF EntryOK
  <2>5. /\ st \in {"unlinked", "freed"} /\ m \in converted'
        /\ entry'[m].sem = Cardinality(InPc(m, {"wait"})')
        /\ entry'[m].waiting = Cardinality(InPc(m, {"wait", "woken"})')
    BY <1>2, <1>3, <1>10, <2>3, <2>4
  <2> QED BY <1>10, <2>5 DEF EntryOK, Does, InPc
<1>15. FrameOK(g, t)'
  <2>1. f.own /\ f.ok => Range(entry[m].classes) \subseteq once
    BY <1>2, <1>3, <1>4, CCtorAssumption DEF FrameOK
  <2> QED BY <1>2, <1>3, <1>6, <1>10, <2>1 DEF FrameOK, Converting
<1>16. ASSUME NEW u \in Threads, NEW i \in 1 .. Len(stack[u]), NEW x, x = stack[u][i], x.m = m,
              u # t \/ i < Len(stack[t])
       PROVE  FrameOK(x, u)'
  <2>1. FrameOK(x, u) /\ m # NoMethod
    BY <1>4, <1>16, CCtorAssumption DEF ConvertOK
  <2>2. x.pc \notin Converting
    <3>1. x.pc \in Converting => u = t
      BY <1>9, <1>16, <2>1 DEF FrameOK
    <3>2. PICK n \in Nat : n = Len(stack[t]) /\ n > 0
      BY <1>3, TopFrame
    <3>3. n \in 1 .. n /\ f.pc \in Converting /\ f = stack[t][n]
      BY <1>3, <1>7, <3>2 DEF Converting
    <3>4. u = t /\ x.pc \in Converting => i = n
      BY <1>2, <1>16, <2>1, <3>2, <3>3 DEF ConvertOK, OneConversion
    <3> QED BY <1>16, <3>1, <3>2, <3>4
  <2>3. x.pc # "woken"
    BY <1>9, <1>16, <2>1 DEF FrameOK
  <2>5. x.pc = "wait" => st = "unlinked"
    <3>1. x.pc = "wait" => u \in InPc(m, {"wait", "woken"})
      BY <1>16 DEF InPc, Does
    <3>2. x.pc = "wait" => entry[m].waiting # 0
      BY <1>9, <3>1, InPcFinite, FS_EmptySet DEF EntryOK
    <3> QED BY <1>2, <3>2
  <2>6. x.pc \notin {"enter", "run", "store"}
    BY <2>2 DEF Converting
  <2>7. x.own /\ x.ok /\ x.pc = "body" => Range(entry[m].classes) \subseteq once
    BY <1>16, <2>1 DEF FrameOK
  <2> QED BY <1>3, <1>10, <1>16, <2>2, <2>3, <2>5, <2>6, <2>7 DEF FrameOK
<1>17. ConvertOK'
  <2>1. \A k \in Methods : k # f.m => entry'[k] = entry[k] /\ (k \in converted' <=> k \in converted)
    BY <1>2, <1>3, <1>10
  <2>2. EntryOK(f.m)' /\ f.m \in Methods
    BY <1>2, <1>4, <1>14
  <2>3. g.pc \notin Converting
    BY <1>6 DEF Converting
  <2>4. \A u \in Threads : \A i \in 1 .. Len(stack[u]) : \A x :
           x = stack[u][i] /\ x.m = f.m /\ (u # t \/ i < Len(stack[t])) => FrameOK(x, u)'
    BY <1>2, <1>16
  <2>5. g.m = f.m /\ once \subseteq once' /\ ConvertOK /\ Types
    BY <1>3, <1>6
  <2> HIDE DEF CCtorInv
  <2> QED BY <1>7, <1>15, <2>1, <2>2, <2>3, <2>4, <2>5, PoolStep
<1> QED BY <1>7, <1>11, <1>17

\* A method that is neither locked nor converted has not been asked for.
LEMMA NotYet ==
    ASSUME CCtorInv, NEW m \in Methods, ~Locked(m), m \notin converted
    PROVE  /\ entry[m].state = "none" /\ entry[m].waiting = 0
           /\ InPc(m, {"wait", "woken"}) = {}
           /\ \A u \in Threads : \A i \in 1 .. Len(stack[u]) :
                 stack[u][i].m = m => /\ stack[u][i].pc \notin Converting \cup {"wait", "woken"}
                                      /\ ~stack[u][i].own
<1> USE DEF CCtorInv
<1>1. EntryOK(m) /\ m # NoMethod /\ entry[m] \in EntryType
  BY CCtorAssumption DEF ConvertOK, Types
<1>2. entry[m].state = "none"
  BY <1>1 DEF EntryOK, Locked, EntryType
<1>3. ASSUME NEW u \in Threads, NEW i \in 1 .. Len(stack[u]), stack[u][i].m = m
      PROVE  stack[u][i].pc \notin Converting \cup {"wait", "woken"} /\ ~stack[u][i].own
  <2>1. FrameOK(stack[u][i], u)
    BY DEF ConvertOK
  <2>2. stack[u][i].pc \notin Converting \cup {"wait", "woken"}
    BY <1>1, <1>2, <1>3, <2>1 DEF FrameOK
  <2>3. stack[u][i].own => stack[u][i].pc \in {"run", "store", "body"}
    BY DEF Shapes, Shape
  <2>4. ~stack[u][i].own
    BY <1>1, <1>3, <2>1, <2>2, <2>3 DEF FrameOK, Converting
  <2> QED BY <2>2, <2>4
<1>4. InPc(m, {"wait", "woken"}) = {}
  BY <1>3 DEF InPc, Does
<1>5. entry[m].waiting = 0
  BY <1>1, <1>4, FS_EmptySet DEF EntryOK
<1> QED BY <1>2, <1>3, <1>4, <1>5

\* The classes a method asks for.
LEMMA AskedType ==
    ASSUME NEW m \in Methods
    PROVE  Asked(m) \subseteq Classes /\ IsFiniteSet(Asked(m))
<1>1. PICK b \in Seq(({"call"} \X Methods) \cup ({"field"} \X Classes)) : b = Body[m]
  BY CCtorAssumption
<1>2. PICK n \in Nat : n = Len(b) /\ Positions(m) = 0 .. n
  BY <1>1 DEF Positions
<1>3. Owner[m] \in Classes /\ \A k \in Methods : Owner[k] \in Classes
  BY CCtorAssumption
<1>4. ASSUME NEW i \in 0 .. n PROVE Asks(m, i) \subseteq Classes /\ IsFiniteSet(Asks(m, i))
  <2>1. \A x : IsFiniteSet({x}) /\ IsFiniteSet({})
    BY FS_Singleton, FS_EmptySet
  <2>2. CASE i = 0
    BY <1>3, <2>1, <2>2 DEF Asks, SetCurrentMethod
  <2>3. CASE i # 0
    <3>1. i \in 1 .. Len(b)
      BY <1>2, <2>3
    <3>2. b[i] \in ({"call"} \X Methods) \cup ({"field"} \X Classes)
      BY <1>1, <3>1
    <3>3. CASE b[i][1] = "call"
      <4>1. b[i][2] \in Methods
        BY <3>2, <3>3
      <4> QED BY <1>1, <1>3, <2>1, <2>3, <3>3, <4>1 DEF Asks, OnCallMethod
    <3>4. CASE b[i][1] # "call"
      <4>1. b[i][2] \in Classes
        BY <3>2, <3>4
      <4> QED BY <1>1, <2>1, <2>3, <3>4, <4>1 DEF Asks, OnStaticFieldAccess
    <3> QED BY <3>3, <3>4
  <2> QED BY <2>2, <2>3
<1>5. Asked(m) \subseteq Classes
  BY <1>2, <1>4 DEF Asked
<1>6. IsFiniteSet({Asks(m, i) : i \in 0 .. n})
  <2>1. IsFiniteSet(0 .. n)
    <3>1. 0 \in Int /\ n \in Int
      OBVIOUS
    <3> QED BY <3>1, FS_Interval
  <2>2. PICK T, h : T = {Asks(m, i) : i \in 0 .. n} /\ h = [i \in 0 .. n |-> Asks(m, i)]
    OBVIOUS
  <2>3. h \in Surjection(0 .. n, T)
    BY <2>2 DEF Surjection
  <2>4. IsFiniteSet(T)
    BY <2>1, <2>3, FS_Surjection
  <2> QED BY <2>2, <2>4
<1>7. IsFiniteSet(UNION {Asks(m, i) : i \in 0 .. n})
  <2>1. PICK S : S = {Asks(m, i) : i \in 0 .. n}
    OBVIOUS
  <2>2. IsFiniteSet(S) /\ \A T \in S : IsFiniteSet(T)
    BY <1>4, <1>6, <2>1
  <2>3. IsFiniteSet(UNION S)
    BY <2>2, FS_UNION
  <2> QED BY <2>1, <2>3
<1> QED BY <1>2, <1>5, <1>7 DEF Asked

\* The queue of a method is a sequence of classes.
LEMMA QueueType ==
    ASSUME NEW m \in Methods, NEW q \in Queue(m)
    PROVE  q \in Seq(Classes)
<1>1. Queued(m) \subseteq Asked(m)
  BY DEF Queued
<1>2. Queued(m) \subseteq Classes /\ Cardinality(Queued(m)) \in Nat
  BY <1>1, AskedType, FS_Subset, FS_CardinalityType
<1>3. PICK n \in Nat : n = Cardinality(Queued(m)) /\ q \in [1 .. n -> Queued(m)]
  BY <1>2 DEF Queue
<1>4. q \in [1 .. n -> Classes]
  BY <1>2, <1>3
<1> QED BY <1>4

\* A method is converted, and locked if classes are queued.
LEMMA ConvertNowStep ==
    ASSUME CCtorInv, NEW t \in Threads, ConvertNow(t)
    PROVE  CCtorInv'
<1> USE DEF CCtorInv
<1>1. PICK f : f = Top(t)
  OBVIOUS
<1>2. PICK m : m = f.m
  OBVIOUS
<1>3. /\ stack[t] # <<>> /\ f.pc = "convert" /\ ~Locked(m) /\ m \notin converted
      /\ meta' = meta /\ depth' = depth /\ once' = once \cup Trivial(m)
      /\ holder' = holder /\ running' = running /\ calls' = calls
  BY <1>1, <1>2 DEF ConvertNow, At, LockAndUnlock, lockVars
<1>4. f \in FrameType /\ ~f.own /\ m \in Methods
  BY <1>1, <1>2, <1>3, TopFacts DEF FrameType
<1>5. once' \subseteq Classes /\ once \subseteq once' /\ running' \ once' = running \ once
  <2>1. Trivial(m) \subseteq Classes
    BY <1>4, AskedType DEF Trivial
  <2>2. \A c \in Trivial(m) : CCtor[c] = NoMethod
    BY DEF Trivial
  <2>3. running' \ once' = running \ once
    BY <1>3, <2>2, TrivialDone
  <2> QED BY <1>3, <2>1, <2>3 DEF Types
<1>6. /\ entry[m].state = "none" /\ entry[m].waiting = 0 /\ InPc(m, {"wait", "woken"}) = {}
      /\ \A u \in Threads : \A i \in 1 .. Len(stack[u]) :
            stack[u][i].m = m => /\ stack[u][i].pc \notin Converting \cup {"wait", "woken"}
                                 /\ ~stack[u][i].own
  BY <1>3, <1>4, NotYet
<1>7. ASSUME NEW u \in Threads, NEW i \in 1 .. Len(stack[u]), NEW x, x = stack[u][i], x.m = f.m
      PROVE  FrameOK(x, u)'
  <2>1. x.pc \notin Converting \cup {"wait", "woken"} /\ ~x.own
    BY <1>2, <1>6, <1>7
  <2> QED BY <2>1 DEF FrameOK, Converting
<1>8. \A u \in Threads : \A i \in 1 .. Len(stack[u]) : \A x :
         x = stack[u][i] /\ x.m = f.m /\ (u # t \/ i < Len(stack[t])) => FrameOK(x, u)'
  BY <1>7
<1>9. entry \in [Methods -> EntryType] /\ entry[m] \in EntryType
  BY <1>4 DEF Types
<1>10. ~Does(stack[t], m, Converting)
  BY <1>6 DEF Does
<1>11. ASSUME NEW g \in FrameType, Goto(t, g), g.m = f.m, g.cls = f.cls, ~g.own, g.pc \in {"body", "enter"},
              entry' \in [Methods -> EntryType], converted' \subseteq Methods,
              \A k \in Methods : k # m => entry'[k] = entry[k] /\ (k \in converted' <=> k \in converted),
              Others(t) /\ Replaces(stack[t], stack'[t], g) => EntryOK(m)' /\ FrameOK(g, t)'
       PROVE  CCtorInv'
  <2>1. /\ Others(t) /\ Replaces(stack[t], stack'[t], g) /\ f = stack[t][Len(stack[t])]
        /\ Shapes' /\ HolderOK' /\ ClassOK'
    <3>1. f.pc \notin Constructing /\ g.pc \notin Constructing /\ g.m # NoMethod /\ g.pc \notin {"wait", "woken"}
      BY <1>2, <1>3, <1>4, <1>11, CCtorAssumption DEF Constructing
    <3> QED BY <1>1, <1>3, <1>5, <1>11, <3>1, ReplaceParts
  <2>2. Types'
    BY <1>3, <1>5, <1>11, <2>1 DEF Types, Others
  <2>4. ConvertOK'
    <3>1. EntryOK(f.m)' /\ f.m \in Methods /\ FrameOK(g, t)' /\ ~Does(stack[t], f.m, Converting)
      BY <1>2, <1>4, <1>10, <1>11, <2>1
    <3>2. \A k \in Methods : k # f.m => entry'[k] = entry[k] /\ (k \in converted' <=> k \in converted)
      BY <1>2, <1>11
    <3>3. Types /\ ConvertOK
      OBVIOUS
    <3> HIDE DEF CCtorInv
    <3> QED BY <1>5, <1>8, <1>11, <2>1, <3>1, <3>2, <3>3, PoolStep
  <2> QED BY <2>1, <2>2, <2>4
<1>12. ASSUME Others(t), NEW g, Replaces(stack[t], stack'[t], g), g.m = f.m, g.pc \in {"body", "enter"}
       PROVE  InPc(m, {"wait", "woken"})' = {} /\ Cardinality(InPc(m, {"wait", "woken"})') = 0
  <2>1. f = stack[t][Len(stack[t])]
    BY <1>1, <1>3, TopFrame
  <2>2. Does(stack'[t], m, {"wait", "woken"}) <=> Does(stack[t], m, {"wait", "woken"})
    BY <1>3, <1>12, <2>1, DoesReplaced
  <2>3. InPc(m, {"wait", "woken"})' = InPc(m, {"wait", "woken"})
    BY <1>12, <2>2, InPcSame
  <2> QED BY <1>6, <2>3, FS_EmptySet
<1>13. CASE Queued(m) = {}
  <2>1. /\ converted' = converted \cup {m} /\ Goto(t, [f EXCEPT !.pc = "body"]) /\ entry' = entry
    BY <1>1, <1>2, <1>13 DEF ConvertNow
  <2>2. PICK g : g = [f EXCEPT !.pc = "body"]
    OBVIOUS
  <2>3. g \in FrameType /\ g.pc = "body" /\ g.m = f.m /\ g.cls = f.cls /\ ~g.own
    BY <1>4, <2>2, SetPc DEF Pcs
  <2>4. ASSUME Others(t), Replaces(stack[t], stack'[t], g) PROVE EntryOK(m)'
    <3>1. InPc(m, {"wait", "woken"})' = {} /\ Cardinality(InPc(m, {"wait", "woken"})') = 0
      BY <1>12, <2>3, <2>4
    <3>2. entry'[m].state = "none" /\ entry'[m].waiting = Cardinality(InPc(m, {"wait", "woken"})')
      BY <1>6, <2>1, <3>1
    <3> QED BY <3>2 DEF EntryOK, InPc, Does
  <2>5. FrameOK(g, t)'
    BY <2>3 DEF FrameOK, Converting
  <2>6. converted' \subseteq Methods
    BY <1>4, <2>1 DEF Types
  <2>7. \A k \in Methods : k # m => entry'[k] = entry[k] /\ (k \in converted' <=> k \in converted)
    BY <2>1
  <2> QED BY <1>9, <1>11, <2>1, <2>2, <2>3, <2>4, <2>5, <2>6, <2>7
<1>14. CASE Queued(m) # {}
  <2>1. PICK q \in Queue(m) :
           /\ entry' = [entry EXCEPT ![m] = [NoEntry EXCEPT !.state = "linked", !.owner = t, !.classes = q]]
           /\ Goto(t, [f EXCEPT !.pc = "enter", !.q = q])
           /\ converted' = converted
    BY <1>1, <1>2, <1>14 DEF ConvertNow
  <2>2. q \in Seq(Classes)
    BY <1>4, <2>1, QueueType
  <2>3. PICK g, e : g = [f EXCEPT !.pc = "enter", !.q = q] /\ e = [NoEntry EXCEPT !.state = "linked", !.owner = t, !.classes = q]
    OBVIOUS
  <2>4. g \in FrameType /\ g.pc = "enter" /\ g.m = f.m /\ g.cls = f.cls /\ ~g.own /\ g.q = q
    BY <1>4, <2>2, <2>3 DEF FrameType, Pcs
  <2>5. /\ e \in EntryType /\ e.state = "linked" /\ e.owner = t /\ e.classes = q /\ e.waiting = 0 /\ e.sem = 0
    BY <2>2, <2>3 DEF NoEntry, EntryType
  <2>6. /\ entry' \in [Methods -> EntryType] /\ entry'[m] = e
        /\ \A k \in Methods : k # m => entry'[k] = entry[k] /\ (k \in converted' <=> k \in converted)
    BY <1>4, <1>9, <2>1, <2>3, <2>5
  <2>7. ASSUME Others(t), Replaces(stack[t], stack'[t], g) PROVE EntryOK(m)'
    <3>1. InPc(m, {"wait", "woken"})' = {} /\ Cardinality(InPc(m, {"wait", "woken"})') = 0
      BY <1>12, <2>4, <2>7
    <3>2. Does(stack'[t], m, Converting)
      <4>1. f = stack[t][Len(stack[t])]
        BY <1>1, <1>3, TopFrame
      <4>2. f.pc \notin Converting /\ g.pc \in Converting
        BY <1>3, <2>4 DEF Converting
      <4> QED BY <1>2, <2>4, <2>7, <4>1, <4>2, DoesMore
    <3>3. /\ entry'[m].state = "linked" /\ m \notin converted' /\ entry'[m].sem = 0 /\ entry'[m].owner = t
          /\ t # NoThread /\ entry'[m].waiting = Cardinality(InPc(m, {"wait", "woken"})')
      BY <1>3, <2>1, <2>5, <2>6, <3>1, CCtorAssumption
    <3> QED BY <3>2, <3>3 DEF EntryOK, InPc, Does
  <2>8. FrameOK(g, t)'
    BY <1>2, <2>4, <2>5, <2>6 DEF FrameOK, Converting
  <2>9. converted' \subseteq Methods
    BY <2>1 DEF Types
  <2> QED BY <1>11, <2>1, <2>3, <2>4, <2>6, <2>7, <2>8, <2>9
<1> QED BY <1>13, <1>14

-----------------------------------------------------------------------------
(* The invariant. *)

\* CCtorInv holds before the first call.
LEMMA InitInv == Init => CCtorInv
<1> SUFFICES ASSUME Init PROVE CCtorInv
  OBVIOUS
<1> USE DEF Init
<1>1. NoEntry \in EntryType
  BY DEF NoEntry, EntryType
<1>2. Types
  BY <1>1, CCtorAssumption DEF Types
<1>3. \A t \in Threads : stack[t] = <<>> /\ Len(stack[t]) = 0 /\ 1 .. Len(stack[t]) = {}
  OBVIOUS
<1>4. Shapes
  BY <1>3 DEF Shapes, Shape
<1>5. HolderOK
  BY <1>3 DEF HolderOK, Manager
<1>7. ClassOK
  BY <1>3 DEF ClassOK
<1>8. ConvertOK
  <2>1. ASSUME NEW m \in Methods PROVE EntryOK(m)
    <3>1. InPc(m, {"wait", "woken"}) = {}
      BY <1>3 DEF InPc, Does
    <3>2. entry[m].state = "none" /\ entry[m].waiting = 0
      BY DEF NoEntry
    <3> QED BY <3>1, <3>2, FS_EmptySet DEF EntryOK
  <2> QED BY <1>3, <2>1 DEF ConvertOK, OneConversion
<1> QED BY <1>2, <1>4, <1>5, <1>7, <1>8 DEF CCtorInv

\* Every step keeps CCtorInv.
LEMMA NextInv ==
    ASSUME CCtorInv, [Next]_vars
    PROVE  CCtorInv'
<1>1. ASSUME NEW t \in Threads, NEW m \in Methods, CallMethod(t, m) PROVE CCtorInv'
  BY <1>1, OutsideCall
<1>2. ASSUME NEW t \in Threads, NEW c \in Classes, RunClassConstructor(t, c) PROVE CCtorInv'
  BY <1>2, OutsideRun
<1>3. ASSUME NEW t \in Threads, Convert(t) PROVE CCtorInv'
  BY <1>3, QuietConvert, ConvertHelpStep, ConvertWaitStep, ConvertNowStep DEF Convert
<1>4. ASSUME NEW t \in Threads, Wait(t) PROVE CCtorInv'
  BY <1>4, SemaphoreWaitStep, WokenStep, GiveUpMetadata DEF Wait
<1>5. ASSUME NEW t \in Threads, Enter(t) PROVE CCtorInv'
  <2>1. holder = t \/ holder = NoThread
    BY <1>5 DEF Enter
  <2> QED BY <1>5, <2>1, EnterAgain, EnterFirst
<1>6. ASSUME NEW t \in Threads, RunCCtors(t) PROVE CCtorInv'
  BY <1>5, <1>6, SkipCCtorStep, RunTrivial, RunConstructor, LeaveStep, StoreStep, GiveUpMetadata DEF RunCCtors
<1>7. ASSUME NEW t \in Threads, Execute(t) PROVE CCtorInv'
  BY <1>7, CallStep, FieldAccessStep, ReturnStep, CCtorReturnsStep, CCtorThrowsStep DEF Execute
<1>8. CASE UNCHANGED vars
  <2>1. /\ stack' = stack /\ meta' = meta /\ depth' = depth /\ holder' = holder /\ running' = running
        /\ once' = once /\ converted' = converted /\ entry' = entry /\ calls' = calls
    BY <1>8 DEF vars, lockVars, classVars
  <2>2. calls' \in [Threads -> 0 .. MaxCalls]
    BY <2>1 DEF CCtorInv, Types
  <2> QED BY <2>1, <2>2, CallsOnly
<1> QED BY <1>1, <1>2, <1>3, <1>4, <1>6, <1>7, <1>8 DEF Next, Step

\* The manager, the pool of locked methods, the flags of the classes and the
\* metadata lock agree with the stacks of the threads.
THEOREM Invariance == Spec => []CCtorInv
<1>1. CCtorInv /\ [Next]_vars => CCtorInv'
  BY NextInv
<1> QED BY InitInv, <1>1, PTL DEF Spec

-----------------------------------------------------------------------------
(* The metadata lock: what a step does with it. *)

Holding == {"help", "read", "last"}
Holds(s) == {i \in 1 .. Len(s) : s[i].pc \in Holding}

\* The frames that have taken the metadata lock are the same ones.
KeepsHolds(s, r) == /\ Holds(r) = Holds(s)
                    /\ \A i \in Holds(s) : r[i].pc = s[i].pc /\ r[i].m = s[i].m

\* What a frame that has taken it relies on.
Guarded(f, t) == /\ f.pc = "help" => entry[f.m].state = "linked" /\ entry[f.m].owner # t
                 /\ f.pc = "read" => entry[f.m].state = "unlinked"

\* A step of t leaves the lock alone; skips a class of another's entry; looks
\* for a static constructor; takes the lock for an entry; gives it up.
Passes(t) == /\ KeepsHolds(stack[t], stack'[t]) /\ UNCHANGED lockVars
             /\ stack[t] # <<>> => Top(t).pc \notin Holding
Skips(t) == /\ stack[t] # <<>> /\ Top(t).pc = "help" /\ UNCHANGED <<lockVars, entry>>
            /\ \E g : Replaces(stack[t], stack'[t], g) /\ g.pc = "help" /\ g.m = Top(t).m
Looks(t) == /\ stack[t] # <<>> /\ Top(t).pc \in Constructing /\ ReadLockAndUnlock(t)
            /\ KeepsHolds(stack[t], stack'[t]) /\ entry' = entry
Locks(t) == /\ stack[t] # <<>> /\ Top(t).pc \notin Holding /\ WriteLock(t)
            /\ \E g : Replaces(stack[t], stack'[t], g) /\ g.pc \in Holding /\ Guarded(g, t)'
Unlocks(t) == /\ stack[t] # <<>> /\ Top(t).pc \in Holding /\ WriteUnlock(t) /\ entry' = entry
              /\ \E g : Replaces(stack[t], stack'[t], g) /\ g.pc = "body"

\* The entries change under the metadata lock only, and none that is linked
\* but by its owner.
EntryStep(t) ==
    \A m \in Methods :
        \/ entry'[m].state = entry[m].state /\ entry'[m].owner = entry[m].owner
        \/ CanLock(t) /\ \/ entry[m].state \in {"none", "unlinked"}
                         \/ entry[m].state = "linked" /\ entry[m].owner = t

LockStep(t) == /\ Others(t) /\ EntryStep(t)
               /\ Passes(t) \/ Skips(t) \/ Looks(t) \/ Locks(t) \/ Unlocks(t)

\* The holds do not change with a frame that keeps or lacks its hold.
LEMMA HoldsReplaced ==
    ASSUME NEW s, NEW r, NEW f, NEW g, Replaces(s, r, g), f = s[Len(s)],
           \/ f.pc \notin Holding /\ g.pc \notin Holding
           \/ f.pc = g.pc /\ f.m = g.m
    PROVE  KeepsHolds(s, r)
<1> PICK n \in Nat : n = Len(s) /\ n > 0 /\ Len(r) = n /\ r[n] = g /\ s[n] = f
  BY DEF Replaces
<1>1. \A i \in 1 .. n - 1 : r[i] = s[i]
  BY DEF Replaces
<1>2. \A i \in 1 .. n : /\ r[i].pc \in Holding <=> s[i].pc \in Holding
                        /\ s[i].pc \in Holding => r[i].pc = s[i].pc /\ r[i].m = s[i].m
  BY <1>1
<1> QED BY <1>2 DEF Holds, KeepsHolds

\* A called frame has no hold.
LEMMA HoldsPushed ==
    ASSUME NEW s, NEW r, NEW g, Pushes(s, r, g), g.pc \notin Holding
    PROVE  KeepsHolds(s, r)
<1> PICK n \in Nat : n = Len(s) /\ Len(r) = n + 1 /\ r[n + 1] = g
  BY DEF Pushes
<1>1. \A i \in 1 .. n : r[i].pc = s[i].pc /\ r[i].m = s[i].m
  BY DEF Pushes, Same
<1>2. \A i \in 1 .. n + 1 : r[i].pc \in Holding <=> (i \in 1 .. n /\ s[i].pc \in Holding)
  BY <1>1
<1> QED BY <1>1, <1>2 DEF Holds, KeepsHolds

\* A frame without a hold may go.
LEMMA HoldsPopped ==
    ASSUME NEW s, NEW r, NEW f, Pops(s, r), f = s[Len(s)], f.pc \notin Holding
    PROVE  KeepsHolds(s, r)
<1> PICK n \in Nat : n = Len(s) /\ n > 0 /\ Len(r) = n - 1 /\ s[n] = f
  BY DEF Pops
<1>1. \A i \in 1 .. n - 1 : r[i] = s[i]
  BY DEF Pops
<1>2. \A i \in 1 .. n : s[i].pc \in Holding <=> (i \in 1 .. n - 1 /\ r[i].pc \in Holding)
  BY <1>1
<1> QED BY <1>1, <1>2 DEF Holds, KeepsHolds

\* The end of a constructor leaves its caller's hold alone.
LEMMA HoldsReturned ==
    ASSUME NEW s, NEW r, NEW e, NEW f, NEW g, Returned(s, r, g), f = s[Len(s)], f.pc \notin Holding,
           e = s[Len(s) - 1], g.pc = e.pc, g.m = e.m
    PROVE  KeepsHolds(s, r)
<1> PICK n \in Nat : n = Len(s) /\ n > 1 /\ Len(r) = n - 1 /\ s[n] = f /\ s[n - 1] = e /\ r[n - 1] = g
  BY DEF Returned
<1>1. \A i \in 1 .. n - 1 : r[i].pc = s[i].pc /\ r[i].m = s[i].m
  <2>1. \A i \in 1 .. n - 2 : r[i] = s[i]
    BY DEF Returned
  <2> QED BY <2>1
<1>2. \A i \in 1 .. n : s[i].pc \in Holding <=> (i \in 1 .. n - 1 /\ r[i].pc \in Holding)
  BY <1>1
<1> QED BY <1>1, <1>2 DEF Holds, KeepsHolds

\* The frame on top of a stack that keeps its type.
LEMMA LastTyped ==
    ASSUME NEW F, NEW s \in Seq(F), NEW g, Append(s, g) \in Seq(F)
    PROVE  g \in F
<1>1. PICK n \in Nat : n = Len(s)
  OBVIOUS
<1>2. Len(Append(s, g)) = n + 1 /\ Append(s, g)[n + 1] = g
  BY <1>1
<1>3. n + 1 \in 1 .. n + 1
  OBVIOUS
<1> QED BY <1>2, <1>3

\* Goto, when the types are known to be kept.
LEMMA GotoTyped ==
    ASSUME Types, Types', NEW t \in Threads, stack[t] # <<>>, NEW f, f = Top(t), NEW g, Goto(t, g)
    PROVE  /\ Others(t) /\ Replaces(stack[t], stack'[t], g)
           /\ f \in FrameType /\ g \in FrameType /\ f = stack[t][Len(stack[t])]
<1>1. stack[t] \in Seq(FrameType) /\ Front(stack[t]) \in Seq(FrameType)
  BY Popped DEF Types
<1>2. stack'[t] = Append(Front(stack[t]), g) /\ stack'[t] \in Seq(FrameType)
  BY DEF Types, Goto
<1>3. g \in FrameType
  BY <1>1, <1>2, LastTyped
<1> QED BY <1>3, GotoFacts, TopFrame

\* The top frame goes on without the metadata lock.
LEMMA PassReplace ==
    ASSUME CCtorInv, CCtorInv', NEW t \in Threads, stack[t] # <<>>, NEW f, f = Top(t), NEW g, Goto(t, g),
           f.pc \notin Holding, g.pc \notin Holding, UNCHANGED lockVars, EntryStep(t)
    PROVE  LockStep(t)
<1>1. Others(t) /\ Replaces(stack[t], stack'[t], g) /\ f = stack[t][Len(stack[t])]
  BY GotoTyped DEF CCtorInv
<1>2. KeepsHolds(stack[t], stack'[t])
  BY <1>1, HoldsReplaced
<1> QED BY <1>1, <1>2 DEF LockStep, Passes

\* The steps of a conversion that does not keep the lock.
LEMMA ConvertPasses ==
    ASSUME CCtorInv, CCtorInv', NEW t \in Threads,
           ConvertOwn(t) \/ ConvertDone(t) \/ ConvertWait(t) \/ ConvertNow(t)
    PROVE  LockStep(t)
<1> USE DEF At, LockAndUnlock
<1>1. PICK f : f = Top(t)
  OBVIOUS
<1>2. stack[t] # <<>> /\ f.pc = "convert" /\ CanLock(t) /\ UNCHANGED lockVars
  BY <1>1 DEF ConvertOwn, ConvertDone, ConvertWait, ConvertNow
<1>3. f \in FrameType /\ f.m \in Methods
  BY <1>1, <1>2, TopFacts DEF FrameType
<1>4. entry \in [Methods -> EntryType] /\ entry[f.m] \in EntryType
  BY <1>3 DEF CCtorInv, Types
<1>5. PICK g : Goto(t, g) /\ g.pc \in {"body", "wait", "enter"}
  <2>1. CASE ConvertOwn(t) \/ ConvertDone(t)
    BY <1>1, <1>3, <2>1 DEF ConvertOwn, ConvertDone, FrameType
  <2>2. CASE ConvertWait(t)
    BY <1>1, <1>3, <2>2 DEF ConvertWait, FrameType
  <2>3. CASE ConvertNow(t)
    <3>1. \/ Goto(t, [f EXCEPT !.pc = "body"])
          \/ \E q : Goto(t, [f EXCEPT !.pc = "enter", !.q = q])
      BY <1>1, <2>3 DEF ConvertNow
    <3>2. CASE Goto(t, [f EXCEPT !.pc = "body"])
      BY <1>3, <3>2 DEF FrameType
    <3>3. ASSUME NEW q, Goto(t, [f EXCEPT !.pc = "enter", !.q = q])
          PROVE  \E g : Goto(t, g) /\ g.pc = "enter"
      <4>1. PICK g : g = [f EXCEPT !.pc = "enter", !.q = q]
        OBVIOUS
      <4>2. g.pc = "enter" /\ Goto(t, g)
        BY <1>3, <3>3, <4>1 DEF FrameType
      <4> QED BY <4>2
    <3> QED BY <3>1, <3>2, <3>3
  <2> QED BY <2>1, <2>2, <2>3
<1>6. EntryStep(t)
  <2>1. CASE entry' = entry
    BY <2>1 DEF EntryStep
  <2>2. CASE ConvertWait(t)
    <3>1. entry' = [entry EXCEPT ![f.m].waiting = @ + 1]
      BY <1>1, <2>2 DEF ConvertWait
    <3>2. PICK e : e = [entry[f.m] EXCEPT !.waiting = @ + 1] /\ entry' = [entry EXCEPT ![f.m] = e]
      BY <3>1
    <3>3. e.state = entry[f.m].state /\ e.owner = entry[f.m].owner
      BY <1>4, <3>2 DEF EntryType
    <3> QED BY <1>3, <1>4, <3>2, <3>3 DEF EntryStep
  <2>3. CASE ConvertNow(t) /\ entry' # entry
    <3>1. PICK e : entry' = [entry EXCEPT ![f.m] = e]
      BY <1>1, <2>3 DEF ConvertNow
    <3>2. entry[f.m].state = "none"
      BY <1>1, <1>3, <2>3, NotYet DEF ConvertNow
    <3> QED BY <1>2, <1>3, <1>4, <3>1, <3>2 DEF EntryStep
  <2> QED BY <2>1, <2>2, <2>3 DEF ConvertOwn, ConvertDone
<1> QED BY <1>1, <1>2, <1>5, <1>6, PassReplace DEF Holding

\* The steps of a thread that waits, of the manager and of a body that leave
\* the metadata lock alone.
LEMMA OthersPass ==
    ASSUME CCtorInv, CCtorInv', NEW t \in Threads,
           \/ SemaphoreWait(t) \/ Enter(t) \/ Store(t) \/ FieldAccess(t)
           \/ Leave(t) /\ Top(t).m # NoMethod
           \/ SkipCCtor(t) /\ Top(t).pc # "help"
    PROVE  LockStep(t)
<1> USE DEF At, LockAndUnlock
<1>1. PICK f : f = Top(t)
  OBVIOUS
<1>2. stack[t] # <<>> /\ f.pc \in {"wait", "enter", "store", "body", "run"} /\ UNCHANGED lockVars
  BY <1>1 DEF SemaphoreWait, Enter, Store, FieldAccess, Leave, SkipCCtor, AtStep, Running
<1>3. f \in FrameType /\ FrameOK(f, t)
  BY <1>1, <1>2, TopFacts
<1>4. PICK g : Goto(t, g) /\ g.pc \in {"woken", "run", "body", "store"}
  <2>1. CASE SemaphoreWait(t)
    BY <1>1, <1>3, <2>1 DEF SemaphoreWait, FrameType
  <2>2. CASE Enter(t)
    <3>1. Goto(t, [f EXCEPT !.pc = "run"]) \/ Goto(t, [f EXCEPT !.pc = "run", !.own = TRUE])
      BY <1>1, <2>2 DEF Enter
    <3>2. PICK g, h : g = [f EXCEPT !.pc = "run"] /\ h = [f EXCEPT !.pc = "run", !.own = TRUE]
      OBVIOUS
    <3>3. g.pc = "run" /\ h.pc = "run"
      BY <1>3, <3>2 DEF FrameType
    <3> QED BY <3>1, <3>2, <3>3
  <2>3. CASE Store(t)
    BY <1>1, <1>3, <2>3 DEF Store, FrameType
  <2>4. CASE FieldAccess(t)
    BY <1>1, <1>3, <2>4 DEF FieldAccess, AtStep, FrameType
  <2>5. CASE Leave(t) /\ f.m # NoMethod
    BY <1>1, <1>3, <2>5 DEF Leave, FrameType
  <2>6. CASE SkipCCtor(t) /\ f.pc # "help"
    BY <1>1, <1>3, <2>6 DEF SkipCCtor, Running, FrameType
  <2> QED BY <1>1, <2>1, <2>2, <2>3, <2>4, <2>5, <2>6
<1>5. EntryStep(t)
  <2>1. CASE entry' = entry
    BY <2>1 DEF EntryStep
  <2>2. CASE SemaphoreWait(t) \/ Store(t)
    <3>1. f.m \in Methods /\ f.m # NoMethod
      BY <1>1, <1>3, <2>2, TopFacts DEF FrameType, SemaphoreWait, Store
    <3>2. entry \in [Methods -> EntryType] /\ entry[f.m] \in EntryType
      BY <3>1 DEF CCtorInv, Types
    <3>3. CASE SemaphoreWait(t)
      <4>1. PICK e : e = [entry[f.m] EXCEPT !.sem = @ - 1] /\ entry' = [entry EXCEPT ![f.m] = e]
        BY <1>1, <3>3 DEF SemaphoreWait
      <4>2. e.state = entry[f.m].state /\ e.owner = entry[f.m].owner
        BY <3>2, <4>1 DEF EntryType
      <4> QED BY <3>1, <3>2, <4>1, <4>2 DEF EntryStep
    <3>4. CASE Store(t)
      <4>1. CanLock(t) /\ entry[f.m].state = "linked" /\ entry[f.m].owner = t
        BY <1>1, <1>3, <3>1, <3>4 DEF Store, FrameOK, Converting
      <4>2. \A k \in Methods : k # f.m => entry'[k] = entry[k]
        BY <1>1, <3>1, <3>2, <3>4 DEF Store, UnlockMethod
      <4> QED BY <4>1, <4>2 DEF EntryStep
    <3> QED BY <2>2, <3>3, <3>4
  <2> QED BY <2>1, <2>2 DEF Enter, FieldAccess, Leave, SkipCCtor
<1> QED BY <1>1, <1>2, <1>4, <1>5, PassReplace DEF Holding

\* A call of a method or of the manager.
LEMMA CallPasses ==
    ASSUME CCtorInv, CCtorInv', NEW t \in Threads, Others(t), NEW g, Pushes(stack[t], stack'[t], g),
           g.pc \notin Holding, UNCHANGED <<lockVars, entry>>, stack[t] # <<>> => Top(t).pc = "body"
    PROVE  LockStep(t)
<1>1. KeepsHolds(stack[t], stack'[t])
  BY HoldsPushed
<1>2. EntryStep(t)
  BY DEF EntryStep
<1> QED BY <1>1, <1>2 DEF LockStep, Passes, Holding

\* The calls from outside.
LEMMA OutsidePasses ==
    ASSUME CCtorInv, CCtorInv', NEW t \in Threads,
           \/ \E m \in Methods : CallMethod(t, m)
           \/ \E c \in Classes : RunClassConstructor(t, c)
    PROVE  LockStep(t)
<1>1. ASSUME NEW m \in Methods, CallMethod(t, m) PROVE LockStep(t)
  <2>1. PICK g : g = Called(m, NoClass)
    OBVIOUS
  <2>2. g \in FrameType /\ g.pc \in {"body", "convert"}
    BY <2>1, CalledType
  <2>3. stack[t] = <<>> /\ stack' = [stack EXCEPT ![t] = Append(stack[t], g)] /\ UNCHANGED <<lockVars, entry>>
    BY <1>1, <2>1 DEF CallMethod
  <2>4. Others(t) /\ Pushes(stack[t], stack'[t], g)
    BY <2>2, <2>3, PushFacts DEF CCtorInv
  <2> QED BY <2>2, <2>3, <2>4, CallPasses DEF Holding
<1>2. ASSUME NEW c \in Classes, RunClassConstructor(t, c) PROVE LockStep(t)
  <2>1. stack[t] = <<>> /\ UNCHANGED <<lockVars, entry>>
    BY <1>2 DEF RunClassConstructor
  <2>2. CASE c \notin once
    <3>1. PICK g : g = [Frame(NoMethod, "enter", NoClass) EXCEPT !.q = <<c>>]
      OBVIOUS
    <3>2. g = [m |-> NoMethod, pc |-> "enter", cls |-> NoClass, i |-> 1, q |-> <<c>>, own |-> FALSE, ok |-> TRUE]
      BY <3>1 DEF Frame
    <3>3. <<c>> \in Seq(Classes) /\ 1 \in Nat \ {0}
      OBVIOUS
    <3>4. g \in FrameType /\ g.pc = "enter"
      BY <3>2, <3>3 DEF FrameType, Pcs
    <3>5. stack' = [stack EXCEPT ![t] = Append(stack[t], g)]
      BY <1>2, <2>1, <2>2, <3>1 DEF RunClassConstructor
    <3>6. Others(t) /\ Pushes(stack[t], stack'[t], g)
      BY <3>4, <3>5, PushFacts DEF CCtorInv
    <3> QED BY <2>1, <3>4, <3>6, CallPasses DEF Holding
  <2>3. CASE c \in once
    <3>1. stack' = stack
      BY <1>2, <2>1, <2>3 DEF RunClassConstructor, CCtorInv, Types
    <3>2. Others(t)
      BY <3>1 DEF Others, CCtorInv, Types
    <3>3. KeepsHolds(stack[t], stack'[t])
      BY <3>1 DEF KeepsHolds
    <3>4. EntryStep(t)
      BY <2>1 DEF EntryStep
    <3> QED BY <2>1, <3>2, <3>3, <3>4 DEF LockStep, Passes
  <2> QED BY <2>2, <2>3
<1> QED BY <1>1, <1>2

\* A call of a method by a method.
LEMMA BodyCallPasses ==
    ASSUME CCtorInv, CCtorInv', NEW t \in Threads, Call(t)
    PROVE  LockStep(t)
<1>1. PICK f : f = Top(t)
  OBVIOUS
<1>2. PICK h, g : /\ h = [f EXCEPT !.i = @ + 1] /\ g = Called(Body[f.m][f.i][2], NoClass)
  OBVIOUS
<1>3. /\ stack[t] # <<>> /\ f.pc = "body" /\ UNCHANGED <<lockVars, entry>>
      /\ stack' = [stack EXCEPT ![t] = Append(Append(Front(stack[t]), h), g)]
  BY <1>1, <1>2 DEF Call, AtStep, At, Below
<1>4. stack[t] \in Seq(FrameType) /\ Front(stack[t]) \in Seq(FrameType) /\ f \in FrameType
  BY <1>1, <1>3, Popped, TopFrame DEF CCtorInv, Types
<1>5. h \in FrameType /\ Same(h, f)
  BY <1>2, <1>4, NextI
<1>6. g \in FrameType
  <2>1. Append(Front(stack[t]), h) \in Seq(FrameType)
    BY <1>4, <1>5
  <2>2. Append(Append(Front(stack[t]), h), g) \in Seq(FrameType)
    BY <1>3 DEF CCtorInv, Types
  <2> QED BY <2>1, <2>2, LastTyped
<1>7. g.pc \in {"body", "convert"}
  BY <1>2 DEF Called, Frame
<1>8. Others(t) /\ Pushes(stack[t], stack'[t], g)
  BY <1>1, <1>3, <1>5, <1>6, CallFacts DEF CCtorInv
<1> QED BY <1>1, <1>3, <1>7, <1>8, CallPasses DEF Holding

\* A frame ends.
LEMMA EndPasses ==
    ASSUME CCtorInv, CCtorInv', NEW t \in Threads, Return(t) \/ (Leave(t) /\ Top(t).m = NoMethod)
    PROVE  LockStep(t)
<1>1. /\ stack[t] # <<>> /\ Top(t).pc \in {"body", "run"} /\ UNCHANGED <<lockVars, entry>>
      /\ stack' = [stack EXCEPT ![t] = Front(stack[t])]
  BY DEF Return, Leave, At, Below
<1>2. Others(t) /\ Pops(stack[t], stack'[t])
  BY <1>1, PopFacts DEF CCtorInv
<1>3. Top(t) = stack[t][Len(stack[t])]
  BY DEF Top
<1>4. KeepsHolds(stack[t], stack'[t])
  BY <1>1, <1>2, <1>3, HoldsPopped DEF Holding
<1>5. EntryStep(t)
  BY <1>1 DEF EntryStep
<1> QED BY <1>1, <1>2, <1>4, <1>5 DEF LockStep, Passes, Holding

\* A constructor ends.
LEMMA ConstructorPasses ==
    ASSUME CCtorInv, CCtorInv', NEW t \in Threads, CCtorReturns(t) \/ CCtorThrows(t)
    PROVE  LockStep(t)
<1>1. PICK f, e : f = Top(t) /\ e = Last(Below(t))
  OBVIOUS
<1>2. /\ stack[t] # <<>> /\ f.pc = "body" /\ f.cls # NoClass /\ UNCHANGED <<lockVars, entry>>
      /\ \E q, b : BackTo(t, q, b)
  BY <1>1, CCtorAssumption DEF CCtorReturns, CCtorThrows, At
<1>3. PICK n \in Nat : /\ n = Len(stack[t]) /\ n > 1 /\ f = stack[t][n] /\ e = stack[t][n - 1]
                      /\ e \in FrameType
  BY <1>1, <1>2, CallerQueue
<1>4. PICK g, q, b : g = [e EXCEPT !.q = q, !.ok = (e.ok /\ b)] /\ BackTo(t, q, b)
  BY <1>2
<1>5. stack' = [stack EXCEPT ![t] = Append(Front(Front(stack[t])), g)]
  BY <1>1, <1>4 DEF BackTo, Below
<1>6. g \in FrameType
  <2>1. stack[t] \in Seq(FrameType) /\ Front(stack[t]) \in Seq(FrameType) /\ Len(Front(stack[t])) = n - 1
    BY <1>2, <1>3, Popped DEF CCtorInv, Types
  <2>2. Front(stack[t]) # <<>>
    BY <1>3, <2>1
  <2>3. Front(Front(stack[t])) \in Seq(FrameType)
    BY <2>1, <2>2, Popped
  <2>4. Append(Front(Front(stack[t])), g) \in Seq(FrameType)
    BY <1>5 DEF CCtorInv, Types
  <2> QED BY <2>3, <2>4, LastTyped
<1>7. Others(t) /\ Returned(stack[t], stack'[t], g)
  BY <1>3, <1>5, <1>6, BackFacts DEF CCtorInv
<1>8. g.pc = e.pc /\ g.m = e.m
  BY <1>3, <1>4 DEF FrameType
<1>9. KeepsHolds(stack[t], stack'[t])
  BY <1>2, <1>3, <1>7, <1>8, HoldsReturned DEF Holding
<1>10. EntryStep(t)
  BY <1>2 DEF EntryStep
<1> QED BY <1>1, <1>2, <1>7, <1>9, <1>10 DEF LockStep, Passes, Holding

\* HandleLockedMethod on the thread that runs constructors: the entry it
\* finds, the classes it skips, its end. A woken thread: the entry it reads.
LEMMA EntrySteps ==
    ASSUME CCtorInv, CCtorInv', NEW t \in Threads,
           \/ ConvertHelp(t) \/ Woken(t) \/ ReadUserData(t) \/ HelpDone(t)
           \/ SkipCCtor(t) /\ Top(t).pc = "help"
    PROVE  LockStep(t)
<1> USE DEF At
<1>1. PICK f : f = Top(t)
  OBVIOUS
<1>2. stack[t] # <<>> /\ f.pc \in {"convert", "woken"} \cup Holding
  <2>1. CASE SkipCCtor(t) /\ f.pc = "help"
    BY <1>1, <2>1 DEF SkipCCtor, Running, Holding
  <2>2. CASE ConvertHelp(t) \/ Woken(t)
    BY <1>1, <2>2 DEF ConvertHelp, Woken
  <2>3. CASE ReadUserData(t) \/ HelpDone(t)
    BY <1>1, <2>3 DEF ReadUserData, HelpDone, Holding
  <2> QED BY <1>1, <2>1, <2>2, <2>3
<1>3. f \in FrameType /\ f.m \in Methods /\ FrameOK(f, t) /\ f.m # NoMethod
  BY <1>1, <1>2, TopFacts DEF FrameType, Holding
<1>4. entry \in [Methods -> EntryType] /\ entry[f.m] \in EntryType
  BY <1>3 DEF CCtorInv, Types
<1>5. ASSUME NEW g, Goto(t, g) PROVE Others(t) /\ Replaces(stack[t], stack'[t], g)
  BY <1>1, <1>2, <1>5, GotoTyped DEF CCtorInv
<1>6. CASE ConvertHelp(t)
  <2>1. PICK g : g = [f EXCEPT !.pc = "help", !.q = entry[f.m].classes]
    OBVIOUS
  <2>2. /\ Goto(t, g) /\ WriteLock(t) /\ entry' = entry /\ f.pc = "convert"
        /\ entry[f.m].state = "linked" /\ entry[f.m].owner # t
    BY <1>1, <1>6, <2>1 DEF ConvertHelp, Locked
  <2>3. g.pc = "help" /\ g.m = f.m
    BY <1>3, <2>1 DEF FrameType
  <2>4. Guarded(g, t)'
    BY <2>2, <2>3 DEF Guarded
  <2>5. EntryStep(t)
    BY <2>2 DEF EntryStep
  <2> QED BY <1>1, <1>2, <1>5, <2>2, <2>3, <2>4, <2>5 DEF LockStep, Locks, Holding
<1>7. CASE Woken(t)
  <2>1. PICK pc, st : /\ pc = IF entry[f.m].waiting = 1 THEN "last" ELSE "read"
                      /\ st = IF entry[f.m].waiting = 1 THEN "freed" ELSE entry[f.m].state
    OBVIOUS
  <2>2. PICK g : g = [f EXCEPT !.pc = pc]
    OBVIOUS
  <2>3. /\ Goto(t, g) /\ WriteLock(t) /\ CanLock(t) /\ f.pc = "woken"
        /\ entry' = [entry EXCEPT ![f.m].waiting = @ - 1, ![f.m].state = st]
    BY <1>1, <1>7, <2>1, <2>2 DEF Woken, WriteLock
  <2>4. g.pc = pc /\ g.m = f.m
    BY <1>3, <2>2 DEF FrameType
  <2>5. entry[f.m].state = "unlinked"
    BY <1>3, <2>3 DEF FrameOK
  <2>6. /\ entry'[f.m].state = st /\ entry'[f.m].owner = entry[f.m].owner
        /\ \A k \in Methods : k # f.m => entry'[k] = entry[k]
    BY <1>3, <1>4, <2>3 DEF EntryType
  <2>7. Guarded(g, t)'
    BY <2>1, <2>4, <2>5, <2>6 DEF Guarded
  <2>8. EntryStep(t)
    BY <2>3, <2>5, <2>6 DEF EntryStep
  <2> QED BY <1>1, <1>2, <1>5, <2>1, <2>3, <2>4, <2>7, <2>8 DEF LockStep, Locks, Holding
<1>8. CASE ReadUserData(t) \/ HelpDone(t)
  <2>1. PICK g : g = [f EXCEPT !.pc = "body"]
    OBVIOUS
  <2>2. Goto(t, g) /\ WriteUnlock(t) /\ entry' = entry /\ f.pc \in Holding
    BY <1>1, <1>8, <2>1 DEF ReadUserData, HelpDone, Holding
  <2>3. g.pc = "body"
    BY <1>3, <2>1 DEF FrameType
  <2>4. EntryStep(t)
    BY <2>2 DEF EntryStep
  <2> QED BY <1>1, <1>2, <1>5, <2>2, <2>3, <2>4 DEF LockStep, Unlocks
<1>9. CASE SkipCCtor(t) /\ f.pc = "help"
  <2>1. PICK g : g = [f EXCEPT !.q = Tail(f.q)]
    OBVIOUS
  <2>2. Goto(t, g) /\ UNCHANGED <<lockVars, entry>>
    BY <1>1, <1>9, <2>1 DEF SkipCCtor
  <2>3. g.pc = f.pc /\ g.m = f.m
    BY <1>3, <2>1 DEF FrameType
  <2>4. EntryStep(t)
    BY <2>2 DEF EntryStep
  <2> QED BY <1>1, <1>2, <1>5, <1>9, <2>2, <2>3, <2>4 DEF LockStep, Skips
<1> QED BY <1>1, <1>6, <1>7, <1>8, <1>9

\* _ILCCtorMgr_RunCCtor.
LEMMA RunLooks ==
    ASSUME CCtorInv, CCtorInv', NEW t \in Threads, RunCCtor(t)
    PROVE  LockStep(t)
<1>1. PICK f : f = Top(t)
  OBVIOUS
<1>2. stack[t] # <<>> /\ f.pc \in Constructing /\ ReadLockAndUnlock(t) /\ entry' = entry
  BY <1>1 DEF RunCCtor, Running, At, Constructing
<1>3. EntryStep(t)
  BY <1>2 DEF EntryStep
<1>4. CASE CCtor[Head(f.q)] = NoMethod
  <2>1. PICK g : g = [f EXCEPT !.q = Tail(f.q)]
    OBVIOUS
  <2>2. Goto(t, g)
    BY <1>1, <1>4, <2>1 DEF RunCCtor
  <2>3. Others(t) /\ Replaces(stack[t], stack'[t], g) /\ f \in FrameType /\ f = stack[t][Len(stack[t])]
    BY <1>1, <1>2, <2>2, GotoTyped DEF CCtorInv
  <2>4. g.pc = f.pc /\ g.m = f.m
    BY <2>1, <2>3 DEF FrameType
  <2>5. KeepsHolds(stack[t], stack'[t])
    BY <2>3, <2>4, HoldsReplaced
  <2> QED BY <1>1, <1>2, <1>3, <2>3, <2>5 DEF LockStep, Looks
<1>5. CASE CCtor[Head(f.q)] # NoMethod
  <2>1. PICK g : g = Called(CCtor[Head(f.q)], Head(f.q))
    OBVIOUS
  <2>2. stack' = [stack EXCEPT ![t] = Append(stack[t], g)]
    BY <1>1, <1>5, <2>1 DEF RunCCtor
  <2>3. g.pc \in {"body", "convert"}
    BY <2>1 DEF Called, Frame
  <2>4. g \in FrameType
    <3>1. stack[t] \in Seq(FrameType) /\ Append(stack[t], g) \in Seq(FrameType)
      BY <2>2 DEF CCtorInv, Types
    <3> QED BY <3>1, LastTyped
  <2>5. Others(t) /\ Pushes(stack[t], stack'[t], g)
    BY <2>2, <2>4, PushFacts DEF CCtorInv
  <2>6. KeepsHolds(stack[t], stack'[t])
    BY <2>3, <2>5, HoldsPushed DEF Holding
  <2> QED BY <1>1, <1>2, <1>3, <2>5, <2>6 DEF LockStep, Looks
<1> QED BY <1>4, <1>5

\* Every step does one of these things with the metadata lock.
LEMMA EveryStep ==
    ASSUME CCtorInv, CCtorInv', Next
    PROVE  \E t \in Threads : LockStep(t)
<1>1. PICK t \in Threads : \/ \E m \in Methods : CallMethod(t, m)
                           \/ \E c \in Classes : RunClassConstructor(t, c)
                           \/ Step(t)
  BY DEF Next
<1>2. CASE Convert(t)
  BY <1>2, ConvertPasses, EntrySteps DEF Convert
<1>3. CASE Wait(t)
  BY <1>3, OthersPass, EntrySteps DEF Wait
<1>4. CASE RunCCtors(t)
  BY <1>4, OthersPass, EntrySteps, EndPasses, RunLooks DEF RunCCtors
<1>5. CASE Execute(t)
  BY <1>5, OthersPass, BodyCallPasses, EndPasses, ConstructorPasses DEF Execute
<1> QED BY <1>1, <1>2, <1>3, <1>4, <1>5, OutsidePasses DEF Step

-----------------------------------------------------------------------------
(* The metadata lock as a critical section, which its owner may take again. *)

MetaOK ==
    /\ \A t \in Threads : Holds(stack[t]) # {} => meta = t
    /\ depth = IF meta = NoThread THEN 0 ELSE Cardinality(Holds(stack[meta]))
    /\ meta # NoThread => Holds(stack[meta]) # {}
    /\ meta # Broken

AllGuarded == \A t \in Threads : \A i \in 1 .. Len(stack[t]) : Guarded(stack[t][i], t)

CriticalInv == MetaOK /\ AllGuarded

\* The holds of the metadata lock can be counted.
LEMMA HoldsFinite ==
    ASSUME NEW s, Len(s) \in Nat
    PROVE  IsFiniteSet(Holds(s)) /\ Cardinality(Holds(s)) \in Nat
<1>1. IsFiniteSet(1 .. Len(s)) /\ 0 \in Int /\ 1 \in Int
  BY FS_Interval
<1>2. Holds(s) \subseteq 1 .. Len(s)
  BY DEF Holds
<1> QED BY <1>1, <1>2, FS_Subset, FS_CardinalityType

\* The metadata lock, when no frame takes it or gives it up.
LEMMA MetaSame ==
    ASSUME MetaOK, NEW t \in Threads, Others(t), Holds(stack'[t]) = Holds(stack[t]),
           meta' = meta, depth' = depth, meta \in Threads \cup {NoThread}
    PROVE  MetaOK'
<1>1. \A u \in Threads : Holds(stack'[u]) = Holds(stack[u])
  BY DEF Others
<1>2. /\ \A u \in Threads : Holds(stack'[u]) # {} => meta = u
      /\ depth = IF meta = NoThread THEN 0 ELSE Cardinality(Holds(stack'[meta]))
      /\ meta # NoThread => Holds(stack'[meta]) # {}
  BY <1>1 DEF MetaOK
<1>3. /\ \A u \in Threads : Holds(stack'[u]) # {} => meta' = u
      /\ depth' = IF meta' = NoThread THEN 0 ELSE Cardinality(Holds(stack'[meta']))
      /\ meta' # NoThread => Holds(stack'[meta']) # {}
  BY <1>2
<1>4. meta' # Broken
  BY DEF MetaOK
<1> QED BY <1>3, <1>4 DEF MetaOK, Holds

\* METADATA_WRLOCK: one hold more, on the thread that may have it.
LEMMA MetaLocked ==
    ASSUME Types, MetaOK, NEW t \in Threads, Others(t), NEW f, NEW g,
           Replaces(stack[t], stack'[t], g), f = stack[t][Len(stack[t])],
           f.pc \notin Holding, g.pc \in Holding, WriteLock(t)
    PROVE  MetaOK'
<1> PICK s, r : s = stack[t] /\ r = stack'[t]
  OBVIOUS
<1> PICK n \in Nat : n = Len(s) /\ n > 0 /\ Len(r) = n /\ r[n] = g /\ s[n] = f
  BY DEF Replaces
<1>1. \A i \in 1 .. n - 1 : r[i] = s[i]
  BY DEF Replaces
<1>2. n \notin Holds(s) /\ Holds(r) = Holds(s) \cup {n}
  BY <1>1 DEF Holds
<1>3. IsFiniteSet(Holds(s)) /\ Cardinality(Holds(s)) \in Nat
  BY HoldsFinite
<1>4. Cardinality(Holds(r)) = Cardinality(Holds(s)) + 1
  <2>1. Cardinality(Holds(s) \cup {n}) = IF n \in Holds(s) THEN Cardinality(Holds(s)) ELSE Cardinality(Holds(s)) + 1
    BY <1>3, FS_AddElement
  <2> QED BY <1>2, <2>1
<1>5. meta \in {NoThread, t} /\ meta' = t /\ depth' = depth + 1 /\ depth \in Nat
  BY DEF WriteLock, CanLock, Types, MetaOK
<1>6. depth = Cardinality(Holds(s))
  <2>1. CASE meta = t
    BY <2>1, CCtorAssumption DEF MetaOK
  <2>2. CASE meta = NoThread
    <3>1. Holds(s) = {}
      BY <2>2, CCtorAssumption DEF MetaOK
    <3> QED BY <2>2, <3>1, FS_EmptySet DEF MetaOK
  <2> QED BY <1>5, <2>1, <2>2
<1>7. \A u \in Threads \ {t} : Holds(stack'[u]) = {}
  BY <1>5, CCtorAssumption DEF MetaOK, Others
<1>8. /\ \A u \in Threads : Holds(stack'[u]) # {} => meta' = u
      /\ depth' = IF meta' = NoThread THEN 0 ELSE Cardinality(Holds(stack'[meta']))
      /\ meta' # NoThread => Holds(stack'[meta']) # {}
  BY <1>2, <1>4, <1>5, <1>6, <1>7, CCtorAssumption
<1>9. MetaOK'
  BY <1>5, <1>8, CCtorAssumption DEF MetaOK, Holds
<1> QED BY <1>9

\* METADATA_UNLOCK: one hold less, and the lock is free after the last.
LEMMA MetaUnlocked ==
    ASSUME Types, MetaOK, NEW t \in Threads, Others(t), NEW f, NEW g,
           Replaces(stack[t], stack'[t], g), f = stack[t][Len(stack[t])],
           f.pc \in Holding, g.pc \notin Holding, WriteUnlock(t)
    PROVE  MetaOK'
<1> PICK s, r : s = stack[t] /\ r = stack'[t]
  OBVIOUS
<1> PICK n \in Nat : n = Len(s) /\ n > 0 /\ Len(r) = n /\ r[n] = g /\ s[n] = f
  BY DEF Replaces
<1>1. \A i \in 1 .. n - 1 : r[i] = s[i]
  BY DEF Replaces
<1>2. n \in Holds(s) /\ Holds(r) = Holds(s) \ {n}
  BY <1>1 DEF Holds
<1>3. IsFiniteSet(Holds(s)) /\ IsFiniteSet(Holds(r)) /\ Cardinality(Holds(s)) \in Nat /\ Cardinality(Holds(r)) \in Nat
  BY HoldsFinite
<1>4. Cardinality(Holds(r)) = Cardinality(Holds(s)) - 1
  BY <1>2, <1>3, FS_RemoveElement
<1>5. meta = t
  BY <1>2 DEF MetaOK
<1>6. depth = Cardinality(Holds(s)) /\ depth \in Nat
  BY <1>5, CCtorAssumption DEF MetaOK, Types
<1>7. depth' = depth - 1 /\ meta' = IF depth = 1 THEN NoThread ELSE t
  BY <1>5 DEF WriteUnlock
<1>8. \A u \in Threads \ {t} : Holds(stack'[u]) = {}
  BY <1>5, CCtorAssumption DEF MetaOK, Others
<1>9. depth' = Cardinality(Holds(r))
  BY <1>4, <1>6, <1>7
<1>10. Holds(r) = {} <=> depth = 1
  BY <1>3, <1>4, <1>6, FS_EmptySet
<1>11. CASE depth = 1
  <2>1. /\ \A u \in Threads : Holds(stack'[u]) # {} => meta' = u
        /\ depth' = IF meta' = NoThread THEN 0 ELSE Cardinality(Holds(stack'[meta']))
        /\ meta' # NoThread => Holds(stack'[meta']) # {}
    <3>1. depth' = 0 /\ meta' = NoThread
      BY <1>6, <1>7, <1>11
    <3> QED BY <1>8, <1>10, <1>11, <3>1
  <2> QED BY <1>7, <1>11, <2>1, CCtorAssumption DEF MetaOK, Holds
<1>12. CASE depth # 1
  <2>1. /\ \A u \in Threads : Holds(stack'[u]) # {} => meta' = u
        /\ depth' = IF meta' = NoThread THEN 0 ELSE Cardinality(Holds(stack'[meta']))
        /\ meta' # NoThread => Holds(stack'[meta']) # {}
    BY <1>7, <1>8, <1>9, <1>10, <1>12, CCtorAssumption
  <2> QED BY <1>7, <1>12, <2>1, CCtorAssumption DEF MetaOK, Holds
<1> QED BY <1>11, <1>12

\* Only the top frame of a stack reads an entry.
LEMMA ReadsOnTop ==
    ASSUME CCtorInv, NEW t \in Threads, NEW i \in 1 .. Len(stack[t]), i < Len(stack[t]) \/ Top(t).pc # "read"
    PROVE  stack[t][i].pc # "read"
<1> USE DEF CCtorInv
<1>1. PICK n \in Nat : n = Len(stack[t])
  BY DEF Types
<1>2. CASE i < n
  BY <1>1, <1>2 DEF Shapes, Shape, Constructing
<1>3. CASE i = n
  BY <1>1, <1>3 DEF Top
<1> QED BY <1>1, <1>2, <1>3

\* What a frame relies on, for the frames of t below the top, and for those
\* of a thread that keeps t out.
LEMMA GuardedKept ==
    ASSUME CCtorInv, NEW t \in Threads, EntryStep(t), NEW u \in Threads, NEW i \in 1 .. Len(stack[u]),
           NEW f, f = stack[u][i], Guarded(f, u), CanLock(t) /\ f.pc \in Holding => u = t /\ f.pc # "read"
    PROVE  Guarded(f, u)'
<1> USE DEF CCtorInv
<1>1. f \in FrameType
  BY DEF Types
<1>2. f.pc \in {"help", "read"} => f.m \in Methods
  BY <1>1 DEF Shapes, Shape, FrameType
<1>3. ASSUME f.pc \in {"help", "read"}
      PROVE  entry'[f.m].state = entry[f.m].state /\ entry'[f.m].owner = entry[f.m].owner
  BY <1>2, <1>3 DEF Guarded, EntryStep, Holding
<1> QED BY <1>3 DEF Guarded

\* The critical section is kept by every step.
LEMMA CriticalStep ==
    ASSUME MetaLock = "critical", CCtorInv, CriticalInv, NEW t \in Threads, LockStep(t)
    PROVE  CriticalInv'
<1> USE DEF CCtorInv, CriticalInv
<1>1. Others(t) /\ EntryStep(t)
  BY DEF LockStep
<1>2. ASSUME NEW u \in Threads \ {t}, NEW i \in 1 .. Len(stack'[u])
      PROVE  Guarded(stack[u][i], u)'
  <2>1. stack'[u] = stack[u]
    BY <1>1 DEF Others
  <2>2. PICK f : f = stack[u][i]
    OBVIOUS
  <2>3. f.pc \in Holding => ~CanLock(t)
    <3>1. f.pc \in Holding => i \in Holds(stack[u])
      BY <2>1, <2>2 DEF Holds
    <3>2. f.pc \in Holding => meta = u
      BY <3>1 DEF MetaOK
    <3> QED BY <3>2, CCtorAssumption DEF CanLock
  <2>4. Guarded(f, u)
    BY <2>1, <2>2 DEF AllGuarded
  <2>5. Guarded(f, u)'
    BY <1>1, <2>1, <2>2, <2>3, <2>4, GuardedKept
  <2> QED BY <2>1, <2>2, <2>5
<1>3. ASSUME MetaOK', \A i \in 1 .. Len(stack'[t]) : Guarded(stack[t][i], t)'
      PROVE  CriticalInv'
  <2>1. \A u \in Threads : \A i \in 1 .. Len(stack'[u]) : Guarded(stack[u][i], u)'
    BY <1>2, <1>3
  <2> QED BY <1>3, <2>1 DEF AllGuarded, Guarded
<1>4. ASSUME NEW i \in 1 .. Len(stack[t]), NEW f, f = stack[t][i], i < Len(stack[t]) \/ Top(t).pc # "read"
      PROVE  Guarded(f, t)'
  <2>1. f.pc # "read"
    BY <1>4, ReadsOnTop
  <2>2. Guarded(f, t)
    BY <1>4 DEF AllGuarded
  <2> QED BY <1>1, <1>4, <2>1, <2>2, GuardedKept
<1>5. ASSUME KeepsHolds(stack[t], stack'[t]), UNCHANGED lockVars, stack[t] # <<>> => Top(t).pc # "read"
      PROVE  CriticalInv'
  <2>1. MetaOK'
    BY <1>1, <1>5, MetaSame DEF KeepsHolds, lockVars, Types, MetaOK
  <2>2. ASSUME NEW i \in 1 .. Len(stack'[t]) PROVE Guarded(stack[t][i], t)'
    <3>1. PICK f, g : f = stack[t][i] /\ g = stack'[t][i]
      OBVIOUS
    <3>2. CASE i \in Holds(stack[t])
      <4>1. g.pc = f.pc /\ g.m = f.m /\ i \in 1 .. Len(stack[t])
        BY <1>5, <3>1, <3>2 DEF KeepsHolds, Holds
      <4>2. stack[t] # <<>>
        BY <4>1
      <4>3. Guarded(f, t)'
        BY <1>4, <1>5, <3>1, <4>1, <4>2
      <4>4. Guarded(g, t)'
        BY <4>1, <4>3 DEF Guarded
      <4> QED BY <3>1, <4>4
    <3>3. CASE i \notin Holds(stack[t])
      <4>1. g.pc \notin Holding
        BY <1>5, <3>1, <3>3 DEF KeepsHolds, Holds
      <4>2. Guarded(g, t)'
        BY <4>1 DEF Guarded, Holding
      <4> QED BY <3>1, <4>2
    <3> QED BY <3>2, <3>3
  <2> QED BY <1>3, <2>1, <2>2
<1>6. ASSUME NEW g, Replaces(stack[t], stack'[t], g), Guarded(g, t)', MetaOK'
      PROVE  CriticalInv'
  <2>1. PICK n \in Nat : n = Len(stack[t]) /\ Len(stack'[t]) = n /\ stack'[t][n] = g
    BY <1>6 DEF Replaces
  <2>2. ASSUME NEW i \in 1 .. n PROVE Guarded(stack[t][i], t)'
    <3>1. CASE i = n
      BY <1>6, <2>1, <3>1
    <3>2. CASE i < n
      <4>1. PICK f : f = stack[t][i] /\ f = stack'[t][i]
        BY <1>6, <2>1, <3>2 DEF Replaces
      <4>2. Guarded(f, t)'
        BY <1>4, <2>1, <3>2, <4>1
      <4> QED BY <4>1, <4>2
    <3> QED BY <3>1, <3>2
  <2> QED BY <1>3, <1>6, <2>1, <2>2
<1>7. stack[t] # <<>> => Top(t) = stack[t][Len(stack[t])]
  BY DEF Top
<1>8. CASE Passes(t)
  BY <1>5, <1>8 DEF Passes, Holding
<1>9. CASE Skips(t)
  <2>1. PICK g : Replaces(stack[t], stack'[t], g) /\ g.pc = "help" /\ g.m = Top(t).m
    BY <1>9 DEF Skips
  <2>2. KeepsHolds(stack[t], stack'[t])
    BY <1>7, <1>9, <2>1, HoldsReplaced DEF Skips
  <2> QED BY <1>5, <1>9, <2>2 DEF Skips
<1>10. CASE Looks(t)
  BY <1>5, <1>10 DEF Looks, ReadLockAndUnlock, Constructing
<1>11. CASE Locks(t)
  <2>1. PICK g : Replaces(stack[t], stack'[t], g) /\ g.pc \in Holding /\ Guarded(g, t)'
    BY <1>11 DEF Locks
  <2>2. MetaOK'
    BY <1>1, <1>7, <1>11, <2>1, MetaLocked DEF Locks
  <2> QED BY <1>6, <2>1, <2>2
<1>12. CASE Unlocks(t)
  <2>1. PICK g : Replaces(stack[t], stack'[t], g) /\ g.pc = "body"
    BY <1>12 DEF Unlocks
  <2>2. MetaOK'
    BY <1>1, <1>7, <1>12, <2>1, MetaUnlocked DEF Unlocks, Holding
  <2>3. Guarded(g, t)'
    BY <2>1 DEF Guarded
  <2> QED BY <1>6, <2>1, <2>2, <2>3
<1> QED BY <1>8, <1>9, <1>10, <1>11, <1>12 DEF LockStep

-----------------------------------------------------------------------------
(* The metadata lock as a rwlock or as a mutex. *)

\* Its owner's top frame took it, and a thread that reads an entry has it
\* until it gives it up, unless the lock is broken.
PosixInv ==
    /\ meta \in Threads => /\ depth = 1 /\ stack[meta] # <<>>
                           /\ Top(meta).pc \in Holding /\ Guarded(Top(meta), meta)
    /\ meta = NoThread => depth = 0
    /\ \A t \in Threads : At(t, "read") \/ At(t, "last") => meta \in {t, Broken}

\* Where the top frame of a stack is after it was replaced.
LEMMA TopReplaced ==
    ASSUME NEW t \in Threads, NEW g, Replaces(stack[t], stack'[t], g), Others(t)
    PROVE  stack'[t] # <<>> /\ Top(t)' = g
<1>1. Len(stack'[t]) = Len(stack[t]) /\ Len(stack[t]) > 0 /\ stack'[t][Len(stack[t])] = g /\ Len(stack[t]) \in Nat
  BY DEF Replaces
<1> QED BY <1>1 DEF Top

\* A step that leaves the holds of a stack alone, and whose top has none or
\* is a list of constructors, does not put a reader on top.
LEMMA NoReaderOnTop ==
    ASSUME CCtorInv, NEW t \in Threads, Others(t), KeepsHolds(stack[t], stack'[t]),
           stack[t] # <<>> => Top(t).pc \notin {"read", "last"}
    PROVE  ~At(t, "read")' /\ ~At(t, "last")'
<1> USE DEF CCtorInv
<1> SUFFICES ASSUME stack'[t] # <<>>, Top(t)'.pc \in {"read", "last"} PROVE FALSE
  BY DEF At
<1>1. PICK i \in Nat : i = Len(stack'[t]) /\ i > 0 /\ Top(t)' = stack'[t][i]
  BY DEF Others, Top
<1>2. i \in Holds(stack[t]) /\ stack[t][i].pc \in {"read", "last"}
  BY <1>1 DEF KeepsHolds, Holds, Holding
<1>3. PICK n \in Nat : n = Len(stack[t]) /\ i <= n
  BY <1>2 DEF Types, Holds
<1>4. CASE i < n
  BY <1>1, <1>2, <1>3, <1>4 DEF Shapes, Shape, Constructing
<1>5. CASE i = n
  <2>1. stack[t] # <<>> /\ Top(t).pc = stack[t][i].pc
    BY <1>1, <1>3, <1>5 DEF Top
  <2> QED BY <1>2, <2>1
<1> QED BY <1>3, <1>4, <1>5

\* The rwlock and the mutex are kept by every step.
LEMMA PosixStep ==
    ASSUME MetaLock # "critical", CCtorInv, PosixInv, NEW t \in Threads, LockStep(t)
    PROVE  PosixInv'
<1> USE DEF CCtorInv
<1>1. Others(t) /\ EntryStep(t)
  BY DEF LockStep
<1>2. meta \in Threads \cup {NoThread, Broken} /\ depth \in Nat
  BY DEF Types
<1>3. ASSUME NEW u \in Threads \ {t} PROVE stack'[u] = stack[u] /\ Top(u)' = Top(u) /\ \A pc : At(u, pc)' <=> At(u, pc)
  BY <1>1, <1>3 DEF Others, Top, At
<1>4. ASSUME NEW u \in Threads \ {t}, meta = u PROVE Guarded(Top(u), u)'
  <2>1. PICK n \in Nat : n = Len(stack[u]) /\ n > 0 /\ Top(u) = stack[u][n]
    BY <1>4, TopFrame DEF PosixInv
  <2>2. ~CanLock(t)
    BY <1>4, CCtorAssumption DEF CanLock
  <2>3. Guarded(Top(u), u)
    BY <1>4 DEF PosixInv
  <2>4. PICK f : f = Top(u) /\ Guarded(f, u)'
    BY <1>1, <2>1, <2>2, <2>3, GuardedKept
  <2> QED BY <1>3, <2>4
<1>5. CASE Passes(t)
  <2>1. meta' = meta /\ depth' = depth /\ meta # t
    BY <1>5 DEF Passes, lockVars, PosixInv
  <2>2. ~At(t, "read")' /\ ~At(t, "last")'
    BY <1>1, <1>5, NoReaderOnTop DEF Passes, Holding
  <2>3. meta \in Threads => stack'[meta] # <<>> /\ Top(meta)'.pc \in Holding /\ Guarded(Top(meta), meta)'
    BY <1>3, <1>4, <2>1 DEF PosixInv
  <2>4. \A u \in Threads : At(u, "read")' \/ At(u, "last")' => meta \in {u, Broken}
    BY <1>3, <2>2 DEF PosixInv
  <2> QED BY <1>3, <1>4, <2>1, <2>3, <2>4 DEF PosixInv, Guarded
<1>6. CASE Skips(t)
  <2>1. PICK g : Replaces(stack[t], stack'[t], g) /\ g.pc = "help" /\ g.m = Top(t).m
    BY <1>6 DEF Skips
  <2>2. meta' = meta /\ depth' = depth /\ entry' = entry /\ Top(t).pc = "help"
    BY <1>6 DEF Skips, lockVars
  <2>3. stack'[t] # <<>> /\ Top(t)' = g
    BY <1>1, <2>1, TopReplaced
  <2>4. meta = t => Guarded(g, t)'
    BY <2>1, <2>2 DEF PosixInv, Guarded
  <2>5. \A u \in Threads : At(u, "read")' \/ At(u, "last")' => meta \in {u, Broken}
    BY <1>3, <2>1, <2>3 DEF PosixInv, At
  <2> QED BY <1>3, <1>4, <2>1, <2>2, <2>3, <2>4, <2>5 DEF PosixInv, Guarded, Holding
<1>7. CASE Looks(t)
  <2>1. \/ meta = t /\ meta' = NoThread /\ depth' = 0
        \/ meta \in {NoThread, Broken} /\ meta' = meta /\ depth' = depth
    BY <1>7, CCtorAssumption DEF Looks, ReadLockAndUnlock, CanReadLock, lockVars
  <2>2. ~At(t, "read")' /\ ~At(t, "last")'
    BY <1>1, <1>7, NoReaderOnTop DEF Looks, Constructing
  <2>3. meta' \notin Threads /\ (meta' = NoThread => depth' = 0)
    BY <2>1, CCtorAssumption DEF PosixInv
  <2>4. \A u \in Threads : At(u, "read")' \/ At(u, "last")' => meta' \in {u, Broken}
    BY <1>3, <2>1, <2>2, CCtorAssumption DEF PosixInv
  <2> QED BY <2>3, <2>4 DEF PosixInv
<1>8. CASE Locks(t)
  <2>1. PICK g : Replaces(stack[t], stack'[t], g) /\ g.pc \in Holding /\ Guarded(g, t)'
    BY <1>8 DEF Locks
  <2>2. stack'[t] # <<>> /\ Top(t)' = g
    BY <1>1, <2>1, TopReplaced
  <2>3. CASE meta = Broken
    <3>1. meta' = Broken
      BY <1>8, <2>3 DEF Locks, WriteLock, lockVars
    <3> QED BY <3>1, CCtorAssumption DEF PosixInv
  <2>4. CASE meta # Broken
    <3>1. meta = NoThread /\ meta' = t /\ depth' = 1
      BY <1>8, <2>4 DEF Locks, WriteLock, CanLock, PosixInv
    <3>2. \A u \in Threads : At(u, "read")' \/ At(u, "last")' => u = t
      BY <1>3, <3>1, CCtorAssumption DEF PosixInv
    <3>3. Top(t)'.pc \in Holding /\ Guarded(Top(t), t)'
      BY <2>1, <2>2 DEF Guarded
    <3> QED BY <2>2, <3>1, <3>2, <3>3, CCtorAssumption DEF PosixInv, Guarded
  <2> QED BY <2>3, <2>4
<1>9. CASE Unlocks(t)
  <2>1. PICK g : Replaces(stack[t], stack'[t], g) /\ g.pc = "body"
    BY <1>9 DEF Unlocks
  <2>2. stack'[t] # <<>> /\ Top(t)' = g
    BY <1>1, <2>1, TopReplaced
  <2>3. CASE meta = t
    <3>1. meta' = NoThread /\ depth' = 0
      BY <1>9, <2>3 DEF Unlocks, WriteUnlock, PosixInv
    <3>2. \A u \in Threads : ~At(u, "read")' /\ ~At(u, "last")'
      BY <1>3, <2>1, <2>2, <2>3, CCtorAssumption DEF PosixInv, At
    <3> QED BY <3>1, <3>2, CCtorAssumption DEF PosixInv
  <2>4. CASE meta # t
    <3>1. meta' = Broken
      BY <1>9, <2>4 DEF Unlocks, WriteUnlock
    <3> QED BY <3>1, CCtorAssumption DEF PosixInv
  <2> QED BY <2>3, <2>4
<1> QED BY <1>5, <1>6, <1>7, <1>8, <1>9 DEF LockStep

\* What holds of the metadata lock, for each kind of lock.
LockInv == /\ MetaLock = "critical" => CriticalInv
           /\ MetaLock # "critical" => PosixInv

\* The metadata lock and the frames that have taken it agree.
THEOREM LockInvariance == Spec => [](CCtorInv /\ LockInv)
<1>1. Init => LockInv
  <2> SUFFICES ASSUME Init PROVE CriticalInv /\ PosixInv
    BY DEF LockInv
  <2>1. \A t \in Threads : stack[t] = <<>> /\ Len(stack[t]) = 0 /\ 1 .. Len(stack[t]) = {}
    BY DEF Init
  <2>2. CriticalInv
    BY <2>1, CCtorAssumption DEF Init, CriticalInv, MetaOK, AllGuarded, Holds
  <2>3. PosixInv
    BY <2>1, CCtorAssumption DEF Init, PosixInv, At
  <2> QED BY <2>2, <2>3
<1>2. CCtorInv /\ LockInv /\ [Next]_vars /\ CCtorInv' => LockInv'
  <2> SUFFICES ASSUME CCtorInv, LockInv, [Next]_vars, CCtorInv' PROVE LockInv'
    OBVIOUS
  <2>1. CASE Next
    <3>1. PICK t \in Threads : LockStep(t)
      BY <2>1, EveryStep
    <3>2. MetaLock = "critical" => CriticalInv'
      BY <3>1, CriticalStep DEF LockInv
    <3>3. MetaLock # "critical" => PosixInv'
      BY <3>1, PosixStep DEF LockInv
    <3> QED BY <3>2, <3>3 DEF LockInv
  <2>2. CASE UNCHANGED vars
    <3>1. stack' = stack /\ meta' = meta /\ depth' = depth /\ entry' = entry
      BY <2>2 DEF vars, lockVars
    <3>2. CriticalInv => CriticalInv'
      BY <3>1 DEF CriticalInv, MetaOK, AllGuarded, Holds, Guarded
    <3>3. PosixInv => PosixInv'
      BY <3>1 DEF PosixInv, At, Top, Guarded
    <3> QED BY <3>2, <3>3 DEF LockInv
  <2> QED BY <2>1, <2>2
<1>3. Spec => []CCtorInv
  BY Invariance
<1> QED BY <1>1, <1>2, <1>3, PTL DEF Spec

-----------------------------------------------------------------------------
(* What follows. *)

\* Every variable has its type, whatever the metadata lock is.
THEOREM TypeCorrect == Spec => []TypeOK
<1>1. ASSUME CCtorInv PROVE TypeOK
  <2> USE <1>1 DEF CCtorInv
  <2>1. ASSUME NEW m \in Methods
        PROVE  /\ entry[m].state \in {"none", "linked", "unlinked", "freed"}
               /\ entry[m].owner \in Threads \cup {NoThread}
               /\ entry[m].waiting \in Nat /\ entry[m].sem \in Nat
               /\ Range(entry[m].classes) \subseteq Classes
    <3>1. entry[m] \in EntryType
      BY DEF Types
    <3>2. entry[m].classes \in Seq(Classes)
      BY <3>1 DEF EntryType
    <3>3. Range(entry[m].classes) \subseteq Classes
      BY <3>2 DEF Range
    <3> QED BY <3>1, <3>3 DEF EntryType
  <2>2. ASSUME NEW t \in Threads, NEW f \in Frames(t)
        PROVE  /\ f.m \in Methods \cup {NoMethod} /\ f.pc \in Pcs
               /\ f.cls \in Classes \cup {NoClass}
               /\ f.own \in BOOLEAN /\ f.ok \in BOOLEAN
               /\ Range(f.q) \subseteq Classes
    <3>1. stack[t] \in Seq(FrameType)
      BY DEF Types
    <3>2. f \in FrameType
      BY <3>1 DEF Frames, Range
    <3>3. f.q \in Seq(Classes)
      BY <3>2 DEF FrameType
    <3>4. Range(f.q) \subseteq Classes
      BY <3>3 DEF Range
    <3> QED BY <3>2, <3>4 DEF FrameType
  <2>3. /\ meta \in Threads \cup {NoThread, Broken} /\ depth \in Nat
        /\ holder \in Threads \cup {NoThread}
        /\ running \subseteq Classes /\ once \subseteq Classes
        /\ converted \subseteq Methods
        /\ calls \in [Threads -> 0 .. MaxCalls]
    BY DEF Types
  <2> QED BY <2>1, <2>2, <2>3 DEF TypeOK
<1>2. CCtorInv => TypeOK
  BY <1>1
<1> QED BY <1>2, Invariance, PTL

\* The frames of a stack, by position.
LEMMA FrameAt ==
    ASSUME Types, NEW t \in Threads, NEW f
    PROVE  f \in Frames(t) <=> \E i \in 1 .. Len(stack[t]) : f = stack[t][i]
<1>1. stack[t] \in Seq(FrameType)
  BY DEF Types
<1>2. DOMAIN stack[t] = 1 .. Len(stack[t])
  BY <1>1
<1> QED BY <1>2 DEF Frames, Range

\* Until the metadata lock is broken, HandleLockedMethod uses no entry that
\* was freed, and no classes of an owner that has gone on, while it has the
\* lock: an entry counts the threads that will use it, and the lock keeps
\* the entry of a thread that runs its classes.
THEOREM EntryOutlivesUse == Spec => []EntryAlive
<1>1. ASSUME CCtorInv, LockInv PROVE EntryAlive
  <2> USE <1>1 DEF CCtorInv
  <2> SUFFICES ASSUME meta # Broken, NEW m \in Methods
               PROVE  /\ entry[m].waiting = Cardinality({t \in Threads : \E f \in Frames(t) :
                                                            f.m = m /\ f.pc \in {"wait", "woken"}})
                      /\ \A t \in Threads : \A f \in Frames(t) :
                            f.m = m /\ (f.pc \in {"wait", "woken", "read"} \/ f \in Helping(t))
                               => entry[m].state \in {"linked", "unlinked"}
                      /\ \A t \in Threads : \A f \in Helping(t) :
                            f.m = m => \E g \in Frames(entry[m].owner) :
                                          g.m = m /\ g.pc \in {"enter", "run", "store"}
    BY DEF EntryAlive
  <2>1. EntryOK(m) /\ m # NoMethod
    BY CCtorAssumption DEF ConvertOK
  <2>2. {t \in Threads : \E f \in Frames(t) : f.m = m /\ f.pc \in {"wait", "woken"}} = InPc(m, {"wait", "woken"})
    BY FrameAt DEF InPc, Does
  <2>3. ASSUME NEW t \in Threads, NEW f \in Frames(t), f.m = m PROVE FrameOK(f, t)
    BY FrameAt DEF ConvertOK
  <2>4. ASSUME NEW t \in Threads, NEW f \in Frames(t), f.pc = "read" \/ f \in Helping(t)
        PROVE  Guarded(f, t)
    <3>1. PICK i \in 1 .. Len(stack[t]) : f = stack[t][i]
      BY FrameAt
    <3>2. CASE MetaLock = "critical"
      BY <3>1, <3>2 DEF LockInv, CriticalInv, AllGuarded
    <3>3. CASE MetaLock # "critical"
      <4>1. meta = t /\ f = Top(t)
        <5>1. CASE f \in Helping(t)
          BY <3>3, <5>1 DEF Helping
        <5>2. CASE f.pc = "read"
          <6>1. i = Len(stack[t]) /\ stack[t] # <<>>
            BY <3>1, <5>2, ReadsOnTop DEF Types
          <6>2. f = Top(t)
            BY <3>1, <6>1 DEF Top
          <6> QED BY <3>3, <5>2, <6>1, <6>2 DEF LockInv, PosixInv, At
        <5> QED BY <2>4, <5>1, <5>2
      <4> QED BY <3>3, <4>1 DEF LockInv, PosixInv
    <3> QED BY <3>2, <3>3
  <2>5. ASSUME NEW t \in Threads, NEW f \in Helping(t), f.m = m PROVE entry[m].state = "linked"
    BY <2>4, <2>5 DEF Helping, Guarded
  <2>6. ASSUME NEW t \in Threads, NEW f \in Frames(t), f.m = m,
               f.pc \in {"wait", "woken", "read"} \/ f \in Helping(t)
        PROVE  entry[m].state \in {"linked", "unlinked"}
    <3>1. CASE f.pc \in {"wait", "woken"}
      BY <2>1, <2>3, <2>6, <3>1 DEF FrameOK
    <3>2. CASE f.pc = "read"
      BY <2>4, <2>6, <3>2 DEF Guarded
    <3>3. CASE f \in Helping(t)
      BY <2>5, <2>6, <3>3
    <3> QED BY <2>6, <3>1, <3>2, <3>3
  <2>7. ASSUME NEW t \in Threads, NEW f \in Helping(t), f.m = m
        PROVE  \E g \in Frames(entry[m].owner) : g.m = m /\ g.pc \in {"enter", "run", "store"}
    <3>1. entry[m].state = "linked"
      BY <2>5, <2>7
    <3>2. PICK w \in Threads : w = entry[m].owner /\ Does(stack[w], m, Converting)
      <4>1. entry[m] \in EntryType
        BY DEF Types
      <4> QED BY <2>1, <3>1, <4>1 DEF EntryOK, EntryType
    <3>3. PICK i \in 1 .. Len(stack[w]) : stack[w][i].m = m /\ stack[w][i].pc \in Converting
      BY <3>2 DEF Does
    <3>4. stack[w][i] \in Frames(w)
      BY FrameAt
    <3> QED BY <3>2, <3>3, <3>4 DEF Converting
  <2> QED BY <2>1, <2>2, <2>6, <2>7 DEF EntryOK
<1>2. CCtorInv /\ LockInv => EntryAlive
  BY <1>1
<1> QED BY <1>2, LockInvariance, PTL

\* A class is flagged as running and not done exactly while its constructor
\* is on the stack of the owner of the manager's lock: no constructor runs on
\* two threads, or twice on one, and none again that has succeeded.
THEOREM OneConstructorRuns == Spec => []RunningIsExecuting
<1>1. ASSUME CCtorInv PROVE RunningIsExecuting
  <2> USE <1>1 DEF CCtorInv
  <2> SUFFICES ASSUME NEW c \in Classes
               PROVE  /\ c \in running \ once <=>
                            \E t \in Threads : holder = t /\ \E f \in Frames(t) : f.cls = c
                      /\ \A t \in Threads : t # holder => \A f \in Frames(t) : f.cls # c
                      /\ \A t \in Threads :
                            Cardinality({i \in DOMAIN stack[t] : stack[t][i].cls = c}) <= 1
    BY DEF RunningIsExecuting
  <2>1. c # NoClass
    BY CCtorAssumption
  <2>2. ASSUME c \in running \ once
        PROVE  \E t \in Threads : holder = t /\ \E f \in Frames(t) : f.cls = c
    <3>1. holder \in Threads /\ Constructs(stack[holder], c)
      BY <2>2 DEF ClassOK, Types
    <3>2. PICK i \in 1 .. Len(stack[holder]) : stack[holder][i].cls = c
      BY <3>1 DEF Constructs
    <3>3. stack[holder][i] \in Frames(holder)
      BY <3>1, FrameAt
    <3> QED BY <3>1, <3>2, <3>3
  <2>3. ASSUME NEW t \in Threads, NEW f \in Frames(t), f.cls = c
        PROVE  holder = t /\ c \in running \ once
    <3>1. PICK i \in 1 .. Len(stack[t]) : f = stack[t][i]
      BY FrameAt
    <3>2. stack[t][i].cls # NoClass
      BY <2>1, <2>3, <3>1
    <3>3. holder = t
      BY <3>2, ClassFrame
    <3>4. stack[t][i].cls \in running \ once
      BY <3>2 DEF ClassOK
    <3> QED BY <2>3, <3>1, <3>3, <3>4
  <2>4. ASSUME NEW t \in Threads PROVE Cardinality({i \in DOMAIN stack[t] : stack[t][i].cls = c}) <= 1
    <3>1. PICK S : S = {i \in DOMAIN stack[t] : stack[t][i].cls = c}
      OBVIOUS
    <3>2. DOMAIN stack[t] = 1 .. Len(stack[t])
      <4>1. stack[t] \in Seq(FrameType)
        BY DEF Types
      <4> QED BY <4>1
    <3>3. \A i, j \in S : i = j
      BY <2>1, <3>1, <3>2 DEF ClassOK
    <3>4. S = {} \/ \E x : S = {x}
      <4>1. ASSUME NEW x \in S PROVE S = {x}
        BY <3>3
      <4> QED BY <4>1
    <3>5. S = {} => Cardinality(S) = 0
      BY FS_EmptySet
    <3>6. (\E x : S = {x}) => Cardinality(S) = 1
      BY FS_Singleton
    <3>7. Cardinality(S) <= 1
      BY <3>4, <3>5, <3>6
    <3> QED BY <3>1, <3>7
  <2> QED BY <2>2, <2>3, <2>4
<1>2. CCtorInv => RunningIsExecuting
  BY <1>1
<1> QED BY <1>2, Invariance, PTL

\* When ILCCtorMgr_RunCCtors, on the thread that took the lock, comes back
\* without an exception, every class it was asked for is initialised.
THEOREM ClassesAreInitialised == Spec => []InitialisedOnReturn
<1>1. ASSUME CCtorInv PROVE InitialisedOnReturn
  <2> USE <1>1 DEF CCtorInv
  <2> SUFFICES ASSUME NEW t \in Threads, NEW f \in Frames(t), f.own, f.ok, f.pc \in {"store", "body"}
               PROVE  Range(entry[f.m].classes) \subseteq once
    BY DEF InitialisedOnReturn
  <2>1. PICK i \in 1 .. Len(stack[t]) : f = stack[t][i]
    BY FrameAt
  <2>2. FrameOK(f, t)
    BY <2>1 DEF ConvertOK
  <2>3. f.m # NoMethod
    BY <2>1 DEF Shapes, Shape
  <2> QED BY <2>2, <2>3 DEF FrameOK
<1>2. CCtorInv => InitialisedOnReturn
  BY <1>1
<1> QED BY <1>2, Invariance, PTL

\* A thread that has the metadata can go on, on a rwlock and in a critical
\* section.
LEMMA WriterGoesOn ==
    ASSUME MetaLock # "mutex", CCtorInv, LockInv, NEW t \in Threads, meta = t
    PROVE  stack[t] # <<>> /\ ~Blocked(t)
<1> USE DEF CCtorInv
<1>1. CanReadLock(t)
  BY DEF CanReadLock
<1>2. CASE MetaLock # "critical"
  <2>1. stack[t] # <<>> /\ Top(t).pc \in Holding
    BY <1>2 DEF LockInv, PosixInv
  <2> QED BY <1>1, <2>1 DEF Blocked, At, Holding
<1>3. CASE MetaLock = "critical"
  <2>1. PICK i \in 1 .. Len(stack[t]) : stack[t][i].pc \in Holding
    BY <1>3, CCtorAssumption DEF LockInv, CriticalInv, MetaOK, Holds
  <2>2. stack[t] # <<>>
    BY <2>1
  <2>3. PICK n \in Nat : n = Len(stack[t]) /\ n > 0 /\ Top(t) = stack[t][n]
    BY <2>2, TopFrame
  <2>4. CanLock(t)
    BY <1>3 DEF CanLock
  <2>5. i < n => holder = t
    <3>1. i < n => stack[t][i].pc \in Constructing
      BY <2>1, <2>3 DEF Shapes, Shape, Holding
    <3> QED BY <3>1 DEF HolderOK, Manager
  <2>6. Top(t).pc \in {"wait", "enter"} => i < n
    BY <2>1, <2>3 DEF Holding
  <2>7. Top(t).pc = "wait" => holder # t
    BY <2>3 DEF HolderOK, Manager
  <2> QED BY <1>1, <2>2, <2>4, <2>5, <2>6, <2>7 DEF Blocked, At
<1> QED BY <1>2, <1>3

\* Threads that initialise classes which need one another never wait for each
\* other: while a call is under way some thread can go on, until the
\* metadata lock is broken. Where the lock is a mutex this fails.
THEOREM SomebodyGoesOn == MetaLock # "mutex" => (Spec => []NobodyStuck)
<1>1. ASSUME MetaLock # "mutex", CCtorInv, LockInv PROVE NobodyStuck
  <2> USE <1>1 DEF CCtorInv
  <2> SUFFICES ASSUME meta # Broken, NEW t0 \in Threads, stack[t0] # <<>>,
                      \A t \in Threads : stack[t] # <<>> => Blocked(t)
               PROVE  FALSE
    BY DEF NobodyStuck
  <2>1. meta = NoThread
    BY WriterGoesOn DEF Types
  <2>2. \A t \in Threads : CanLock(t) /\ CanReadLock(t)
    BY <2>1 DEF CanLock, CanReadLock
  <2>3. ASSUME NEW t \in Threads, stack[t] # <<>>
        PROVE  \/ Top(t).pc = "wait" /\ entry[Top(t).m].sem = 0 /\ holder # t
               \/ Top(t).pc = "enter" /\ holder \notin {NoThread, t}
    <3>1. Top(t).pc \in {"wait", "woken"} => holder # t
      BY <2>3, TopFacts
    <3> QED BY <2>1, <2>2, <2>3, <3>1 DEF Blocked, At
  <2>4. holder = NoThread
    <3>1. ASSUME holder # NoThread PROVE FALSE
      <4>1. PICK h \in Threads : h = holder /\ Took(stack[h])
        BY <3>1 DEF HolderOK, Types
      <4>2. stack[h] # <<>>
        BY <4>1 DEF Took
      <4> QED BY <2>3, <4>1, <4>2
    <3> QED BY <3>1
  <2>5. \A t \in Threads : stack[t] # <<>> => Top(t).pc = "wait" /\ entry[Top(t).m].sem = 0
    BY <2>3, <2>4
  <2>6. PICK f, m : f = Top(t0) /\ m = f.m
    OBVIOUS
  <2>7. f.pc = "wait" /\ m \in Methods /\ m # NoMethod /\ entry[m].state \in {"linked", "unlinked"} /\ entry[m].sem = 0
    <3>1. f \in FrameType /\ FrameOK(f, t0) /\ f.pc = "wait" /\ f.m # NoMethod
      BY <2>5, <2>6, TopFacts
    <3> QED BY <2>5, <2>6, <3>1 DEF FrameType, FrameOK
  <2>8. EntryOK(m)
    BY <2>7 DEF ConvertOK
  <2>9. CASE entry[m].state = "unlinked"
    <3>1. {"wait"} \subseteq {"wait", "woken", "read"} /\ f.pc \in {"wait"}
      BY <2>7
    <3>2. t0 \in InPc(m, {"wait"})
      BY <2>6, <3>1, WaitsOnce DEF InPc
    <3>3. Cardinality(InPc(m, {"wait"})) # 0
      BY <3>2, InPcFinite, FS_EmptySet
    <3> QED BY <2>7, <2>8, <2>9, <3>3 DEF EntryOK
  <2>10. CASE entry[m].state = "linked"
    <3>1. PICK w \in Threads : w = entry[m].owner /\ Does(stack[w], m, Converting)
      <4>1. entry[m] \in EntryType
        BY <2>7 DEF Types
      <4> QED BY <2>8, <2>10, <4>1 DEF EntryOK, EntryType
    <3>2. PICK i \in 1 .. Len(stack[w]) : stack[w][i].pc \in Converting
      BY <3>1 DEF Does
    <3>3. stack[w] # <<>>
      BY <3>2
    <3>4. PICK n \in Nat : n = Len(stack[w]) /\ n > 0 /\ Top(w) = stack[w][n]
      BY <3>3, TopFrame
    <3>5. i < n
      BY <2>5, <3>2, <3>3, <3>4 DEF Converting
    <3>6. stack[w][i].pc \in Constructing
      BY <3>2, <3>4, <3>5 DEF Shapes, Shape, Converting
    <3>7. holder = w
      BY <3>6 DEF HolderOK, Manager
    <3> QED BY <2>4, <3>7, CCtorAssumption
  <2> QED BY <2>7, <2>9, <2>10
<1>2. SUFFICES ASSUME MetaLock # "mutex" PROVE Spec => []NobodyStuck
  OBVIOUS
<1>3. CCtorInv /\ LockInv => NobodyStuck
  BY <1>1, <1>2
<1> QED BY <1>3, LockInvariance, PTL

\* "We need the metadata write lock": in a critical section a thread that
\* runs the classes of a locked method inside ConvertMethod has the lock
\* until ConvertMethod gives it up.
THEOREM CriticalSectionKept == MetaLock = "critical" => (Spec => []ConverterHasMetadata)
<1>1. SUFFICES ASSUME MetaLock = "critical" PROVE Spec => []ConverterHasMetadata
  OBVIOUS
<1>2. CCtorInv /\ LockInv => ConverterHasMetadata
  <2> SUFFICES ASSUME CCtorInv, LockInv, NEW t \in Threads, NEW f \in Frames(t), f.pc = "help" PROVE meta = t
    BY DEF ConverterHasMetadata
  <2>1. PICK i \in 1 .. Len(stack[t]) : f = stack[t][i]
    BY FrameAt DEF CCtorInv
  <2>2. i \in Holds(stack[t])
    BY <2>1 DEF Holds, Holding
  <2> QED BY <1>1, <2>2 DEF LockInv, CriticalInv, MetaOK
<1> QED BY <1>2, LockInvariance, PTL

=============================================================================

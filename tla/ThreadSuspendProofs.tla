------------------------- MODULE ThreadSuspendProofs -------------------------
(***************************************************************************)
(* Proofs about suspend and resume, for any number of controllers, of      *)
(* calls and of things the target does. The argument: a controller that is *)
(* inside a call has entered the target's monitor, so that there is one at *)
(* a time; and for each place where it waits, the semaphores, the handler, *)
(* the locks held and what the target does next are tied to each other.    *)
(***************************************************************************)
EXTENDS ThreadSuspend, SequenceTheorems, TLAPS

-----------------------------------------------------------------------------
(* The inductive invariant: what the target may have to do. *)

\* The operations of the target.
Op == {"lock", "unlock", "enterWait", "leaveWaitState", "anyRequest", "leaveWait",
       "clearWait", "honour", "beginNative", "barrier", "state", "suspend",
       "endNative", "enterMonitor", "unregister", "suspendNow", "ack", "sleep"}

\* What is left of a call when the target may suspend itself in it. own: the
\* target has entered its monitor, which it does before it ends.
Rest(own) == IF own THEN {<<"unregister">>}
                    ELSE {<<>>, <<"endNative">>, <<"barrier", "endNative">>}

\* Once it has let go of its last lock.
Afterwards(own) == Rest(own) \cup {<<"sleep">> \o r : r \in Rest(own)}

\* No lock is held, and no controller has asked for anything.
Plain(own) ==
    IF own
    THEN {<<"leaveWait", "unregister">>, <<"lock", "honour", "unregister">>,
          <<"clearWait", "unregister">>, <<"unregister">>}
    ELSE {<<>>, Works, Sleeps, CallsNative, SuspendsItself, Ends,
          <<"leaveWaitState">>, <<"anyRequest">>, <<"lock", "honour">>,
          <<"barrier", "endNative">>, <<"endNative">>, <<"state", "endNative">>,
          <<"lock", "suspend", "endNative">>, <<"lock", "suspend", "barrier", "endNative">>,
          <<"enterMonitor", "leaveWait", "unregister">>}

\* The target suspends itself next, with one lock held.
Asking(s, own) == \E r \in Rest(own) : s = <<"honour">> \o r \/ s = <<"suspend">> \o r

\* It lets go of its lock next, and may then sleep.
Unlocking(s, own) == \E r \in Afterwards(own) : s = <<"unlock">> \o r
UnlockSleep(s, own) == \E r \in Rest(own) : s = <<"unlock">> \o (<<"sleep">> \o r)
Sleeping(s, own) == \E r \in Afterwards(own) : s = <<"sleep">> \o r

\* It does what a controller asked it to do once it holds no lock.
AskedLock(s, own) ==
    \E r \in Afterwards(own) : s = <<"lock", "suspendNow", "unlock", "ack", "sleep">> \o r
AskedSuspend(s, own) ==
    \E r \in Afterwards(own) : s = <<"suspendNow", "unlock", "ack", "sleep">> \o r
AskedUnlock(s, own) == \E r \in Afterwards(own) : s = <<"unlock", "ack", "sleep">> \o r
AskedAck(s, own) == \E r \in Afterwards(own) : s = <<"ack", "sleep">> \o r

Own == monitor.owner = Target

\* Nobody waits for the target to suspend itself.
Normal ==
    \/ locksHeld = 0 /\ (todo \in Plain(Own) \/ Sleeping(todo, Own))
    \/ locksHeld = 1 /\ (Asking(todo, Own) \/ Unlocking(todo, Own))

\* It has been told to, and will.
Promised ==
    \/ locksHeld = 1 /\ (Asking(todo, Own) \/ Unlocking(todo, Own) \/ AskedSuspend(todo, Own))
    \/ locksHeld = 0 /\ AskedLock(todo, Own)

SleepSoon == Sleeping(todo, Own) \/ UnlockSleep(todo, Own)

StopSoon == UnlockSleep(todo, Own) \/ AskedLock(todo, Own) \/ AskedSuspend(todo, Own)

-----------------------------------------------------------------------------
(* The inductive invariant: the places where a controller waits. *)

Resting ==
    /\ lock = Nobody /\ suspendAck = 0 /\ resumeAck = 0
    /\ ~resumeSent /\ ~suspendRequested /\ Normal
    /\ handler \in {"none", "asleep"}
    /\ handler = "asleep" => "suspended" \in pub /\ locksHeld = 0
    /\ "suspended" \in pub => handler = "asleep" \/ SleepSoon

WaitsAck(c) ==
    /\ lock = c /\ resumeAck = 0 /\ ~resumeSent /\ ~suspendRequested /\ Normal
    /\ "suspended" \in pub
    /\ \/ handler = "pending" /\ suspendAck = 0
       \/ handler = "asleep" /\ suspendAck = 1

WaitsResumed(c) ==
    /\ lock = c /\ suspendAck = 0 /\ suspendRequested /\ Promised
    /\ "suspended" \notin pub
    /\ \/ handler = "asleep" /\ resumeSent /\ resumeAck = 0
       \/ handler = "none" /\ ~resumeSent /\ resumeAck = 1

WaitsSuspended ==
    /\ lock = Nobody /\ resumeAck = 0 /\ ~resumeSent /\ handler = "none"
    /\ \/ /\ suspendAck = 0 /\ suspendRequested /\ Promised
          /\ "suspended" \in pub => StopSoon
       \/ /\ suspendAck = 0 /\ ~suspendRequested /\ "suspended" \in pub
          /\ \/ locksHeld = 1 /\ AskedUnlock(todo, Own)
             \/ locksHeld = 0 /\ AskedAck(todo, Own)
       \/ /\ suspendAck = 1 /\ ~suspendRequested /\ "suspended" \in pub
          /\ locksHeld = 0 /\ Sleeping(todo, Own)

WaitsRunning(c) ==
    /\ lock = c /\ suspendAck = 0 /\ ~suspendRequested /\ Normal
    /\ "suspended" \notin pub
    /\ \/ /\ resumeSent /\ resumeAck = 0
          /\ \/ handler = "asleep" /\ locksHeld = 0
             \/ handler = "none" /\ SleepSoon
       \/ ~resumeSent /\ resumeAck = 1 /\ handler = "none"

Outside == {"idle", "suspend", "setSafepoint", "relock", "resume"}
PCs == Outside \cup {"waitAck", "waitResumed", "waitSuspended", "waitRunning"}

Protocol ==
    /\ (\A c \in Controllers : pc[c] \in Outside) => Resting
    /\ \A c \in Controllers :
          /\ pc[c] = "waitAck" => WaitsAck(c)
          /\ pc[c] = "waitResumed" => WaitsResumed(c)
          /\ pc[c] = "waitSuspended" => WaitsSuspended
          /\ pc[c] = "waitRunning" => WaitsRunning(c)

\* A controller inside a call has the target's monitor.
OneInside ==
    /\ pc \in [Controllers -> PCs]
    /\ monitor \in [owner : Controllers \cup {Target, Nobody}, count : Nat]
    /\ monitor.owner = Nobody <=> monitor.count = 0
    /\ Own => monitor.count = 1
    /\ \A c \in Controllers : pc[c] # "idle" => monitor.owner = c

Types ==
    /\ pub \subseteq {"suspended", "self", "requested"}
    /\ {wsj, suspendRequested, resumeSent, managed, safepoint} \subseteq BOOLEAN
    /\ life \in {"registered", "running", "destroyed"}
    /\ life = "registered" => todo = <<>> /\ handler = "none"

SuspendInv == OneInside /\ Types /\ Protocol

-----------------------------------------------------------------------------
(* What the target does next. *)

\* Short sequences put together.
LEMMA Concats ==
    ASSUME NEW a, NEW b, NEW c
    PROVE  <<a>> \o <<b>> = <<a, b>> /\ <<a>> \o <<b, c>> = <<a, b, c>>
           /\ <<a, b>> \o <<c>> = <<a, b, c>>
<1>1. <<a>> \o <<b>> = <<a, b>>
  <2> DEFINE s == <<a>> \o <<b>>
             t == <<a, b>>
  <2>1. s \in Seq({a, b}) /\ t \in Seq({a, b}) /\ Len(s) = 2 /\ Len(t) = 2
    OBVIOUS
  <2>2. s[1] = t[1] /\ s[2] = t[2]
    OBVIOUS
  <2> HIDE DEF s, t
  <2>3. s = t
    BY <2>1, <2>2, SeqEqual
  <2> QED BY <2>3 DEF s, t
<1>2. <<a>> \o <<b, c>> = <<a, b, c>>
  <2> DEFINE s == <<a>> \o <<b, c>>
             t == <<a, b, c>>
  <2>1. s \in Seq({a, b, c}) /\ t \in Seq({a, b, c}) /\ Len(s) = 3 /\ Len(t) = 3
    OBVIOUS
  <2>2. s[1] = t[1] /\ s[2] = t[2] /\ s[3] = t[3]
    OBVIOUS
  <2> HIDE DEF s, t
  <2>3. s = t
    BY <2>1, <2>2, SeqEqual
  <2> QED BY <2>3 DEF s, t
<1>3. <<a, b>> \o <<c>> = <<a, b, c>>
  <2> DEFINE s == <<a, b>> \o <<c>>
             t == <<a, b, c>>
  <2>1. s \in Seq({a, b, c}) /\ t \in Seq({a, b, c}) /\ Len(s) = 3 /\ Len(t) = 3
    OBVIOUS
  <2>2. s[1] = t[1] /\ s[2] = t[2] /\ s[3] = t[3]
    OBVIOUS
  <2> HIDE DEF s, t
  <2>3. s = t
    BY <2>1, <2>2, SeqEqual
  <2> QED BY <2>3 DEF s, t
<1> QED BY <1>1, <1>2, <1>3

\* A sequence with something put before it.
LEMMA Prefix ==
    ASSUME NEW p \in Seq(Op), p # <<>>, NEW r \in Seq(Op)
    PROVE  /\ p \o r \in Seq(Op) /\ p \o r # <<>>
           /\ Head(p \o r) = Head(p) /\ Tail(p \o r) = Tail(p) \o r
<1>1. p \o r \in Seq(Op) /\ p \o r # <<>>
  OBVIOUS
<1>2. Head(p \o r) = Head(p) /\ Tail(p \o r) = Tail(p) \o r
  BY <1>1, HeadTailProperties, SeqEqual
<1> QED BY <1>1, <1>2

\* The shapes of what the target has left are sequences of operations.
LEMMA RestSeq ==
    ASSUME NEW own \in BOOLEAN
    PROVE  /\ Rest(own) \subseteq Seq(Op) /\ Afterwards(own) \subseteq Seq(Op)
           /\ Rest(own) \subseteq Afterwards(own) /\ Rest(own) \subseteq Plain(own)
           /\ \A r \in Rest(own) : <<"sleep">> \o r \in Afterwards(own)
           /\ \A r \in Afterwards(own) : r \in Plain(own) \/ Sleeping(r, own)
<1>1. Rest(own) \subseteq Seq(Op)
  <2>1. /\ <<"unregister">> \in Seq(Op) /\ <<>> \in Seq(Op)
        /\ <<"endNative">> \in Seq(Op) /\ <<"barrier", "endNative">> \in Seq(Op)
    BY DEF Op
  <2> QED BY <2>1 DEF Rest
<1>2. Rest(own) \subseteq Plain(own)
  BY DEF Rest, Plain
<1>3. Afterwards(own) \subseteq Seq(Op)
  <2>1. <<"sleep">> \in Seq(Op)
    BY DEF Op
  <2> QED BY <1>1, <2>1 DEF Afterwards
<1> QED BY <1>1, <1>2, <1>3 DEF Afterwards, Sleeping

\* The next operation, and what is left after it.
LEMMA NextOps ==
    ASSUME NEW s, NEW own \in BOOLEAN
    PROVE  /\ Asking(s, own) => /\ s \in Seq(Op) /\ s # <<>> /\ Head(s) \in {"honour", "suspend"}
                                /\ Tail(s) \in Rest(own)
           /\ Unlocking(s, own) => /\ s \in Seq(Op) /\ s # <<>> /\ Head(s) = "unlock"
                                   /\ Tail(s) \in Afterwards(own)
           /\ UnlockSleep(s, own) => Unlocking(s, own) /\ Sleeping(Tail(s), own)
           /\ Sleeping(s, own) => /\ s \in Seq(Op) /\ s # <<>> /\ Head(s) = "sleep"
                                  /\ Tail(s) \in Afterwards(own)
           /\ AskedLock(s, own) => /\ s \in Seq(Op) /\ s # <<>> /\ Head(s) = "lock"
                                   /\ AskedSuspend(Tail(s), own)
           /\ AskedSuspend(s, own) => /\ s \in Seq(Op) /\ s # <<>> /\ Head(s) = "suspendNow"
                                      /\ AskedUnlock(Tail(s), own)
           /\ AskedUnlock(s, own) => /\ s \in Seq(Op) /\ s # <<>> /\ Head(s) = "unlock"
                                     /\ AskedAck(Tail(s), own)
           /\ AskedAck(s, own) => /\ s \in Seq(Op) /\ s # <<>> /\ Head(s) = "ack"
                                  /\ Sleeping(Tail(s), own)
<1>r. /\ Rest(own) \subseteq Seq(Op) /\ Afterwards(own) \subseteq Seq(Op)
      /\ Rest(own) \subseteq Afterwards(own)
      /\ \A r \in Rest(own) : <<"sleep">> \o r \in Afterwards(own)
  BY RestSeq
<1>o. /\ "lock" \in Op /\ "suspendNow" \in Op /\ "unlock" \in Op /\ "ack" \in Op
      /\ "sleep" \in Op /\ "honour" \in Op /\ "suspend" \in Op
  BY DEF Op
<1>1. ASSUME NEW op \in Op, NEW r \in Seq(Op)
      PROVE  /\ <<op>> \o r \in Seq(Op) /\ <<op>> \o r # <<>>
             /\ Head(<<op>> \o r) = op /\ Tail(<<op>> \o r) = r
  <2>1. /\ <<op>> \in Seq(Op) /\ <<op>> # <<>> /\ Head(<<op>>) = op /\ Tail(<<op>>) = <<>>
        /\ <<>> \o r = r
    OBVIOUS
  <2> QED BY <2>1, Prefix
<1>2. Asking(s, own) => /\ s \in Seq(Op) /\ s # <<>> /\ Head(s) \in {"honour", "suspend"}
                        /\ Tail(s) \in Rest(own)
  <2> SUFFICES ASSUME NEW r \in Rest(own), NEW op \in {"honour", "suspend"}, s = <<op>> \o r
               PROVE  s \in Seq(Op) /\ s # <<>> /\ Head(s) = op /\ Tail(s) = r
    BY DEF Asking
  <2>1. op \in Op /\ r \in Seq(Op)
    BY <1>o, <1>r
  <2> QED BY <2>1, <1>1
<1>3. ASSUME NEW op \in {"unlock", "sleep"}, NEW r \in Afterwards(own), s = <<op>> \o r
      PROVE  s \in Seq(Op) /\ s # <<>> /\ Head(s) = op /\ Tail(s) = r
  <2>1. op \in Op /\ r \in Seq(Op)
    BY <1>o, <1>r
  <2> QED BY <2>1, <1>1, <1>3
<1>4. UnlockSleep(s, own) => Unlocking(s, own) /\ Sleeping(Tail(s), own)
  <2> SUFFICES ASSUME NEW r \in Rest(own), s = <<"unlock">> \o (<<"sleep">> \o r)
               PROVE  Unlocking(s, own) /\ Sleeping(Tail(s), own)
    BY DEF UnlockSleep
  <2>1. <<"sleep">> \o r \in Afterwards(own) /\ r \in Afterwards(own)
    BY <1>r
  <2>2. Tail(s) = <<"sleep">> \o r
    BY <1>3, <2>1
  <2> QED BY <2>1, <2>2 DEF Unlocking, Sleeping
<1>5. /\ Unlocking(s, own) => /\ s \in Seq(Op) /\ s # <<>> /\ Head(s) = "unlock"
                              /\ Tail(s) \in Afterwards(own)
      /\ Sleeping(s, own) => /\ s \in Seq(Op) /\ s # <<>> /\ Head(s) = "sleep"
                             /\ Tail(s) \in Afterwards(own)
  BY <1>3 DEF Unlocking, Sleeping
<1>6. ASSUME NEW p \in Seq(Op), p # <<>>, NEW r \in Afterwards(own), s = p \o r
      PROVE  /\ s \in Seq(Op) /\ s # <<>> /\ Head(s) = Head(p) /\ Tail(s) = Tail(p) \o r
  BY <1>6, <1>r, Prefix
<1>7. AskedLock(s, own) => /\ s \in Seq(Op) /\ s # <<>> /\ Head(s) = "lock"
                           /\ AskedSuspend(Tail(s), own)
  <2> DEFINE p == <<"lock", "suspendNow", "unlock", "ack", "sleep">>
  <2>1. /\ p \in Seq(Op) /\ p # <<>> /\ Head(p) = "lock"
        /\ Tail(p) = <<"suspendNow", "unlock", "ack", "sleep">>
    BY <1>o
  <2> QED BY <1>6, <2>1 DEF AskedLock, AskedSuspend
<1>8. AskedSuspend(s, own) => /\ s \in Seq(Op) /\ s # <<>> /\ Head(s) = "suspendNow"
                              /\ AskedUnlock(Tail(s), own)
  <2> DEFINE p == <<"suspendNow", "unlock", "ack", "sleep">>
  <2>1. /\ p \in Seq(Op) /\ p # <<>> /\ Head(p) = "suspendNow"
        /\ Tail(p) = <<"unlock", "ack", "sleep">>
    BY <1>o
  <2> QED BY <1>6, <2>1 DEF AskedSuspend, AskedUnlock
<1>9. AskedUnlock(s, own) => /\ s \in Seq(Op) /\ s # <<>> /\ Head(s) = "unlock"
                             /\ AskedAck(Tail(s), own)
  <2> DEFINE p == <<"unlock", "ack", "sleep">>
  <2>1. /\ p \in Seq(Op) /\ p # <<>> /\ Head(p) = "unlock" /\ Tail(p) = <<"ack", "sleep">>
    BY <1>o
  <2> QED BY <1>6, <2>1 DEF AskedUnlock, AskedAck
<1>10. AskedAck(s, own) => /\ s \in Seq(Op) /\ s # <<>> /\ Head(s) = "ack"
                           /\ Sleeping(Tail(s), own)
  <2> DEFINE p == <<"ack", "sleep">>
  <2>1. /\ p \in Seq(Op) /\ p # <<>> /\ Head(p) = "ack" /\ Tail(p) = <<"sleep">>
    BY <1>o
  <2> QED BY <1>6, <2>1 DEF AskedAck, Sleeping
<1> QED BY <1>2, <1>4, <1>5, <1>7, <1>8, <1>9, <1>10

\* What a plain piece of work begins with, and what is left of it then.
LEMMA PlainOps ==
    ASSUME NEW own \in BOOLEAN, NEW s \in Plain(own), s # <<>>
    PROVE  /\ s \in Seq(Op)
           /\ Head(s) \in {"lock", "enterWait", "clearWait", "beginNative", "endNative",
                           "leaveWaitState", "anyRequest", "leaveWait", "barrier", "state",
                           "enterMonitor", "unregister"}
           /\ Head(s) = "lock" => Asking(Tail(s), own) \/ Unlocking(Tail(s), own)
           /\ Head(s) \in {"enterWait", "clearWait", "beginNative", "endNative", "anyRequest",
                           "barrier", "state"} => Tail(s) \in Plain(own)
           /\ Head(s) = "leaveWaitState" => <<"anyRequest">> \o Tail(s) \in Plain(own)
           /\ Head(s) = "anyRequest" => <<"lock", "honour">> \o Tail(s) \in Plain(own)
           /\ Head(s) = "leaveWait" => /\ <<"lock", "honour">> \o Tail(s) \in Plain(own)
                                       /\ <<"clearWait">> \o Tail(s) \in Plain(own)
           /\ Head(s) = "barrier" => <<"state">> \o Tail(s) \in Plain(own)
           /\ Head(s) = "state" => <<"lock", "suspend">> \o Tail(s) \in Plain(own)
           /\ Head(s) = "enterMonitor" => ~own /\ Tail(s) \in Plain(TRUE)
           /\ Head(s) = "unregister" => own /\ Tail(s) = <<>>
<1> USE DEF Plain, Works, Sleeps, CallsNative, SuspendsItself, Ends
<1>a. /\ <<"honour">> = <<"honour">> \o <<>> /\ <<"unlock">> = <<"unlock">> \o <<>>
      /\ <<"lock", "honour">> \o <<>> = <<"lock", "honour">>
      /\ <<"anyRequest">> \o <<>> = <<"anyRequest">>
  OBVIOUS
<1>b. /\ <<"lock", "honour">> \o <<"unregister">> = <<"lock", "honour", "unregister">>
      /\ <<"clearWait">> \o <<"unregister">> = <<"clearWait", "unregister">>
      /\ <<"honour">> \o <<"unregister">> = <<"honour", "unregister">>
      /\ <<"state">> \o <<"endNative">> = <<"state", "endNative">>
      /\ <<"lock", "suspend">> \o <<"endNative">> = <<"lock", "suspend", "endNative">>
      /\ <<"suspend">> \o <<"endNative">> = <<"suspend", "endNative">>
      /\ <<"suspend">> \o <<"barrier", "endNative">> = <<"suspend", "barrier", "endNative">>
  BY Concats
<1>2. CASE own
  <2>1. CASE s = <<"leaveWait", "unregister">>
    <3>1. s \in Seq(Op) /\ Head(s) = "leaveWait" /\ Tail(s) = <<"unregister">>
      BY <2>1 DEF Op
    <3> QED BY <1>2, <3>1, <1>b
  <2>2. CASE s = <<"lock", "honour", "unregister">>
    <3>1. s \in Seq(Op) /\ Head(s) = "lock" /\ Tail(s) = <<"honour", "unregister">>
      BY <2>2 DEF Op
    <3>2. Asking(Tail(s), own)
      BY <1>2, <3>1, <1>b DEF Asking, Rest
    <3> QED BY <3>1, <3>2
  <2>3. CASE s = <<"clearWait", "unregister">>
    <3>1. s \in Seq(Op) /\ Head(s) = "clearWait" /\ Tail(s) = <<"unregister">>
      BY <2>3 DEF Op
    <3> QED BY <1>2, <3>1
  <2>4. CASE s = <<"unregister">>
    <3>1. s \in Seq(Op) /\ Head(s) = "unregister" /\ Tail(s) = <<>>
      BY <2>4 DEF Op
    <3> QED BY <1>2, <3>1
  <2> QED BY <1>2, <2>1, <2>2, <2>3, <2>4
<1>3. CASE ~own
  <2>1. CASE s = Works
    <3>1. s \in Seq(Op) /\ Head(s) = "lock" /\ Tail(s) = <<"unlock">>
      BY <2>1 DEF Op
    <3>2. Unlocking(Tail(s), own)
      BY <1>3, <1>a, <3>1 DEF Unlocking, Afterwards, Rest
    <3> QED BY <3>1, <3>2
  <2>2. CASE s = Sleeps
    <3>1. s \in Seq(Op) /\ Head(s) = "enterWait" /\ Tail(s) = <<"leaveWaitState">>
      BY <2>2 DEF Op
    <3> QED BY <1>3, <3>1
  <2>3. CASE s = CallsNative
    <3>1. s \in Seq(Op) /\ Head(s) = "beginNative" /\ Tail(s) = <<"barrier", "endNative">>
      BY <2>3 DEF Op
    <3> QED BY <1>3, <3>1
  <2>4. CASE s = SuspendsItself
    <3>1. s \in Seq(Op) /\ Head(s) = "beginNative" /\ Tail(s) = <<"lock", "suspend", "barrier", "endNative">>
      BY <2>4 DEF Op
    <3> QED BY <1>3, <3>1
  <2>5. CASE s = Ends
    <3>1. s \in Seq(Op) /\ Head(s) = "enterWait" /\ Tail(s) = <<"enterMonitor", "leaveWait", "unregister">>
      BY <2>5 DEF Op
    <3> QED BY <1>3, <3>1
  <2>6. CASE s = <<"leaveWaitState">>
    <3>1. s \in Seq(Op) /\ Head(s) = "leaveWaitState" /\ Tail(s) = <<>>
      BY <2>6 DEF Op
    <3> QED BY <1>3, <1>a, <3>1
  <2>7. CASE s = <<"anyRequest">>
    <3>1. s \in Seq(Op) /\ Head(s) = "anyRequest" /\ Tail(s) = <<>>
      BY <2>7 DEF Op
    <3> QED BY <1>3, <1>a, <3>1
  <2>8. CASE s = <<"lock", "honour">>
    <3>1. s \in Seq(Op) /\ Head(s) = "lock" /\ Tail(s) = <<"honour">>
      BY <2>8 DEF Op
    <3>2. Asking(Tail(s), own)
      BY <1>3, <1>a, <3>1 DEF Asking, Rest
    <3> QED BY <3>1, <3>2
  <2>9. CASE s = <<"barrier", "endNative">>
    <3>1. s \in Seq(Op) /\ Head(s) = "barrier" /\ Tail(s) = <<"endNative">>
      BY <2>9 DEF Op
    <3> QED BY <1>3, <3>1, <1>b
  <2>10. CASE s = <<"endNative">>
    <3>1. s \in Seq(Op) /\ Head(s) = "endNative" /\ Tail(s) = <<>>
      BY <2>10 DEF Op
    <3> QED BY <1>3, <3>1
  <2>11. CASE s = <<"state", "endNative">>
    <3>1. s \in Seq(Op) /\ Head(s) = "state" /\ Tail(s) = <<"endNative">>
      BY <2>11 DEF Op
    <3> QED BY <1>3, <3>1, <1>b
  <2>12. CASE s = <<"lock", "suspend", "endNative">>
    <3>1. s \in Seq(Op) /\ Head(s) = "lock" /\ Tail(s) = <<"suspend", "endNative">>
      BY <2>12 DEF Op
    <3>2. Asking(Tail(s), own)
      BY <1>3, <3>1, <1>b DEF Asking, Rest
    <3> QED BY <3>1, <3>2
  <2>13. CASE s = <<"lock", "suspend", "barrier", "endNative">>
    <3>1. s \in Seq(Op) /\ Head(s) = "lock" /\ Tail(s) = <<"suspend", "barrier", "endNative">>
      BY <2>13 DEF Op
    <3>2. Asking(Tail(s), own)
      BY <1>3, <3>1, <1>b DEF Asking, Rest
    <3> QED BY <3>1, <3>2
  <2>14. CASE s = <<"enterMonitor", "leaveWait", "unregister">>
    <3>1. s \in Seq(Op) /\ Head(s) = "enterMonitor" /\ Tail(s) = <<"leaveWait", "unregister">>
      BY <2>14 DEF Op
    <3> QED BY <1>3, <3>1
  <2> QED BY <1>3, <2>1, <2>2, <2>3, <2>4, <2>5, <2>6, <2>7, <2>8, <2>9, <2>10, <2>11, <2>12,
             <2>13, <2>14
<1> QED BY <1>2, <1>3

-----------------------------------------------------------------------------
(* The steps of the target that no controller waits for. *)

\* The target does the first thing of its work.
LEMMA DoesOp ==
    ASSUME NEW op, NEW rest, op # "none", Does(op, rest)
    PROVE  todo # <<>> /\ Head(todo) = op /\ handler # "asleep" /\ todo' = rest \o Tail(todo)
  BY DEF Does, NextOp, Runs

\* Nothing is put before the rest.
LEMMA EmptyConcat ==
    ASSUME NEW s \in Seq(Op), s # <<>>
    PROVE  <<>> \o Tail(s) = Tail(s)
<1>1. Tail(s) \in Seq(Op)
  BY HeadTailProperties
<1> QED BY <1>1, ConcatEmptySeq

TargetQuiet ==
    \/ Start \/ Begin \/ CountLock \/ Uncount \/ EnterWait \/ LeaveWaitState \/ AnyRequest
    \/ LeaveWait \/ ClearWait \/ BeginNative \/ Barrier \/ BarrierState \/ EndNative
    \/ EnterMonitor \/ Unregister

\* The operations between two uses of a lock.
PlainStep ==
    \/ EnterWait \/ LeaveWaitState \/ AnyRequest \/ LeaveWait \/ ClearWait \/ BeginNative
    \/ Barrier \/ BarrierState \/ EndNative

\* Own is a truth value.
LEMMA OwnType == Own \in BOOLEAN
  BY DEF Own

\* A plain step leaves locks and protocol alone.
LEMMA PlainStepOps ==
    ASSUME PlainStep
    PROVE  /\ todo # <<>> /\ handler # "asleep"
           /\ Head(todo) \in {"enterWait", "leaveWaitState", "anyRequest", "leaveWait", "clearWait",
                              "beginNative", "barrier", "state", "endNative"}
           /\ UNCHANGED <<protocolVars, lock, locksHeld, life, monitor>>
  BY DoesOp DEF PlainStep, EnterWait, LeaveWaitState, AnyRequest, LeaveWait, ClearWait,
         BeginNative, Barrier, BarrierState, EndNative, engineVars

\* Plain work stays plain.
LEMMA PlainStepTodo ==
    ASSUME PlainStep, todo \in Plain(Own)
    PROVE  todo' \in Plain(Own)
<1>1. todo # <<>> /\ Own \in BOOLEAN
  BY PlainStepOps, OwnType
<1>2. todo \in Seq(Op) /\ <<>> \o Tail(todo) = Tail(todo)
  BY <1>1, PlainOps, EmptyConcat
<1>3. CASE EnterWait \/ ClearWait \/ BeginNative \/ EndNative
  <2>1. /\ Head(todo) \in {"enterWait", "clearWait", "beginNative", "endNative"}
        /\ todo' = <<>> \o Tail(todo)
    BY <1>3, DoesOp DEF EnterWait, ClearWait, BeginNative, EndNative
  <2>2. Tail(todo) \in Plain(Own)
    BY <1>1, <2>1, PlainOps
  <2> QED BY <1>2, <2>1, <2>2
<1>4. CASE LeaveWaitState
  <2>1. Head(todo) = "leaveWaitState" /\ todo' = <<"anyRequest">> \o Tail(todo)
    BY <1>4 DEF LeaveWaitState, Does, NextOp
  <2> QED BY <1>1, <2>1, PlainOps
<1>5. CASE AnyRequest
  <2>1. /\ Head(todo) = "anyRequest"
        /\ todo' = <<"lock", "honour">> \o Tail(todo) \/ todo' = <<>> \o Tail(todo)
    BY <1>5 DEF AnyRequest, Does, NextOp
  <2>2. <<"lock", "honour">> \o Tail(todo) \in Plain(Own) /\ Tail(todo) \in Plain(Own)
    BY <1>1, <2>1, PlainOps
  <2> QED BY <1>2, <2>1, <2>2
<1>6. CASE LeaveWait
  <2>1. /\ Head(todo) = "leaveWait"
        /\ todo' = <<"lock", "honour">> \o Tail(todo) \/ todo' = <<"clearWait">> \o Tail(todo)
    BY <1>6 DEF LeaveWait, Does, NextOp
  <2>2. <<"lock", "honour">> \o Tail(todo) \in Plain(Own) /\ <<"clearWait">> \o Tail(todo) \in Plain(Own)
    BY <1>1, <2>1, PlainOps
  <2> QED BY <2>1, <2>2
<1>7. CASE Barrier
  <2>1. /\ Head(todo) = "barrier"
        /\ todo' = <<"state">> \o Tail(todo) \/ todo' = <<>> \o Tail(todo)
    BY <1>7 DEF Barrier, Does, NextOp
  <2>2. <<"state">> \o Tail(todo) \in Plain(Own) /\ Tail(todo) \in Plain(Own)
    BY <1>1, <2>1, PlainOps
  <2> QED BY <1>2, <2>1, <2>2
<1>8. CASE BarrierState
  <2>1. /\ Head(todo) = "state"
        /\ todo' = <<"lock", "suspend">> \o Tail(todo) \/ todo' = <<>> \o Tail(todo)
    BY <1>8 DEF BarrierState, Does, NextOp
  <2>2. <<"lock", "suspend">> \o Tail(todo) \in Plain(Own) /\ Tail(todo) \in Plain(Own)
    BY <1>1, <2>1, PlainOps
  <2> QED BY <1>2, <2>1, <2>2
<1> QED BY <1>3, <1>4, <1>5, <1>6, <1>7, <1>8 DEF PlainStep

\* A target that holds a lock, or sleeps, or does what it was asked, does
\* nothing else.
LEMMA Busy ==
    ASSUME \/ Asking(todo, Own) \/ Unlocking(todo, Own) \/ Sleeping(todo, Own)
           \/ AskedLock(todo, Own) \/ AskedSuspend(todo, Own) \/ AskedUnlock(todo, Own)
           \/ AskedAck(todo, Own),
           life = "registered" => todo = <<>>
    PROVE  todo # <<>> /\ ~PlainStep /\ ~Start /\ ~Begin /\ ~EnterMonitor /\ ~Unregister
<1>1. /\ todo # <<>>
      /\ Head(todo) \in {"honour", "suspend", "unlock", "sleep", "lock", "suspendNow", "ack"}
  BY NextOps, OwnType
<1> QED BY <1>1, PlainStepOps, DoesOp DEF Start, Begin, EnterMonitor, Unregister

\* A target with nothing left to do holds no lock and does not sleep.
LEMMA EmptyIsPlain ==
    ASSUME Normal, todo = <<>>
    PROVE  locksHeld = 0 /\ ~Own /\ ~SleepSoon
<1>1. /\ ~Asking(todo, Own) /\ ~Unlocking(todo, Own) /\ ~Sleeping(todo, Own)
      /\ ~UnlockSleep(todo, Own)
  BY NextOps, OwnType
<1>2. locksHeld = 0 /\ todo \in Plain(Own)
  BY <1>1 DEF Normal
<1>3. ~Own
  BY <1>2 DEF Plain
<1> QED BY <1>1, <1>2, <1>3 DEF SleepSoon

\* A quiet step of the target leaves the protocol alone.
LEMMA QuietFrame ==
    ASSUME TargetQuiet, Types
    PROVE  handler # "asleep" /\ UNCHANGED <<protocolVars, lock>>
<1>1. CASE Start
  BY <1>1 DEF Start, Types
<1>2. CASE Begin
  BY <1>2 DEF Begin, Runs
<1>3. CASE CountLock \/ Uncount \/ EnterMonitor \/ Unregister
  BY <1>3 DEF CountLock, Uncount, EnterMonitor, Unregister, Does, Runs
<1>4. CASE PlainStep
  BY <1>4, PlainStepOps
<1> QED BY <1>1, <1>2, <1>3, <1>4 DEF TargetQuiet, PlainStep

\* numLocksHeld goes up,
LEMMA LockStep ==
    ASSUME CountLock
    PROVE  /\ todo # <<>> /\ Head(todo) = "lock" /\ Own' = Own /\ locksHeld' = locksHeld + 1
           /\ todo \in Seq(Op) => todo' = Tail(todo)
<1>1. todo # <<>> /\ Head(todo) = "lock" /\ todo' = <<>> \o Tail(todo)
  BY DoesOp DEF CountLock
<1>2. Own' = Own /\ locksHeld' = locksHeld + 1
  BY DEF CountLock, engineVars, Own
<1> QED BY <1>1, <1>2, EmptyConcat

\* and down to 0, where a request is honoured.
LEMMA UnlockStep ==
    ASSUME Uncount, locksHeld = 1
    PROVE  /\ todo # <<>> /\ Head(todo) = "unlock" /\ Own' = Own /\ locksHeld' = 0
           /\ suspendRequested =>
                todo' = <<"lock", "suspendNow", "unlock", "ack", "sleep">> \o Tail(todo)
           /\ ~suspendRequested /\ todo \in Seq(Op) => todo' = Tail(todo)
<1>1. /\ todo # <<>> /\ Head(todo) = "unlock"
      /\ suspendRequested =>
                todo' = <<"lock", "suspendNow", "unlock", "ack", "sleep">> \o Tail(todo)
      /\ ~suspendRequested => todo' = <<>> \o Tail(todo)
  BY DEF Uncount, Does, NextOp
<1>2. Own' = Own /\ locksHeld' = 0
  BY DEF Uncount, engineVars, Own
<1> QED BY <1>1, <1>2, EmptyConcat

\* A quiet step of a target that nobody has asked to stop.
LEMMA NormalQuiet ==
    ASSUME TargetQuiet, Normal, ~suspendRequested, OneInside, Types
    PROVE  Normal' /\ (SleepSoon => SleepSoon')
<1>o. Own \in BOOLEAN
  BY OwnType
<1>1. CASE Start
  <2>1. todo = <<>> /\ todo' = <<"endNative">> /\ Own' = Own /\ locksHeld' = locksHeld
    BY <1>1 DEF Start, Types, Own
  <2>2. locksHeld = 0 /\ ~Own /\ ~SleepSoon
    BY <2>1, EmptyIsPlain
  <2>3. todo' \in Plain(Own)
    BY <2>1, <2>2 DEF Plain
  <2> QED BY <2>1, <2>2, <2>3 DEF Normal
<1>2. CASE Begin
  <2>1. /\ todo = <<>> /\ todo' \in {Works, Sleeps, CallsNative, SuspendsItself, Ends}
        /\ Own' = Own /\ locksHeld' = locksHeld
    BY <1>2 DEF Begin, engineVars, Own
  <2>2. locksHeld = 0 /\ ~Own /\ ~SleepSoon
    BY <2>1, EmptyIsPlain
  <2>3. todo' \in Plain(Own)
    BY <2>1, <2>2 DEF Plain
  <2> QED BY <2>1, <2>2, <2>3 DEF Normal
<1>3. CASE CountLock
  <2>1. todo # <<>> /\ Head(todo) = "lock" /\ Own' = Own /\ locksHeld' = locksHeld + 1
    BY <1>3, LockStep
  <2>2. ~Asking(todo, Own) /\ ~Unlocking(todo, Own) /\ ~Sleeping(todo, Own) /\ ~UnlockSleep(todo, Own)
    BY <1>o, <2>1, NextOps
  <2>3. locksHeld = 0 /\ todo \in Plain(Own)
    BY <2>2 DEF Normal
  <2>4. todo \in Seq(Op) /\ (Asking(Tail(todo), Own) \/ Unlocking(Tail(todo), Own))
    BY <1>o, <2>1, <2>3, PlainOps
  <2>5. todo' = Tail(todo) /\ locksHeld' = 1
    BY <1>3, <2>1, <2>3, <2>4, LockStep
  <2> QED BY <2>1, <2>2, <2>4, <2>5 DEF Normal, SleepSoon
<1>4. CASE Uncount
  <2>1. NextOp = "unlock" /\ todo # <<>> /\ Head(todo) = "unlock"
    BY <1>4 DEF Uncount, Does, NextOp
  <2>a. ~Asking(todo, Own) /\ ~Sleeping(todo, Own)
    BY <1>o, <2>1, NextOps
  <2>b. todo \notin Plain(Own)
    BY <1>o, <2>1, PlainOps
  <2>2. ~Asking(todo, Own) /\ ~Sleeping(todo, Own) /\ todo \notin Plain(Own)
    BY <2>a, <2>b
  <2>3. locksHeld = 1 /\ Unlocking(todo, Own)
    BY <2>2 DEF Normal
  <2>4. todo \in Seq(Op) /\ Tail(todo) \in Afterwards(Own)
    BY <1>o, <2>3, NextOps
  <2>5. todo' = Tail(todo) /\ locksHeld' = 0 /\ Own' = Own
    BY <1>4, <2>3, <2>4, UnlockStep
  <2>6. todo' \in Plain(Own) \/ Sleeping(todo', Own)
    BY <1>o, <2>4, <2>5, RestSeq
  <2>7. SleepSoon => Sleeping(todo', Own)
    BY <1>o, <2>2, <2>5, NextOps DEF SleepSoon
  <2> QED BY <2>5, <2>6, <2>7 DEF Normal, SleepSoon
<1>5. CASE EnterMonitor
  <2>1. todo # <<>> /\ Head(todo) = "enterMonitor" /\ todo' = <<>> \o Tail(todo)
    BY <1>5, DoesOp DEF EnterMonitor
  <2>2. ~Asking(todo, Own) /\ ~Unlocking(todo, Own) /\ ~Sleeping(todo, Own) /\ ~UnlockSleep(todo, Own)
    BY <1>o, <2>1, NextOps
  <2>3. locksHeld = 0 /\ todo \in Plain(Own)
    BY <2>2 DEF Normal
  <2>4. ~Own /\ Tail(todo) \in Plain(TRUE) /\ todo \in Seq(Op)
    BY <1>o, <2>1, <2>3, PlainOps
  <2>5. Own' = TRUE /\ locksHeld' = 0
    BY <1>5, <2>3 DEF EnterMonitor, Enter, Own
  <2>6. todo' \in Plain(Own')
    BY <2>1, <2>4, <2>5, EmptyConcat
  <2> QED BY <2>2, <2>5, <2>6 DEF Normal, SleepSoon
<1>6. CASE Unregister
  <2>1. todo # <<>> /\ Head(todo) = "unregister" /\ todo' = <<>> \o Tail(todo)
    BY <1>6, DoesOp DEF Unregister
  <2>2. ~Asking(todo, Own) /\ ~Unlocking(todo, Own) /\ ~Sleeping(todo, Own) /\ ~UnlockSleep(todo, Own)
    BY <1>o, <2>1, NextOps
  <2>3. locksHeld = 0 /\ todo \in Plain(Own)
    BY <2>2 DEF Normal
  <2>4. Own /\ Tail(todo) = <<>> /\ todo \in Seq(Op)
    BY <1>o, <2>1, <2>3, PlainOps
  <2>5. Own' = FALSE /\ locksHeld' = 0
    BY <1>6, <2>3, <2>4, ThreadSuspendAssumption DEF Unregister, Leave, Own, OneInside, Free
  <2>6. todo' \in Plain(Own')
    BY <2>1, <2>4, <2>5, EmptyConcat DEF Plain
  <2> QED BY <2>2, <2>5, <2>6 DEF Normal, SleepSoon
<1>7. CASE PlainStep
  <2>1. ~Asking(todo, Own) /\ ~Unlocking(todo, Own) /\ ~Sleeping(todo, Own) /\ ~UnlockSleep(todo, Own)
    BY <1>7, <1>o, Busy, NextOps DEF Types
  <2>2. locksHeld = 0 /\ todo \in Plain(Own)
    BY <2>1 DEF Normal
  <2>3. todo' \in Plain(Own)
    BY <1>7, <2>2, PlainStepTodo
  <2>4. locksHeld' = 0 /\ Own' = Own
    BY <1>7, <2>2, PlainStepOps DEF Own
  <2> QED BY <2>1, <2>3, <2>4 DEF Normal, SleepSoon
<1> QED BY <1>1, <1>2, <1>3, <1>4, <1>5, <1>6, <1>7 DEF TargetQuiet, PlainStep

\* A quiet step of a target that will stop at its last lock.
LEMMA PromisedQuiet ==
    ASSUME TargetQuiet, Promised, suspendRequested, Types
    PROVE  Promised' /\ StopSoon'
<1>o. Own \in BOOLEAN
  BY OwnType
<1>1. CountLock \/ Uncount
  BY Busy DEF Promised, Types, TargetQuiet, PlainStep
<1>2. CASE CountLock
  <2>1. todo # <<>> /\ Head(todo) = "lock" /\ Own' = Own /\ locksHeld' = locksHeld + 1
    BY <1>2, LockStep
  <2>2. locksHeld = 0 /\ AskedLock(todo, Own)
    BY <1>o, <2>1, NextOps DEF Promised
  <2>3. todo \in Seq(Op) /\ AskedSuspend(Tail(todo), Own)
    BY <1>o, <2>2, NextOps
  <2>4. todo' = Tail(todo) /\ locksHeld' = 1
    BY <1>2, <2>1, <2>2, <2>3, LockStep
  <2> QED BY <2>1, <2>3, <2>4 DEF Promised, StopSoon
<1>3. CASE Uncount
  <2>1. todo # <<>> /\ Head(todo) = "unlock"
    BY <1>3 DEF Uncount, Does, NextOp
  <2>2. locksHeld = 1 /\ Unlocking(todo, Own)
    BY <1>o, <2>1, NextOps DEF Promised
  <2>3. Tail(todo) \in Afterwards(Own)
    BY <1>o, <2>2, NextOps
  <2>4. /\ todo' = <<"lock", "suspendNow", "unlock", "ack", "sleep">> \o Tail(todo)
        /\ locksHeld' = 0 /\ Own' = Own
    BY <1>3, <2>2, UnlockStep
  <2>5. AskedLock(todo', Own)
    BY <2>3, <2>4 DEF AskedLock
  <2> QED BY <2>4, <2>5 DEF Promised, StopSoon
<1> QED BY <1>1, <1>2, <1>3

\* A quiet step of a target that is on its way to sleep.
LEMMA AskedQuiet ==
    ASSUME TargetQuiet, ~suspendRequested, Types,
           \/ locksHeld = 1 /\ AskedUnlock(todo, Own)
           \/ locksHeld = 0 /\ AskedAck(todo, Own)
    PROVE  locksHeld' = 0 /\ AskedAck(todo, Own)'
<1>o. Own \in BOOLEAN
  BY OwnType
<1>1. CountLock \/ Uncount
  BY Busy DEF Types, TargetQuiet, PlainStep
<1>2. todo # <<>> /\ Head(todo) \in {"unlock", "ack"}
  BY <1>o, NextOps
<1>3. Uncount /\ Head(todo) = "unlock"
  BY <1>1, <1>2, LockStep DEF Uncount, Does, NextOp
<1>4. locksHeld = 1 /\ AskedUnlock(todo, Own)
  BY <1>o, <1>3, NextOps
<1>5. todo \in Seq(Op) /\ AskedAck(Tail(todo), Own)
  BY <1>o, <1>4, NextOps
<1>6. todo' = Tail(todo) /\ locksHeld' = 0 /\ Own' = Own
  BY <1>3, <1>4, <1>5, UnlockStep
<1> QED BY <1>5, <1>6

\* A target that is about to sleep has no quiet step left.
LEMMA SleepingQuiet ==
    ASSUME Sleeping(todo, Own), Types
    PROVE  ~TargetQuiet
<1>1. todo # <<>> /\ Head(todo) = "sleep"
  BY NextOps, OwnType
<1>2. ~CountLock /\ ~Uncount
  BY <1>1, LockStep DEF Uncount, Does, NextOp
<1> QED BY <1>2, Busy DEF Types, TargetQuiet, PlainStep

-----------------------------------------------------------------------------
(* The steps of the target that change what the controllers see. *)

\* The suspension the target asked for itself, or found requested.
LEMMA SelfStep ==
    ASSUME SuspendSelf \/ HonourRequest,
           Normal \/ Promised
    PROVE  /\ Asking(todo, Own) /\ locksHeld' = locksHeld /\ locksHeld = 1
           /\ lock = Nobody /\ lock' = Nobody /\ handler # "asleep"
           /\ UNCHANGED <<suspendRequested, resumeSent, handler, suspendAck, resumeAck, life, monitor>>
           /\ Unlocking(todo', Own')
           /\ UnlockSleep(todo', Own') \/ pub' = pub
<1>o. Own \in BOOLEAN
  BY OwnType
<1>1. /\ todo # <<>> /\ Head(todo) \in {"suspend", "honour"} /\ handler # "asleep"
      /\ \/ todo' = <<"unlock", "sleep">> \o Tail(todo)
         \/ todo' = <<"unlock">> \o Tail(todo) /\ pub' = pub
  <2>1. CASE SuspendSelf
    BY <2>1 DEF SuspendSelf, Does, NextOp, Runs
  <2>2. CASE HonourRequest
    BY <2>2 DEF HonourRequest, Does, NextOp, Runs
  <2> QED BY <2>1, <2>2
<1>2. /\ lock = Nobody /\ lock' = Nobody /\ locksHeld' = locksHeld
      /\ UNCHANGED <<suspendRequested, resumeSent, handler, suspendAck, resumeAck, life, monitor>>
  BY DEF SuspendSelf, HonourRequest, engineVars
<1>3. todo \notin Plain(Own)
  BY <1>o, <1>1, PlainOps
<1>4. /\ ~Unlocking(todo, Own) /\ ~Sleeping(todo, Own) /\ ~AskedLock(todo, Own)
      /\ ~AskedSuspend(todo, Own)
  BY <1>o, <1>1, NextOps
<1>5. Asking(todo, Own) /\ locksHeld = 1
  BY <1>3, <1>4 DEF Normal, Promised
<1>6. Tail(todo) \in Rest(Own) /\ Tail(todo) \in Afterwards(Own) /\ Tail(todo) \in Seq(Op)
  BY <1>o, <1>5, NextOps, RestSeq
<1>7. <<"unlock", "sleep">> \o Tail(todo) = <<"unlock">> \o (<<"sleep">> \o Tail(todo))
  <2>1. <<"unlock">> \in Seq(Op) /\ <<"sleep">> \in Seq(Op)
    BY DEF Op
  <2>2. <<"unlock">> \o <<"sleep">> = <<"unlock", "sleep">>
    BY Concats
  <2> QED BY <1>6, <2>1, <2>2, ConcatAssociative
<1>8. Own' = Own
  BY <1>2 DEF Own
<1>9. UnlockSleep(todo', Own) \/ (Unlocking(todo', Own) /\ pub' = pub)
  BY <1>1, <1>6, <1>7 DEF UnlockSleep, Unlocking
<1> QED BY <1>o, <1>1, <1>2, <1>5, <1>8, <1>9, NextOps

\* The target marks itself as suspended,
LEMMA SuspendNowStep ==
    ASSUME SuspendNow
    PROVE  /\ todo # <<>> /\ Head(todo) = "suspendNow" /\ lock = Nobody
           /\ ~suspendRequested' /\ pub' = Suspended
           /\ UNCHANGED <<resumeSent, handler, suspendAck, resumeAck, lock, locksHeld, life, monitor>>
           /\ AskedSuspend(todo, Own) => AskedUnlock(todo', Own')
<1>o. Own \in BOOLEAN
  BY OwnType
<1>1. todo # <<>> /\ Head(todo) = "suspendNow" /\ todo' = <<>> \o Tail(todo)
  BY DoesOp DEF SuspendNow
<1>2. /\ lock = Nobody /\ ~suspendRequested' /\ pub' = Suspended
      /\ UNCHANGED <<resumeSent, handler, suspendAck, resumeAck, lock, locksHeld, life, monitor>>
  BY DEF SuspendNow, engineVars
<1>3. AskedSuspend(todo, Own) => AskedUnlock(todo', Own)
  BY <1>o, <1>1, NextOps, EmptyConcat
<1>4. Own' = Own
  BY <1>2 DEF Own
<1> QED BY <1>1, <1>2, <1>3, <1>4

\* tells the suspender,
LEMMA AckStep ==
    ASSUME Ack
    PROVE  /\ todo # <<>> /\ Head(todo) = "ack" /\ suspendAck' = suspendAck + 1
           /\ UNCHANGED <<pub, suspendRequested, resumeSent, handler, resumeAck, lock, locksHeld,
                          life, monitor>>
           /\ AskedAck(todo, Own) => Sleeping(todo', Own')
<1>o. Own \in BOOLEAN
  BY OwnType
<1>1. todo # <<>> /\ Head(todo) = "ack" /\ todo' = <<>> \o Tail(todo)
  BY DoesOp DEF Ack
<1>2. /\ suspendAck' = suspendAck + 1
      /\ UNCHANGED <<pub, suspendRequested, resumeSent, handler, resumeAck, lock, locksHeld,
                     life, monitor>>
  BY DEF Ack, engineVars
<1>3. AskedAck(todo, Own) => Sleeping(todo', Own)
  BY <1>o, <1>1, NextOps, EmptyConcat
<1>4. Own' = Own
  BY <1>2 DEF Own
<1> QED BY <1>1, <1>2, <1>3, <1>4

\* and sleeps until it is resumed.
LEMMA SleepEndsStep ==
    ASSUME SleepEnds
    PROVE  /\ todo # <<>> /\ Head(todo) = "sleep" /\ resumeSent /\ ~resumeSent' /\ handler # "asleep"
           /\ resumeAck' = resumeAck + 1
           /\ UNCHANGED <<pub, suspendRequested, handler, suspendAck, lock, locksHeld, life, monitor>>
           /\ Sleeping(todo, Own) => todo' \in Plain(Own') \/ Sleeping(todo', Own')
<1>o. Own \in BOOLEAN
  BY OwnType
<1>1. todo # <<>> /\ Head(todo) = "sleep" /\ todo' = <<>> \o Tail(todo) /\ handler # "asleep"
  BY DoesOp DEF SleepEnds
<1>2. /\ resumeSent /\ ~resumeSent' /\ resumeAck' = resumeAck + 1
      /\ UNCHANGED <<pub, suspendRequested, handler, suspendAck, lock, locksHeld, life, monitor>>
  BY DEF SleepEnds, engineVars
<1>3. Own' = Own
  BY <1>2 DEF Own
<1>4. ASSUME Sleeping(todo, Own)
      PROVE  todo' \in Plain(Own') \/ Sleeping(todo', Own')
  <2>1. todo \in Seq(Op) /\ Tail(todo) \in Afterwards(Own)
    BY <1>o, <1>4, NextOps
  <2>2. todo' \in Afterwards(Own)
    BY <1>1, <2>1, EmptyConcat
  <2> QED BY <1>o, <1>3, <2>2, RestSeq
<1> QED BY <1>1, <1>2, <1>4

\* A target that nobody has asked does not acknowledge anything.
LEMMA NoSuspendNow ==
    ASSUME Normal
    PROVE  ~SuspendNow /\ ~Ack
<1>1. ASSUME SuspendNow \/ Ack PROVE FALSE
  <2>1. todo # <<>> /\ Head(todo) \in {"suspendNow", "ack"} /\ Own \in BOOLEAN
    BY <1>1, SuspendNowStep, AckStep, OwnType
  <2>2. todo \notin Plain(Own)
    BY <2>1, PlainOps
  <2>3. ~Asking(todo, Own) /\ ~Unlocking(todo, Own) /\ ~Sleeping(todo, Own)
    BY <2>1, NextOps
  <2> QED BY <2>2, <2>3 DEF Normal
<1> QED BY <1>1

\* The steps of the target.
LEMMA Step ==
    ASSUME TargetStep
    PROVE  \/ TargetQuiet \/ SuspendNow \/ Ack \/ SleepEnds \/ SuspendSelf \/ HonourRequest
           \/ HandlerBegins \/ HandlerEnds
  BY DEF TargetStep, TargetQuiet

\* The signal handler begins and ends.
LEMMA HandlerStep ==
    ASSUME HandlerBegins \/ HandlerEnds
    PROVE  /\ UNCHANGED <<pub, suspendRequested, lock, locksHeld, life, monitor>>
           /\ (Normal => Normal') /\ (Promised => Promised') /\ (SleepSoon => SleepSoon')
<1>1. UNCHANGED <<pub, suspendRequested, lock, locksHeld, life, monitor, todo>>
  BY DEF HandlerBegins, HandlerEnds, targetVars, engineVars
<1>2. Own' = Own
  BY <1>1 DEF Own
<1> QED BY <1>1, <1>2 DEF Normal, Promised, SleepSoon

\* The target's steps while nobody waits for it,
LEMMA RestingStep ==
    ASSUME TargetStep, Resting, OneInside, Types
    PROVE  Resting'
<1>n. ~SuspendNow /\ ~Ack
  BY NoSuspendNow DEF Resting
<1>1. CASE TargetQuiet
  <2>1. handler # "asleep" /\ UNCHANGED <<protocolVars, lock>>
    BY <1>1, QuietFrame
  <2>2. Normal' /\ (SleepSoon => SleepSoon')
    BY <1>1, NormalQuiet DEF Resting
  <2> QED BY <2>1, <2>2 DEF Resting, protocolVars
<1>2. CASE SuspendSelf \/ HonourRequest
  <2>1. /\ Asking(todo, Own) /\ locksHeld' = 1 /\ lock' = Nobody /\ handler # "asleep"
        /\ UNCHANGED <<suspendRequested, resumeSent, handler, suspendAck, resumeAck>>
        /\ Unlocking(todo', Own') /\ (UnlockSleep(todo', Own') \/ pub' = pub)
    BY <1>2, SelfStep DEF Resting
  <2>2. Normal'
    BY <2>1 DEF Normal
  <2>3. ~SleepSoon
    BY <2>1, NextOps, OwnType DEF SleepSoon
  <2>4. "suspended" \in pub' => SleepSoon'
    BY <2>1, <2>3 DEF Resting, SleepSoon
  <2> QED BY <2>1, <2>2, <2>4 DEF Resting
<1>3. CASE SleepEnds \/ HandlerEnds \/ HandlerBegins
  BY <1>3, SleepEndsStep DEF Resting, HandlerEnds, HandlerBegins
<1> QED BY <1>n, <1>1, <1>2, <1>3, Step

\* while a suspender waits for the acknowledgement,
LEMMA WaitsAckStep ==
    ASSUME TargetStep, NEW c \in Controllers, WaitsAck(c), OneInside, Types
    PROVE  WaitsAck(c)'
<1>n. ~SuspendNow /\ ~Ack
  BY NoSuspendNow DEF WaitsAck
<1>1. CASE TargetQuiet
  <2>1. handler # "asleep" /\ UNCHANGED <<protocolVars, lock>>
    BY <1>1, QuietFrame
  <2>2. Normal'
    BY <1>1, NormalQuiet DEF WaitsAck
  <2> QED BY <2>1, <2>2 DEF WaitsAck, protocolVars
<1>2. ~SuspendSelf /\ ~HonourRequest
  BY ThreadSuspendAssumption DEF WaitsAck, SuspendSelf, HonourRequest
<1>3. ~SleepEnds /\ ~HandlerEnds
  BY SleepEndsStep DEF WaitsAck, HandlerEnds
<1>4. CASE HandlerBegins
  BY <1>4, HandlerStep DEF WaitsAck, HandlerBegins
<1> QED BY <1>n, <1>1, <1>2, <1>3, <1>4, Step

\* while the suspender waits for a target that holds locks to run on,
LEMMA WaitsResumedStep ==
    ASSUME TargetStep, NEW c \in Controllers, WaitsResumed(c), Types
    PROVE  WaitsResumed(c)'
<1>1. CASE TargetQuiet
  <2>1. handler # "asleep" /\ UNCHANGED <<protocolVars, lock>>
    BY <1>1, QuietFrame
  <2>2. Promised'
    BY <1>1, PromisedQuiet DEF WaitsResumed
  <2> QED BY <2>1, <2>2 DEF WaitsResumed, protocolVars
<1>2. ~SuspendSelf /\ ~HonourRequest /\ ~SuspendNow
  BY ThreadSuspendAssumption DEF WaitsResumed, SuspendSelf, HonourRequest, SuspendNow
<1>3. ~SleepEnds /\ ~HandlerBegins
  BY SleepEndsStep DEF WaitsResumed, HandlerBegins
<1>4. ~Ack
  BY AckStep, NextOps, OwnType DEF WaitsResumed, Promised
<1>5. CASE HandlerEnds
  <2>1. /\ UNCHANGED <<pub, suspendRequested, lock>> /\ Promised'
    BY <1>5, HandlerStep DEF WaitsResumed
  <2>2. handler' = "none" /\ ~resumeSent' /\ resumeAck' = 1 /\ suspendAck' = 0
    BY <1>5 DEF WaitsResumed, HandlerEnds
  <2> QED BY <2>1, <2>2 DEF WaitsResumed
<1> QED BY <1>1, <1>2, <1>3, <1>4, <1>5, Step

\* while a resumer waits for it to run,
LEMMA WaitsRunningStep ==
    ASSUME TargetStep, NEW c \in Controllers, WaitsRunning(c), OneInside, Types
    PROVE  WaitsRunning(c)'
<1>n. ~SuspendNow /\ ~Ack
  BY NoSuspendNow DEF WaitsRunning
<1>1. CASE TargetQuiet
  <2>1. handler # "asleep" /\ UNCHANGED <<protocolVars, lock>>
    BY <1>1, QuietFrame
  <2>2. Normal' /\ (SleepSoon => SleepSoon')
    BY <1>1, NormalQuiet DEF WaitsRunning
  <2> QED BY <2>1, <2>2 DEF WaitsRunning, protocolVars
<1>2. ~SuspendSelf /\ ~HonourRequest
  BY ThreadSuspendAssumption DEF WaitsRunning, SuspendSelf, HonourRequest
<1>3. CASE SleepEnds
  <2>1. /\ todo # <<>> /\ Head(todo) = "sleep" /\ resumeSent /\ ~resumeSent' /\ handler # "asleep"
        /\ resumeAck' = resumeAck + 1
        /\ UNCHANGED <<pub, suspendRequested, handler, suspendAck, lock, locksHeld>>
        /\ Sleeping(todo, Own) => todo' \in Plain(Own') \/ Sleeping(todo', Own')
    BY <1>3, SleepEndsStep
  <2>2. Own \in BOOLEAN
    BY OwnType
  <2>3. todo \notin Plain(Own)
    BY <2>1, <2>2, PlainOps
  <2>4. ~Asking(todo, Own) /\ ~Unlocking(todo, Own)
    BY <2>1, <2>2, NextOps
  <2>5. locksHeld = 0 /\ Sleeping(todo, Own)
    BY <2>3, <2>4 DEF WaitsRunning, Normal
  <2>6. Normal'
    BY <2>1, <2>5 DEF Normal
  <2> QED BY <2>1, <2>6 DEF WaitsRunning
<1>4. CASE HandlerEnds
  <2>1. /\ UNCHANGED <<pub, suspendRequested, lock>> /\ Normal'
    BY <1>4, HandlerStep DEF WaitsRunning
  <2>2. handler' = "none" /\ ~resumeSent' /\ resumeAck' = 1 /\ suspendAck' = 0
    BY <1>4 DEF WaitsRunning, HandlerEnds
  <2> QED BY <2>1, <2>2 DEF WaitsRunning
<1>5. ~HandlerBegins
  BY DEF WaitsRunning, HandlerBegins
<1> QED BY <1>n, <1>1, <1>2, <1>3, <1>4, <1>5, Step

\* and while the suspender waits for it to stop at its last lock.
LEMMA WaitsSuspendedStep ==
    ASSUME TargetStep, WaitsSuspended, Types
    PROVE  WaitsSuspended'
<1>o. Own \in BOOLEAN
  BY OwnType
<1>n. ~SleepEnds /\ ~HandlerBegins /\ ~HandlerEnds
  BY SleepEndsStep DEF WaitsSuspended, HandlerBegins, HandlerEnds
<1>1. CASE suspendAck = 0 /\ suspendRequested /\ Promised /\ ("suspended" \in pub => StopSoon)
  <2>1. CASE TargetQuiet
    BY <1>1, <2>1, QuietFrame, PromisedQuiet DEF WaitsSuspended, protocolVars
  <2>2. CASE SuspendSelf \/ HonourRequest
    <3>1. /\ Asking(todo, Own) /\ locksHeld' = 1 /\ lock' = Nobody
          /\ UNCHANGED <<suspendRequested, resumeSent, handler, suspendAck, resumeAck>>
          /\ Unlocking(todo', Own') /\ (UnlockSleep(todo', Own') \/ pub' = pub)
      BY <1>1, <2>2, SelfStep
    <3>2. ~StopSoon
      BY <1>o, <3>1, NextOps DEF StopSoon
    <3>3. Promised' /\ ("suspended" \in pub' => StopSoon')
      BY <1>1, <3>1, <3>2 DEF Promised, StopSoon
    <3> QED BY <1>1, <3>1, <3>3 DEF WaitsSuspended
  <2>3. CASE SuspendNow
    <3>1. /\ todo # <<>> /\ Head(todo) = "suspendNow" /\ ~suspendRequested' /\ "suspended" \in pub'
          /\ UNCHANGED <<resumeSent, handler, suspendAck, resumeAck, lock, locksHeld>>
          /\ AskedSuspend(todo, Own) => AskedUnlock(todo', Own')
      BY <2>3, SuspendNowStep DEF Suspended
    <3>2. locksHeld = 1 /\ AskedSuspend(todo, Own)
      BY <1>o, <1>1, <3>1, NextOps DEF Promised
    <3> QED BY <1>1, <3>1, <3>2 DEF WaitsSuspended
  <2>4. ~Ack
    BY <1>o, <1>1, AckStep, NextOps DEF Promised
  <2> QED BY <1>n, <2>1, <2>2, <2>3, <2>4, Step
<1>2. CASE /\ suspendAck = 0 /\ ~suspendRequested /\ "suspended" \in pub
           /\ \/ locksHeld = 1 /\ AskedUnlock(todo, Own)
              \/ locksHeld = 0 /\ AskedAck(todo, Own)
  <2>1. todo # <<>> /\ Head(todo) \in {"unlock", "ack"}
    BY <1>o, <1>2, NextOps
  <2>2. ~SuspendNow /\ ~SuspendSelf /\ ~HonourRequest
    BY <2>1 DEF SuspendNow, SuspendSelf, HonourRequest, Does, NextOp
  <2>3. CASE TargetQuiet
    BY <1>2, <2>3, QuietFrame, AskedQuiet DEF WaitsSuspended, protocolVars
  <2>4. CASE Ack
    <3>1. /\ todo # <<>> /\ Head(todo) = "ack" /\ suspendAck' = 1
          /\ UNCHANGED <<pub, suspendRequested, resumeSent, handler, resumeAck, lock, locksHeld>>
          /\ AskedAck(todo, Own) => Sleeping(todo', Own')
      BY <1>2, <2>4, AckStep
    <3>2. locksHeld = 0 /\ AskedAck(todo, Own)
      BY <1>o, <1>2, <3>1, NextOps
    <3> QED BY <1>2, <3>1, <3>2 DEF WaitsSuspended
  <2> QED BY <1>n, <2>2, <2>3, <2>4, Step
<1>3. CASE /\ suspendAck = 1 /\ ~suspendRequested /\ "suspended" \in pub
           /\ locksHeld = 0 /\ Sleeping(todo, Own)
  <2>1. todo # <<>> /\ Head(todo) = "sleep"
    BY <1>o, <1>3, NextOps
  <2>2. ~SuspendNow /\ ~SuspendSelf /\ ~HonourRequest /\ ~Ack
    BY <2>1 DEF SuspendNow, SuspendSelf, HonourRequest, Ack, Does, NextOp
  <2> QED BY <1>n, <1>3, <2>2, SleepingQuiet, Step
<1> QED BY <1>1, <1>2, <1>3 DEF WaitsSuspended

-----------------------------------------------------------------------------
(* The monitor, and the steps of the controllers. *)

\* A controller in a call is the only one.
LEMMA Alone ==
    ASSUME OneInside, NEW c \in Controllers, pc[c] # "idle"
    PROVE  ~Own /\ monitor.owner = c /\ \A d \in Controllers : d # c => pc[d] = "idle"
  BY ThreadSuspendAssumption DEF OneInside, Own

\* When the others are idle and this one waits for nothing, all is at rest.
LEMMA AllOutside ==
    ASSUME Protocol, NEW c \in Controllers, pc[c] \in Outside,
           \A d \in Controllers : d # c => pc[d] = "idle"
    PROVE  Resting
  BY DEF Protocol, Outside

\* The invariant after a step of the only controller inside a call.
LEMMA OneMoves ==
    ASSUME NEW c \in Controllers, OneInside', pc' \in [Controllers -> PCs],
           \A d \in Controllers : d # c => pc'[d] = "idle",
           \/ pc'[c] \in Outside /\ Resting'
           \/ pc'[c] = "waitAck" /\ WaitsAck(c)'
           \/ pc'[c] = "waitResumed" /\ WaitsResumed(c)'
           \/ pc'[c] = "waitSuspended" /\ WaitsSuspended'
           \/ pc'[c] = "waitRunning" /\ WaitsRunning(c)'
    PROVE  Protocol'
  BY DEF Protocol, Outside

\* What a controller does leaves the target where it is.
LEMMA TargetStays ==
    ASSUME UNCHANGED <<locksHeld, todo>>, Own' = Own
    PROVE  /\ (Normal => Normal') /\ (Promised => Promised') /\ (SleepSoon => SleepSoon')
           /\ Sleeping(todo, Own) => Sleeping(todo', Own')
  BY DEF Normal, Promised, SleepSoon

\* A controller's call begins.
LEMMA CallStep ==
    ASSUME SuspendInv, NEW c \in Controllers, ControllerCall(c)
    PROVE  SuspendInv'
<1>i. OneInside /\ Types /\ Protocol
  BY DEF SuspendInv
<1>1. /\ MayEnter(c) /\ pc[c] = "idle"
      /\ UNCHANGED <<pub, suspendRequested, resumeSent, handler, suspendAck, resumeAck, lock,
                     wsj, locksHeld, managed, todo, life>>
      /\ safepoint' \in BOOLEAN
      /\ \/ UNCHANGED <<pc, monitor>>
         \/ pc' = [pc EXCEPT ![c] = "suspend"] /\ Enter(c)
         \/ pc' = [pc EXCEPT ![c] = "resume"] /\ Enter(c)
  <2>1. CASE SuspendThread(c)
    BY <1>i, <2>1 DEF SuspendThread, Goto, protocolVars, targetVars, Types
  <2>2. CASE ResumeThread(c)
    BY <1>i, <2>2 DEF ResumeThread, Goto, protocolVars, targetVars, Types
  <2> QED BY <2>1, <2>2 DEF ControllerCall
<1>2. Types'
  <2>1. {wsj, suspendRequested, resumeSent, managed, safepoint}' \subseteq BOOLEAN
    BY <1>i, <1>1 DEF Types
  <2> QED BY <1>i, <1>1, <2>1 DEF Types
<1>3. CASE UNCHANGED <<pc, monitor>>
  <2>1. OneInside' /\ Own' = Own
    BY <1>i, <1>3 DEF OneInside, Own
  <2>2. Normal' = Normal /\ Promised' = Promised /\ SleepSoon' = SleepSoon /\ StopSoon' = StopSoon
    BY <1>1, <2>1 DEF Normal, Promised, SleepSoon, StopSoon
  <2>3. Protocol'
    BY <1>i, <1>1, <1>3, <2>1, <2>2
       DEF Protocol, Resting, WaitsAck, WaitsResumed, WaitsSuspended, WaitsRunning
  <2> QED BY <1>2, <2>1, <2>3 DEF SuspendInv
<1>4. CASE \/ pc' = [pc EXCEPT ![c] = "suspend"] /\ Enter(c)
           \/ pc' = [pc EXCEPT ![c] = "resume"] /\ Enter(c)
  <2>1. \A d \in Controllers : pc[d] = "idle"
    BY <1>i, <1>1, ThreadSuspendAssumption DEF OneInside, MayEnter
  <2>2. Resting
    BY <1>i, <2>1 DEF Protocol, Outside
  <2>3. /\ pc' \in [Controllers -> PCs] /\ pc'[c] \in Outside
        /\ \A d \in Controllers : d # c => pc'[d] = "idle"
    BY <1>i, <1>4, <2>1 DEF OneInside, PCs, Outside
  <2>4. monitor' = [owner |-> c, count |-> monitor.count + 1] /\ monitor.count \in Nat
    BY <1>i, <1>4 DEF Enter, OneInside
  <2>5. monitor'.owner = c /\ monitor'.count \in Nat /\ monitor'.count # 0
        /\ monitor' \in [owner : Controllers \cup {Target, Nobody}, count : Nat]
    BY <2>4
  <2>6. ~Own /\ ~Own' /\ c # Nobody
    BY <1>1, <2>5, ThreadSuspendAssumption DEF MayEnter, Own
  <2>7. OneInside'
    BY <2>3, <2>5, <2>6 DEF OneInside
  <2>8. Own' = Own
    BY <2>6 DEF Own
  <2>9. Resting'
    BY <1>1, <2>2, <2>8, TargetStays DEF Resting
  <2>10. Protocol'
    BY <2>3, <2>7, <2>9, OneMoves
  <2> QED BY <1>2, <2>7, <2>10 DEF SuspendInv
<1> QED BY <1>1, <1>3, <1>4

\* A step of a call inside the monitor.
LEMMA InsideFrame ==
    ASSUME OneInside, NEW c \in Controllers, ControllerStep(c)
    PROVE  /\ pc[c] # "idle" /\ \A d \in Controllers : d # c => pc[d] = "idle" /\ pc'[d] = "idle"
           /\ pc' \in [Controllers -> PCs]
           /\ OneInside' /\ Own' = Own
<1>1. PICK from \in PCs, to \in PCs :
          /\ Goto(c, from, to) /\ from # "idle"
          /\ monitor' = monitor \/ (Leave /\ to = "idle")
  <2>1. CASE AlreadySuspended(c) \/ SuspendFails(c)
    BY <2>1 DEF AlreadySuspended, SuspendFails, PCs, Outside
  <2>2. CASE RequestSuspend(c) \/ SetSafepoint(c)
    BY <2>2 DEF RequestSuspend, SetSafepoint, PCs, Outside
  <2>3. CASE SuspendOther(c) \/ SuspendOk(c)
    BY <2>3 DEF SuspendOther, SuspendOk, PCs, Outside
  <2>4. CASE LetGoOfLocks(c) \/ TargetResumed(c)
    BY <2>4 DEF LetGoOfLocks, TargetResumed, PCs, Outside
  <2>5. CASE TargetSuspended(c) \/ Relock(c)
    BY <2>5 DEF TargetSuspended, Relock, PCs, Outside
  <2>6. CASE Resume(c) \/ Resumed(c)
    BY <2>6 DEF Resume, Resumed, PCs, Outside
  <2>7. CASE CancelRequest(c)
    BY <2>7 DEF CancelRequest, PCs, Outside
  <2> QED BY <2>1, <2>2, <2>3, <2>4, <2>5, <2>6, <2>7 DEF ControllerStep
<1>2. pc[c] # "idle" /\ pc \in [Controllers -> PCs] /\ pc' = [pc EXCEPT ![c] = to]
  BY <1>1 DEF Goto, OneInside
<1>3. ~Own /\ monitor.owner = c /\ \A d \in Controllers : d # c => pc[d] = "idle"
  BY <1>2, Alone
<1>4. /\ pc' \in [Controllers -> PCs] /\ pc'[c] = to
      /\ \A d \in Controllers : d # c => pc'[d] = "idle"
  BY <1>2, <1>3
<1>5. c # Nobody /\ c # Target /\ Nobody # Target
  BY ThreadSuspendAssumption
<1>6. /\ monitor \in [owner : Controllers \cup {Target, Nobody}, count : Nat]
      /\ monitor.count \in Nat \ {0}
  BY <1>3, <1>5 DEF OneInside
<1>7. CASE monitor' = monitor
  <2>1. OneInside'
    BY <1>3, <1>4, <1>7 DEF OneInside, Own
  <2>2. Own' = Own
    BY <1>7 DEF Own
  <2> QED BY <1>2, <1>3, <1>4, <2>1, <2>2
<1>8. CASE Leave /\ to = "idle"
  <2>1. \/ monitor' = Free
        \/ monitor.count # 1 /\ monitor' = [monitor EXCEPT !.count = monitor.count - 1]
    BY <1>8 DEF Leave
  <2>2. CASE monitor' = Free
    <3>1. monitor'.owner = Nobody /\ monitor'.count = 0
          /\ monitor' \in [owner : Controllers \cup {Target, Nobody}, count : Nat]
      BY <2>2 DEF Free
    <3>2. OneInside'
      BY <1>4, <1>5, <1>8, <3>1 DEF OneInside, Own
    <3>3. Own' = Own
      BY <1>3, <1>5, <3>1 DEF Own
    <3> QED BY <1>2, <1>3, <1>4, <3>2, <3>3
  <2>3. CASE monitor.count # 1 /\ monitor' = [monitor EXCEPT !.count = monitor.count - 1]
    <3>1. monitor'.owner = c /\ monitor'.count \in Nat \ {0}
          /\ monitor' \in [owner : Controllers \cup {Target, Nobody}, count : Nat]
      BY <1>3, <1>6, <2>3
    <3>2. OneInside'
      BY <1>4, <1>5, <1>8, <3>1 DEF OneInside, Own
    <3>3. Own' = Own
      BY <1>3, <1>5, <3>1 DEF Own
    <3> QED BY <1>2, <1>3, <1>4, <3>2, <3>3
  <2> QED BY <2>1, <2>2, <2>3
<1> QED BY <1>1, <1>7, <1>8

\* A controller's step keeps the protocol,
LEMMA InsideProtocol ==
    ASSUME SuspendInv, NEW c \in Controllers, ControllerStep(c)
    PROVE  Protocol'
<1>i. OneInside /\ Protocol
  BY DEF SuspendInv
<1>f. /\ pc[c] # "idle" /\ \A d \in Controllers : d # c => pc[d] = "idle" /\ pc'[d] = "idle"
      /\ pc \in [Controllers -> PCs] /\ pc' \in [Controllers -> PCs]
      /\ OneInside' /\ Own' = Own
  BY <1>i, InsideFrame DEF OneInside
<1>t. UNCHANGED <<locksHeld, todo>>
  BY DEF ControllerStep, targetVars
<1>s. /\ (Normal => Normal') /\ (Promised => Promised') /\ (SleepSoon => SleepSoon')
      /\ Sleeping(todo, Own) => Sleeping(todo', Own')
  BY <1>f, <1>t, TargetStays
<1>r. pc[c] \in Outside => Resting
  BY <1>i, <1>f, AllOutside
<1>g. ASSUME NEW from, NEW to, Goto(c, from, to)
      PROVE  pc[c] = from /\ pc'[c] = to
  BY <1>f, <1>g DEF Goto
\* The steps that leave the protocol alone.
<1>1. CASE \/ AlreadySuspended(c) \/ SuspendFails(c) \/ RequestSuspend(c) \/ SetSafepoint(c)
           \/ Relock(c) \/ CancelRequest(c)
  <2>1. /\ pc[c] \in Outside /\ pc'[c] \in Outside
        /\ UNCHANGED <<resumeSent, handler, suspendAck, resumeAck, lock>>
    <3>1. CASE AlreadySuspended(c) \/ SuspendFails(c)
      BY <3>1, <1>g DEF AlreadySuspended, SuspendFails, Outside, protocolVars
    <3>2. CASE RequestSuspend(c) \/ SetSafepoint(c)
      BY <3>2, <1>g DEF RequestSuspend, SetSafepoint, Outside, protocolVars
    <3>3. CASE Relock(c) \/ CancelRequest(c)
      BY <3>3, <1>g DEF Relock, CancelRequest, Outside, protocolVars
    <3> QED BY <1>1, <3>1, <3>2, <3>3
  <2>a. pub' = pub \/ pub' = pub \cup {"requested"} \/ pub' = pub \ {"requested"}
    BY <1>1 DEF AlreadySuspended, SuspendFails, RequestSuspend, SetSafepoint, Relock,
                CancelRequest, protocolVars
  <2>b. ~suspendRequested => ~suspendRequested'
    BY <1>1 DEF AlreadySuspended, SuspendFails, RequestSuspend, SetSafepoint, Relock,
                CancelRequest, protocolVars
  <2>2. /\ "suspended" \in pub' <=> "suspended" \in pub
        /\ ~suspendRequested => ~suspendRequested'
    BY <2>a, <2>b
  <2>3. Resting'
    BY <1>r, <1>s, <1>t, <2>1, <2>2 DEF Resting
  <2> QED BY <1>f, <2>1, <2>3, OneMoves
<1>2. CASE SuspendOther(c)
  <2>1. /\ pc[c] = "suspend" /\ pc'[c] = "waitAck" /\ lock' = c
        /\ "suspended" \notin pub /\ "suspended" \in pub' /\ handler' = "pending"
        /\ UNCHANGED <<suspendRequested, resumeSent, suspendAck, resumeAck>>
    BY <1>2, <1>g DEF SuspendOther
  <2>2. Resting
    BY <1>r, <2>1 DEF Outside
  <2>3. WaitsAck(c)'
    BY <1>s, <2>1, <2>2 DEF Resting, WaitsAck
  <2> QED BY <1>f, <2>1, <2>3, OneMoves
<1>3. CASE SuspendOk(c)
  <2>1. /\ pc[c] = "waitAck" /\ pc'[c] = "idle" /\ lock' = Nobody /\ suspendAck > 0
        /\ suspendAck' = suspendAck - 1 /\ locksHeld = 0
        /\ UNCHANGED <<pub, suspendRequested, resumeSent, handler, resumeAck>>
    BY <1>3, <1>g DEF SuspendOk
  <2>2. WaitsAck(c)
    BY <1>i, <2>1 DEF Protocol
  <2>3. handler = "asleep" /\ suspendAck = 1
    BY <2>1, <2>2 DEF WaitsAck
  <2>4. Resting' /\ pc'[c] \in Outside
    BY <1>s, <1>t, <2>1, <2>2, <2>3 DEF Resting, WaitsAck, Outside
  <2> QED BY <1>f, <2>4, OneMoves
<1>4. CASE LetGoOfLocks(c)
  <2>1. /\ pc[c] = "waitAck" /\ pc'[c] = "waitResumed" /\ suspendAck > 0 /\ locksHeld > 0
        /\ suspendAck' = suspendAck - 1 /\ "suspended" \notin pub'
        /\ suspendRequested' /\ resumeSent'
        /\ UNCHANGED <<handler, resumeAck, lock>>
    BY <1>4, <1>g DEF LetGoOfLocks
  <2>2. WaitsAck(c)
    BY <1>i, <2>1 DEF Protocol
  <2>3. handler = "asleep" /\ suspendAck = 1
    BY <2>1, <2>2 DEF WaitsAck
  <2>4. Promised
    BY <2>1, <2>2 DEF WaitsAck, Normal, Promised
  <2>5. WaitsResumed(c)'
    BY <1>s, <2>1, <2>2, <2>3, <2>4 DEF WaitsAck, WaitsResumed
  <2> QED BY <1>f, <2>1, <2>5, OneMoves
<1>5. CASE TargetResumed(c)
  <2>1. /\ pc[c] = "waitResumed" /\ pc'[c] = "waitSuspended" /\ resumeAck > 0
        /\ resumeAck' = resumeAck - 1 /\ lock' = Nobody
        /\ UNCHANGED <<pub, suspendRequested, resumeSent, handler, suspendAck>>
    BY <1>5, <1>g DEF TargetResumed
  <2>2. WaitsResumed(c)
    BY <1>i, <2>1 DEF Protocol
  <2>3. WaitsSuspended'
    BY <1>s, <2>1, <2>2 DEF WaitsResumed, WaitsSuspended
  <2> QED BY <1>f, <2>1, <2>3, OneMoves
<1>6. CASE TargetSuspended(c)
  <2>1. /\ pc[c] = "waitSuspended" /\ pc'[c] = "relock" /\ suspendAck > 0
        /\ suspendAck' = suspendAck - 1
        /\ UNCHANGED <<pub, suspendRequested, resumeSent, handler, resumeAck, lock>>
    BY <1>6, <1>g DEF TargetSuspended
  <2>2. WaitsSuspended
    BY <1>i, <2>1 DEF Protocol
  <2>3. /\ suspendAck = 1 /\ ~suspendRequested /\ "suspended" \in pub
        /\ locksHeld = 0 /\ Sleeping(todo, Own)
    BY <2>1, <2>2 DEF WaitsSuspended
  <2>4. Normal' /\ SleepSoon'
    BY <1>s, <1>t, <2>3 DEF Normal, SleepSoon
  <2>5. Resting' /\ pc'[c] \in Outside
    BY <2>1, <2>2, <2>3, <2>4 DEF Resting, WaitsSuspended, Outside
  <2> QED BY <1>f, <2>5, OneMoves
<1>7. CASE Resume(c)
  <2>1. /\ pc[c] = "resume" /\ pc'[c] = "waitRunning" /\ lock' = c
        /\ "suspended" \in pub /\ "suspended" \notin pub' /\ resumeSent'
        /\ UNCHANGED <<suspendRequested, handler, suspendAck, resumeAck>>
    BY <1>7, <1>g DEF Resume
  <2>2. Resting
    BY <1>r, <2>1 DEF Outside
  <2>3. WaitsRunning(c)'
    BY <1>s, <1>t, <2>1, <2>2 DEF Resting, WaitsRunning
  <2> QED BY <1>f, <2>1, <2>3, OneMoves
<1>8. CASE Resumed(c)
  <2>1. /\ pc[c] = "waitRunning" /\ pc'[c] = "idle" /\ resumeAck > 0
        /\ resumeAck' = resumeAck - 1 /\ lock' = Nobody
        /\ UNCHANGED <<pub, suspendRequested, resumeSent, handler, suspendAck>>
    BY <1>8, <1>g DEF Resumed
  <2>2. WaitsRunning(c)
    BY <1>i, <2>1 DEF Protocol
  <2>3. Resting' /\ pc'[c] \in Outside
    BY <1>s, <2>1, <2>2 DEF Resting, WaitsRunning, Outside
  <2> QED BY <1>f, <2>3, OneMoves
<1> QED BY <1>1, <1>2, <1>3, <1>4, <1>5, <1>6, <1>7, <1>8 DEF ControllerStep

\* and the types.
LEMMA InsideTypes ==
    ASSUME SuspendInv, NEW c \in Controllers, ControllerStep(c)
    PROVE  Types'
<1>i. OneInside /\ Types
  BY DEF SuspendInv
<1>1. UNCHANGED <<life, todo, wsj, managed>>
  BY DEF ControllerStep, targetVars
<1>2. CASE \/ AlreadySuspended(c) \/ SuspendFails(c) \/ RequestSuspend(c) \/ SetSafepoint(c)
           \/ Relock(c) \/ CancelRequest(c)
  <2>1. UNCHANGED <<resumeSent, handler>> /\ safepoint' \in BOOLEAN /\ suspendRequested' \in BOOLEAN
    BY <1>i, <1>2 DEF AlreadySuspended, SuspendFails, RequestSuspend, SetSafepoint, Relock,
                      CancelRequest, protocolVars, Types
  <2>2. pub' \subseteq {"suspended", "self", "requested"}
    BY <1>i, <1>2 DEF AlreadySuspended, SuspendFails, RequestSuspend, SetSafepoint, Relock,
                      CancelRequest, protocolVars, Types
  <2>3. {wsj, suspendRequested, resumeSent, managed, safepoint}' \subseteq BOOLEAN
    BY <1>i, <1>1, <2>1 DEF Types
  <2> QED BY <1>i, <1>1, <2>1, <2>2, <2>3 DEF Types
<1>3. CASE SuspendOther(c) \/ SuspendOk(c) \/ LetGoOfLocks(c) \/ TargetResumed(c)
           \/ TargetSuspended(c) \/ Resume(c) \/ Resumed(c)
  <2>1. /\ safepoint' = safepoint /\ suspendRequested' \in BOOLEAN /\ resumeSent' \in BOOLEAN
        /\ handler' = handler \/ life # "registered"
    BY <1>i, <1>3 DEF SuspendOther, SuspendOk, LetGoOfLocks, TargetResumed, TargetSuspended,
                      Resume, Resumed, Types
  <2>2. pub' \subseteq {"suspended", "self", "requested"}
    BY <1>i, <1>3 DEF SuspendOther, SuspendOk, LetGoOfLocks, TargetResumed, TargetSuspended,
                      Resume, Resumed, Types
  <2>3. {wsj, suspendRequested, resumeSent, managed, safepoint}' \subseteq BOOLEAN
    BY <1>i, <1>1, <2>1 DEF Types
  <2> QED BY <1>i, <1>1, <2>1, <2>2, <2>3 DEF Types
<1> QED BY <1>2, <1>3 DEF ControllerStep

-----------------------------------------------------------------------------
(* The monitor and the types in a step of the target. *)

\* A target about to leave its monitor has entered it.
LEMMA UnregistersInside ==
    ASSUME Protocol, OneInside, Unregister
    PROVE  Own
<1>1. todo # <<>> /\ Head(todo) = "unregister" /\ Own \in BOOLEAN
  BY DoesOp, OwnType DEF Unregister
<1>2. /\ ~Asking(todo, Own) /\ ~Unlocking(todo, Own) /\ ~Sleeping(todo, Own)
      /\ ~AskedLock(todo, Own) /\ ~AskedSuspend(todo, Own) /\ ~AskedUnlock(todo, Own)
      /\ ~AskedAck(todo, Own)
  BY <1>1, NextOps
<1>3. todo \in Plain(Own) => Own
  BY <1>1, PlainOps
<1>4. Normal \/ Promised \/ AskedUnlock(todo, Own) \/ AskedAck(todo, Own) \/ Sleeping(todo, Own)
  <2>1. CASE \A c \in Controllers : pc[c] \in Outside
    BY <2>1 DEF Protocol, Resting
  <2>2. ASSUME NEW c \in Controllers, pc[c] \notin Outside
        PROVE  WaitsAck(c) \/ WaitsResumed(c) \/ WaitsSuspended \/ WaitsRunning(c)
    BY <2>2 DEF Protocol, OneInside, PCs
  <2> QED BY <2>1, <2>2 DEF WaitsAck, WaitsResumed, WaitsSuspended, WaitsRunning
<1> QED BY <1>2, <1>3, <1>4 DEF Normal, Promised

\* The target's step leaves the controllers where they are.
LEMMA TargetInside ==
    ASSUME SuspendInv, TargetStep
    PROVE  OneInside' /\ pc' = pc
<1>i. OneInside /\ Protocol
  BY DEF SuspendInv
<1>p. pc' = pc
  BY DEF TargetStep, controlVars
<1>a. Nobody # Target /\ Target \notin Controllers /\ Nobody \notin Controllers
  BY ThreadSuspendAssumption
<1>1. CASE EnterMonitor
  <2>1. monitor.owner \in {Nobody, Target} /\ monitor' = [owner |-> Target, count |-> monitor.count + 1]
    BY <1>1 DEF EnterMonitor, MayEnter, Enter
  <2>2. monitor.owner # Target
    <3>1. todo # <<>> /\ Head(todo) = "enterMonitor" /\ Own \in BOOLEAN
      BY <1>1, DoesOp, OwnType DEF EnterMonitor
    <3>2. \A c \in Controllers : pc[c] = "idle"
      BY <1>i, <1>a, <2>1 DEF OneInside
    <3>3. Normal
      BY <1>i, <3>2 DEF Protocol, Outside, Resting
    <3>4. ~Asking(todo, Own) /\ ~Unlocking(todo, Own) /\ ~Sleeping(todo, Own)
      BY <3>1, NextOps
    <3>5. todo \in Plain(Own)
      BY <3>3, <3>4 DEF Normal
    <3> QED BY <3>1, <3>5, PlainOps DEF Own
  <2>3. monitor.count = 0
    BY <1>i, <2>1, <2>2 DEF OneInside
  <2>4. monitor'.owner = Target /\ monitor'.count = 1
        /\ monitor' \in [owner : Controllers \cup {Target, Nobody}, count : Nat]
    BY <2>1, <2>3
  <2>5. \A c \in Controllers : pc[c] = "idle"
    BY <1>i, <1>a, <2>1 DEF OneInside
  <2> QED BY <1>i, <1>p, <1>a, <2>4, <2>5 DEF OneInside, Own
<1>2. CASE Unregister
  <2>1. Own
    BY <1>i, <1>2, UnregistersInside
  <2>2. monitor' = Free /\ \A c \in Controllers : pc[c] = "idle"
    BY <1>i, <1>2, <1>a, <2>1 DEF OneInside, Unregister, Leave, Own
  <2>3. monitor'.owner = Nobody /\ monitor'.count = 0
        /\ monitor' \in [owner : Controllers \cup {Target, Nobody}, count : Nat]
    BY <2>2 DEF Free
  <2> QED BY <1>i, <1>p, <1>a, <2>2, <2>3 DEF OneInside, Own
<1>3. CASE ~EnterMonitor /\ ~Unregister
  <2>1. monitor' = monitor
    <3>1. CASE PlainStep \/ Start \/ Begin \/ CountLock \/ Uncount
      BY <3>1, PlainStepOps DEF Start, Begin, CountLock, Uncount, engineVars
    <3>2. CASE \/ SuspendNow \/ Ack \/ SleepEnds \/ SuspendSelf \/ HonourRequest
               \/ HandlerBegins \/ HandlerEnds
      BY <3>2 DEF SuspendNow, Ack, SleepEnds, SuspendSelf, HonourRequest, HandlerBegins,
                  HandlerEnds, engineVars
    <3> QED BY <1>3, <3>1, <3>2, Step DEF TargetQuiet, PlainStep
  <2> QED BY <1>i, <1>p, <2>1 DEF OneInside, Own
<1> QED BY <1>p, <1>1, <1>2, <1>3

\* It keeps the types,
LEMMA TargetTypes ==
    ASSUME Types, TargetStep
    PROVE  Types'
<1>1. /\ wsj' \in BOOLEAN /\ managed' \in BOOLEAN /\ safepoint' \in BOOLEAN
      /\ suspendRequested' \in BOOLEAN /\ resumeSent' \in BOOLEAN
  <2>t. /\ wsj \in BOOLEAN /\ managed \in BOOLEAN /\ safepoint \in BOOLEAN
        /\ suspendRequested \in BOOLEAN /\ resumeSent \in BOOLEAN
    BY DEF Types
  <2>1. CASE Start \/ Begin \/ CountLock \/ Uncount \/ EnterMonitor \/ Unregister
    BY <2>1, <2>t DEF Start, Begin, CountLock, Uncount, EnterMonitor, Unregister, protocolVars,
                      engineVars
  <2>2. CASE EnterWait \/ LeaveWaitState \/ AnyRequest \/ LeaveWait \/ ClearWait \/ BeginNative
    BY <2>2, <2>t DEF EnterWait, LeaveWaitState, AnyRequest, LeaveWait, ClearWait, BeginNative,
                      protocolVars, engineVars
  <2>3. CASE Barrier \/ BarrierState \/ EndNative \/ SuspendNow \/ Ack \/ SleepEnds
    BY <2>3, <2>t DEF Barrier, BarrierState, EndNative, SuspendNow, Ack, SleepEnds, protocolVars,
                      engineVars
  <2>4. CASE SuspendSelf \/ HonourRequest \/ HandlerBegins \/ HandlerEnds
    BY <2>4, <2>t DEF SuspendSelf, HonourRequest, HandlerBegins, HandlerEnds, targetVars, engineVars
  <2> QED BY <2>1, <2>2, <2>3, <2>4 DEF TargetStep
<1>2. pub' \subseteq {"suspended", "self", "requested"}
  <2>1. CASE TargetQuiet
    BY <2>1, QuietFrame DEF Types, protocolVars
  <2>2. CASE SuspendNow \/ SuspendSelf \/ HonourRequest
    <3>1. pub' = Suspended \/ pub' = pub
      BY <2>2 DEF SuspendNow, SuspendSelf, HonourRequest
    <3> QED BY <3>1 DEF Types, Suspended
  <2>3. CASE Ack \/ SleepEnds \/ HandlerBegins \/ HandlerEnds
    BY <2>3 DEF Types, Ack, SleepEnds, HandlerBegins, HandlerEnds
  <2> QED BY <2>1, <2>2, <2>3, Step
<1>3. /\ life' \in {"registered", "running", "destroyed"}
      /\ life' = "registered" => life = "registered" /\ ~Start
  <2>1. CASE Start \/ Begin \/ CountLock \/ Uncount \/ EnterMonitor \/ Unregister
    BY <2>1 DEF Start, Begin, CountLock, Uncount, EnterMonitor, Unregister, engineVars, Types
  <2>2. CASE PlainStep
    BY <2>2, PlainStepOps DEF Start, Types
  <2>3. CASE \/ SuspendNow \/ Ack \/ SleepEnds \/ SuspendSelf \/ HonourRequest
             \/ HandlerBegins \/ HandlerEnds
    BY <2>3 DEF SuspendNow, Ack, SleepEnds, SuspendSelf, HonourRequest, HandlerBegins,
                HandlerEnds, engineVars, Start, Types
  <2> QED BY <2>1, <2>2, <2>3, Step DEF TargetQuiet, PlainStep
<1>4. life' # "registered"
  <2> SUFFICES ASSUME life = "registered", ~Start
               PROVE  FALSE
    BY <1>3
  <2>1. todo = <<>> /\ handler = "none"
    BY DEF Types
  <2>2. ~PlainStep
    BY <2>1, PlainStepOps
  <2>3. ~CountLock /\ ~Uncount /\ ~EnterMonitor /\ ~Unregister
    BY <2>1 DEF CountLock, Uncount, EnterMonitor, Unregister, Does, NextOp
  <2>4. ~SuspendNow /\ ~Ack /\ ~SleepEnds /\ ~SuspendSelf /\ ~HonourRequest
    BY <2>1 DEF SuspendNow, Ack, SleepEnds, SuspendSelf, HonourRequest, Does, NextOp
  <2>5. ~HandlerBegins /\ ~HandlerEnds /\ ~Begin
    BY <2>1 DEF HandlerBegins, HandlerEnds, Begin
  <2> QED BY <2>2, <2>3, <2>4, <2>5, Step DEF TargetQuiet, PlainStep
<1>5. {wsj, suspendRequested, resumeSent, managed, safepoint}' \subseteq BOOLEAN
  BY <1>1
<1> QED BY <1>2, <1>3, <1>4, <1>5 DEF Types

\* and the protocol.
LEMMA TargetProtocol ==
    ASSUME SuspendInv, TargetStep
    PROVE  Protocol'
<1>i. OneInside /\ Types /\ Protocol
  BY DEF SuspendInv
<1>p. pc' = pc
  BY TargetInside
<1>1. (\A c \in Controllers : pc[c] \in Outside) => Resting'
  BY <1>i, RestingStep DEF Protocol
<1>2. ASSUME NEW c \in Controllers
      PROVE  /\ pc[c] = "waitAck" => WaitsAck(c)'
             /\ pc[c] = "waitResumed" => WaitsResumed(c)'
             /\ pc[c] = "waitSuspended" => WaitsSuspended'
             /\ pc[c] = "waitRunning" => WaitsRunning(c)'
  <2>1. CASE pc[c] = "waitAck"
    BY <1>i, <2>1, WaitsAckStep DEF Protocol
  <2>2. CASE pc[c] = "waitResumed"
    BY <1>i, <2>2, WaitsResumedStep DEF Protocol
  <2>3. CASE pc[c] = "waitSuspended"
    BY <1>i, <2>3, WaitsSuspendedStep DEF Protocol
  <2>4. CASE pc[c] = "waitRunning"
    BY <1>i, <2>4, WaitsRunningStep DEF Protocol
  <2> QED BY <2>1, <2>2, <2>3, <2>4
<1> QED BY <1>p, <1>1, <1>2 DEF Protocol

-----------------------------------------------------------------------------
(* The theorems. *)

\* SuspendInv holds in the beginning and is kept by every step.
LEMMA Inductive ==
    /\ Init => SuspendInv
    /\ SuspendInv /\ [Next]_vars => SuspendInv'
<1>1. Init => SuspendInv
  <2> SUFFICES ASSUME Init PROVE SuspendInv
    OBVIOUS
  <2>1. Types
    BY DEF Init, Types
  <2>2. ~Own /\ OneInside
    <3>1. monitor.owner = Nobody /\ monitor.count = 0
          /\ monitor \in [owner : Controllers \cup {Target, Nobody}, count : Nat]
      BY DEF Init, Free
    <3> QED BY <3>1, ThreadSuspendAssumption DEF Init, Own, OneInside, PCs, Outside
  <2>3. Normal
    BY <2>2 DEF Init, Normal, Plain
  <2>4. Protocol
    BY <2>3 DEF Init, Protocol, Resting, Outside
  <2> QED BY <2>1, <2>2, <2>4 DEF SuspendInv
<1>2. ASSUME SuspendInv, [Next]_vars PROVE SuspendInv'
  <2>1. CASE TargetStep
    BY <1>2, <2>1, TargetInside, TargetTypes, TargetProtocol DEF SuspendInv
  <2>2. ASSUME NEW c \in Controllers, ControllerCall(c) PROVE SuspendInv'
    BY <1>2, <2>2, CallStep
  <2>3. ASSUME NEW c \in Controllers, ControllerStep(c) PROVE SuspendInv'
    BY <1>2, <2>3, InsideFrame, InsideTypes, InsideProtocol DEF SuspendInv
  <2>4. CASE UNCHANGED vars
    <3>1. UNCHANGED <<pub, suspendRequested, resumeSent, handler, suspendAck, resumeAck, lock, wsj,
                      locksHeld, managed, todo, safepoint, life, monitor, pc>>
      BY <2>4 DEF vars, protocolVars, targetVars, engineVars, controlVars
    <3>2. Own' = Own
      BY <3>1 DEF Own
    <3>3. Normal' = Normal /\ Promised' = Promised /\ SleepSoon' = SleepSoon /\ StopSoon' = StopSoon
      BY <3>1, <3>2 DEF Normal, Promised, SleepSoon, StopSoon
    <3>4. Protocol'
      BY <1>2, <3>1, <3>2, <3>3
         DEF SuspendInv, Protocol, Resting, WaitsAck, WaitsResumed, WaitsSuspended, WaitsRunning
    <3>5. OneInside' /\ Types'
      BY <1>2, <3>1, <3>2 DEF SuspendInv, OneInside, Types
    <3> QED BY <3>4, <3>5 DEF SuspendInv
  <2> QED BY <1>2, <2>1, <2>2, <2>3, <2>4 DEF Next
<1> QED BY <1>1, <1>2

\* One of the five.
LEMMA Phases ==
    ASSUME SuspendInv
    PROVE  \/ Resting
           \/ \E c \in Controllers : pc[c] = "waitAck" /\ WaitsAck(c)
           \/ \E c \in Controllers : pc[c] = "waitResumed" /\ WaitsResumed(c)
           \/ \E c \in Controllers : pc[c] = "waitSuspended" /\ WaitsSuspended
           \/ \E c \in Controllers : pc[c] = "waitRunning" /\ WaitsRunning(c)
  BY DEF SuspendInv, Protocol, OneInside, PCs

\* The head of what is left tells where the target is.
LEMMA AtSleep ==
    ASSUME NextOp = "sleep"
    PROVE  /\ Normal => locksHeld = 0
           /\ ~Promised /\ ~AskedUnlock(todo, Own) /\ ~AskedAck(todo, Own)
<1>1. todo # <<>> /\ Head(todo) = "sleep" /\ Own \in BOOLEAN
  BY OwnType DEF NextOp
<1>2. /\ ~Asking(todo, Own) /\ ~Unlocking(todo, Own) /\ ~AskedLock(todo, Own)
      /\ ~AskedSuspend(todo, Own) /\ ~AskedUnlock(todo, Own) /\ ~AskedAck(todo, Own)
  BY <1>1, NextOps
<1> QED BY <1>2 DEF Normal, Promised

\* A target on its way to sleep is what the property calls so.
LEMMA Sleepy ==
    ASSUME SleepSoon \/ StopSoon \/ AskedUnlock(todo, Own) \/ AskedAck(todo, Own)
    PROVE  NextOp = "sleep" \/ GoesToSleep
<1>o. Own \in BOOLEAN
  BY OwnType
<1>r. Rest(Own) \subseteq Seq(Op) /\ Afterwards(Own) \subseteq Seq(Op)
  BY <1>o, RestSeq
<1>1. CASE Sleeping(todo, Own)
  BY <1>o, <1>1, NextOps DEF NextOp
<1>p. ASSUME NEW p \in Seq(Op), NEW r \in Seq(Op), todo = p \o r, Len(p) \in Nat \ {0},
             p[Len(p)] = "sleep",
             \A j \in 1 .. Len(p) - 1 : p[j] \in {"lock", "suspendNow", "unlock", "ack"}
      PROVE  GoesToSleep
  <2>1. Len(p) \in DOMAIN todo /\ todo[Len(p)] = "sleep"
    BY <1>p
  <2>2. \A j \in 1 .. Len(p) - 1 : todo[j] \in {"lock", "suspendNow", "unlock", "ack"}
    BY <1>p
  <2> QED BY <2>1, <2>2 DEF GoesToSleep
<1>2. CASE UnlockSleep(todo, Own)
  <2>1. PICK r \in Rest(Own) : todo = <<"unlock">> \o (<<"sleep">> \o r)
    BY <1>2 DEF UnlockSleep
  <2>2. <<"unlock">> \in Seq(Op) /\ <<"sleep">> \in Seq(Op) /\ r \in Seq(Op)
    BY <1>r DEF Op
  <2>3. <<"unlock">> \o <<"sleep">> = <<"unlock", "sleep">>
    BY Concats
  <2>4. todo = <<"unlock", "sleep">> \o r
    BY <2>1, <2>2, <2>3, ConcatAssociative
  <2>5. <<"unlock", "sleep">> \in Seq(Op)
    BY DEF Op
  <2> DEFINE p == <<"unlock", "sleep">>
  <2>f. /\ Len(p) \in Nat \ {0} /\ p[Len(p)] = "sleep"
        /\ \A j \in 1 .. Len(p) - 1 : p[j] \in {"lock", "suspendNow", "unlock", "ack"}
    OBVIOUS
  <2> HIDE DEF p
  <2>g. p \in Seq(Op) /\ todo = p \o r
    BY <2>2, <2>4, <2>5 DEF p
  <2> QED BY <1>p, <2>2, <2>f, <2>g
<1>3. CASE AskedLock(todo, Own)
  <2>1. PICK r \in Seq(Op) : todo = <<"lock", "suspendNow", "unlock", "ack", "sleep">> \o r
    BY <1>r, <1>3 DEF AskedLock
  <2>2. <<"lock", "suspendNow", "unlock", "ack", "sleep">> \in Seq(Op)
    BY DEF Op
  <2> DEFINE p == <<"lock", "suspendNow", "unlock", "ack", "sleep">>
  <2>f. /\ Len(p) \in Nat \ {0} /\ p[Len(p)] = "sleep"
        /\ \A j \in 1 .. Len(p) - 1 : p[j] \in {"lock", "suspendNow", "unlock", "ack"}
    OBVIOUS
  <2> HIDE DEF p
  <2>g. p \in Seq(Op) /\ todo = p \o r
    BY <2>1, <2>2 DEF p
  <2> QED BY <1>p, <2>f, <2>g
<1>4. CASE AskedSuspend(todo, Own)
  <2>1. PICK r \in Seq(Op) : todo = <<"suspendNow", "unlock", "ack", "sleep">> \o r
    BY <1>r, <1>4 DEF AskedSuspend
  <2>2. <<"suspendNow", "unlock", "ack", "sleep">> \in Seq(Op)
    BY DEF Op
  <2> DEFINE p == <<"suspendNow", "unlock", "ack", "sleep">>
  <2>f. /\ Len(p) \in Nat \ {0} /\ p[Len(p)] = "sleep"
        /\ \A j \in 1 .. Len(p) - 1 : p[j] \in {"lock", "suspendNow", "unlock", "ack"}
    OBVIOUS
  <2> HIDE DEF p
  <2>g. p \in Seq(Op) /\ todo = p \o r
    BY <2>1, <2>2 DEF p
  <2> QED BY <1>p, <2>f, <2>g
<1>5. CASE AskedUnlock(todo, Own)
  <2>1. PICK r \in Seq(Op) : todo = <<"unlock", "ack", "sleep">> \o r
    BY <1>r, <1>5 DEF AskedUnlock
  <2>2. <<"unlock", "ack", "sleep">> \in Seq(Op)
    BY DEF Op
  <2> DEFINE p == <<"unlock", "ack", "sleep">>
  <2>f. /\ Len(p) \in Nat \ {0} /\ p[Len(p)] = "sleep"
        /\ \A j \in 1 .. Len(p) - 1 : p[j] \in {"lock", "suspendNow", "unlock", "ack"}
    OBVIOUS
  <2> HIDE DEF p
  <2>g. p \in Seq(Op) /\ todo = p \o r
    BY <2>1, <2>2 DEF p
  <2> QED BY <1>p, <2>f, <2>g
<1>6. CASE AskedAck(todo, Own)
  <2>1. PICK r \in Seq(Op) : todo = <<"ack", "sleep">> \o r
    BY <1>r, <1>6 DEF AskedAck
  <2>2. <<"ack", "sleep">> \in Seq(Op)
    BY DEF Op
  <2> DEFINE p == <<"ack", "sleep">>
  <2>f. /\ Len(p) \in Nat \ {0} /\ p[Len(p)] = "sleep"
        /\ \A j \in 1 .. Len(p) - 1 : p[j] \in {"lock", "suspendNow", "unlock", "ack"}
    OBVIOUS
  <2> HIDE DEF p
  <2>g. p \in Seq(Op) /\ todo = p \o r
    BY <2>1, <2>2 DEF p
  <2> QED BY <1>p, <2>f, <2>g
<1> QED BY <1>1, <1>2, <1>3, <1>4, <1>5, <1>6 DEF SleepSoon, StopSoon

(* The types, and the bounds of the semaphores: at most one                *)
(* acknowledgement is posted and not yet taken, and numLocksHeld stays     *)
(* within the locks the target takes.                                      *)
THEOREM TypeCorrect == Spec => []TypeOK
<1>1. SuspendInv => TypeOK
  <2> SUFFICES ASSUME SuspendInv PROVE TypeOK
    OBVIOUS
  <2>1. /\ lock \in Controllers \cup {Nobody}
        /\ suspendAck \in 0 .. 1 /\ resumeAck \in 0 .. 1
    BY Phases DEF Resting, WaitsAck, WaitsResumed, WaitsSuspended, WaitsRunning
  <2>2. locksHeld \in 0 .. 2
    BY Phases DEF Resting, WaitsAck, WaitsResumed, WaitsSuspended, WaitsRunning, Normal, Promised
  <2>3. monitor.owner = Nobody <=> monitor.count = 0
    BY DEF SuspendInv, OneInside
  <2>4. /\ pub \subseteq {"suspended", "self", "requested"}
        /\ {wsj, suspendRequested, resumeSent, managed, safepoint} \subseteq BOOLEAN
    BY DEF SuspendInv, Types
  <2> QED BY <2>1, <2>2, <2>3, <2>4 DEF TypeOK
<1> QED BY <1>1, Inductive, PTL DEF Spec

(* A stopped target that no controller is about to let go on holds no lock *)
(* (numLocksHeld is 0): the retry of ILThreadSuspendRequest does what its  *)
(* comment promises, for any number of controllers.                        *)
THEOREM StoppedHoldsNothing == Spec => []SuspendedHoldsNothing
<1>1. SuspendInv => SuspendedHoldsNothing
  <2> SUFFICES ASSUME SuspendInv, Stopped,
                      \A c \in Controllers : pc[c] \notin {"waitAck", "waitResumed"}
               PROVE  locksHeld = 0
    BY DEF SuspendedHoldsNothing, InSuspend
  <2>1. CASE Resting
    BY <2>1, AtSleep DEF Resting, Stopped
  <2>2. CASE WaitsSuspended
    BY <2>2, AtSleep DEF WaitsSuspended, Stopped
  <2>3. ASSUME NEW c \in Controllers, WaitsRunning(c) PROVE locksHeld = 0
    BY <2>3, AtSleep DEF WaitsRunning, Stopped
  <2> QED BY <2>1, <2>2, <2>3, Phases
<1> QED BY <1>1, Inductive, PTL DEF Spec

(* A thread marked IL_TS_SUSPENDED is stopped, or only lets go of its lock *)
(* and acknowledges before it stops, unless the controller that suspends   *)
(* it still waits for the handler's acknowledgement.                       *)
THEOREM MarkedIsStopped == Spec => []SuspendedIsStopped
<1>1. SuspendInv => SuspendedIsStopped
  <2> SUFFICES ASSUME SuspendInv, "suspended" \in pub,
                      \A c \in Controllers : pc[c] # "waitAck"
               PROVE  Stopped \/ GoesToSleep
    BY DEF SuspendedIsStopped
  <2>1. CASE Resting
    BY <2>1, Sleepy DEF Resting, Stopped
  <2>2. CASE WaitsSuspended
    BY <2>2, Sleepy DEF WaitsSuspended, Stopped, SleepSoon
  <2>3. ASSUME NEW c \in Controllers PROVE ~WaitsResumed(c) /\ ~WaitsRunning(c)
    BY DEF WaitsResumed, WaitsRunning
  <2> QED BY <2>1, <2>2, <2>3, Phases
<1> QED BY <1>1, Inductive, PTL DEF Spec

(* Every acknowledgement in suspendAck or resumeAck is for a controller    *)
(* that waits for it now; none is left over for a later call.              *)
THEOREM AcksAreFresh == Spec => []NoStaleAck
<1>1. SuspendInv => NoStaleAck
  BY Phases DEF NoStaleAck, Resting, WaitsAck, WaitsResumed, WaitsSuspended, WaitsRunning
<1> QED BY <1>1, Inductive, PTL DEF Spec
=============================================================================

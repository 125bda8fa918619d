------------------------------ MODULE CCtorMgr ------------------------------
(***************************************************************************)
(* The class constructor manager (engine/cctormgr.c) with the part of the  *)
(* method converter that drives it (engine/convert.c, ConvertMethod).      *)
(*                                                                         *)
(* A method is converted at its first call, under the metadata write lock. *)
(* Conversion queues the classes that the method needs initialised; the    *)
(* queue is run after the metadata lock has been given up, under the lock  *)
(* of the manager, while an entry of the pool of locked methods keeps the  *)
(* other callers of the method away: they wait on the entry's semaphore,   *)
(* except the thread that runs constructors, which runs the entry's        *)
(* classes itself.                                                         *)
(*                                                                         *)
(* A thread is a stack of frames, the innermost call last. The manager's   *)
(* lock and the pool of locked methods are as in the code; the pool's own  *)
(* mutex is only held inside one action. A method is converted once, so    *)
(* its lock entry is identified with it.                                   *)
(***************************************************************************)
EXTENDS Integers, FiniteSets, SequencesExt

CONSTANTS Threads, Classes, Methods,
          Static,        \* methods that are static or constructors
          Owner,         \* the class a method belongs to
          Body,          \* what a method does, in order: <<"call", method>>,
                         \* <<"field", class>>: access to a static field
          CCtor,         \* a class's static constructor, or NoMethod
          BeforeFieldInit,  \* classes flagged before-field-init
          Throws,        \* classes whose constructor may throw
          Jit,           \* the coder is the JIT: calls queue classes too
          MetaLock,      \* what the metadata lock is: a POSIX "rwlock", the
                         \* "mutex" that replaces it where there is none, or
                         \* a "critical" section of Windows
          MaxCalls,      \* calls from outside a thread makes
          NoThread, NoMethod, NoClass, Broken

ASSUME CCtorAssumption ==
    /\ IsFiniteSet(Threads)
    /\ Owner \in [Methods -> Classes]
    /\ Body \in [Methods -> Seq(({"call"} \X Methods) \cup ({"field"} \X Classes))]
    /\ Static \subseteq Methods
    /\ CCtor \in [Classes -> Methods \cup {NoMethod}]
    /\ BeforeFieldInit \subseteq Classes /\ Throws \subseteq Classes
    /\ Jit \in BOOLEAN /\ MetaLock \in {"rwlock", "mutex", "critical"} /\ MaxCalls \in Nat
    /\ NoThread \notin Threads /\ Broken \notin Threads /\ NoThread # Broken
    /\ NoMethod \notin Methods /\ NoClass \notin Classes

VARIABLES meta,       \* the writer of the metadata lock, or Broken
          depth,      \* how often it holds it
          holder,     \* cctorMgr->thread, the owner of cctorMgr->lock
          running,    \* classes flagged IL_META_TYPEDEF_CCTOR_RUNNING
          once,       \* classes flagged IL_META_TYPEDEF_CCTOR_ONCE
          converted,  \* methods whose userData is stored
          entry,      \* a method's ILMethodLockEntry
          stack,      \* the frames of a thread
          calls       \* outside calls each thread has made

lockVars == <<meta, depth>>
classVars == <<running, once>>
vars == <<lockVars, holder, classVars, converted, entry, stack, calls>>

Frame(m, pc, cls) ==
    [m |-> m, pc |-> pc, cls |-> cls,  \* cls: the class constructed, if any
     i |-> 1,          \* next step of the body
     q |-> <<>>,       \* classes still to initialise
     own |-> FALSE,    \* this frame took the manager's lock
     ok |-> TRUE]      \* result of the constructors

Top(t) == stack[t][Len(stack[t])]
At(t, pc) == stack[t] # <<>> /\ Top(t).pc = pc
Below(t) == Front(stack[t])

\* The stack with its top frame replaced by f.
Goto(t, f) == stack' = [stack EXCEPT ![t] = Append(Front(@), f)]

-----------------------------------------------------------------------------
(* The metadata lock                                                       *)

\* Of the three, only a critical section lets its owner in again. What a
\* Broken lock does is undefined: it may let anybody in.
CanLock(t) == \/ meta \in {NoThread, Broken}
              \/ MetaLock = "critical" /\ meta = t

WriteLock(t) ==
    /\ CanLock(t)
    /\ IF meta = Broken THEN UNCHANGED lockVars
                        ELSE meta' = t /\ depth' = depth + 1

\* The unlock of a thread that does not have the lock breaks it.
WriteUnlock(t) ==
    IF meta = t
    THEN meta' = (IF depth = 1 THEN NoThread ELSE t) /\ depth' = depth - 1
    ELSE meta' = Broken /\ depth' = 0

\* Lock, do what the action says, unlock.
LockAndUnlock(t) == CanLock(t) /\ UNCHANGED lockVars

(***************************************************************************)
(* IL_METADATA_RDLOCK ... IL_METADATA_UNLOCK around the search for the     *)
(* static constructor, by a thread that may hold the lock for writing. A   *)
(* rwlock refuses it the read lock, the result is not looked at, and the   *)
(* unlock gives the write lock up; on a mutex the thread waits for itself. *)
(***************************************************************************)
CanReadLock(t) == \/ meta \in {NoThread, Broken}
                  \/ MetaLock # "mutex" /\ meta = t

ReadLockAndUnlock(t) ==
    /\ CanReadLock(t)
    /\ IF MetaLock = "rwlock" /\ meta = t
       THEN meta' = NoThread /\ depth' = 0
       ELSE UNCHANGED lockVars

-----------------------------------------------------------------------------
(* Conversion: which classes a method queues                               *)

IsStaticConstructor(m) == CCtor[Owner[m]] = m

SetCurrentMethod(m) ==
    IF m \in Static /\ Owner[m] \notin BeforeFieldInit THEN {Owner[m]} ELSE {}

\* Inside a static constructor its own class is not asked for again.
InOwnCCtor(m, c) == IsStaticConstructor(m) /\ Owner[m] = c

OnCallMethod(m, callee) ==
    IF /\ Jit /\ callee \in Static /\ Owner[callee] \notin BeforeFieldInit
       /\ ~InOwnCCtor(m, Owner[callee])
    THEN {Owner[callee]} ELSE {}

OnStaticFieldAccess(m, c) == IF InOwnCCtor(m, c) THEN {} ELSE {c}

\* The class that conversion asks to be initialised: for the method as
\* such, and at each step of its body.
Positions(m) == 0 .. Len(Body[m])
Asks(m, i) ==
    IF i = 0 THEN SetCurrentMethod(m)
    ELSE IF Body[m][i][1] = "call" THEN OnCallMethod(m, Body[m][i][2])
    ELSE OnStaticFieldAccess(m, Body[m][i][2])
Asked(m) == UNION {Asks(m, i) : i \in Positions(m)}

\* _ILCCtorMgr_QueueClass: a class whose constructor is still to be called.
Queued(m) == {c \in Asked(m) : c \notin once /\ CCtor[c] # NoMethod}

\* ILCCtorMgr_FindOrAddClass keeps a class where it was first asked for, and
\* the newest is run first: there is one such queue.
FirstAsked(m, c) == Min({i \in Positions(m) : c \in Asks(m, i)})
Queue(m) == {q \in [1 .. Cardinality(Queued(m)) -> Queued(m)] :
                \A i, j \in DOMAIN q :
                    i < j => FirstAsked(m, q[i]) > FirstAsked(m, q[j])}

\* A class without a constructor is flagged as if it had been called.
Trivial(m) == {c \in Asked(m) : CCtor[c] = NoMethod}

-----------------------------------------------------------------------------
NoEntry == [state |-> "none", owner |-> NoThread, waiting |-> 0, sem |-> 0,
            classes |-> <<>>]

Init ==
    /\ meta = NoThread /\ depth = 0
    /\ holder = NoThread
    /\ running = {} /\ once = {} /\ converted = {}
    /\ entry = [m \in Methods |-> NoEntry]
    /\ stack = [t \in Threads |-> <<>>]
    /\ calls = [t \in Threads |-> 0]

\* A call: a method whose userData is stored is entered at once.
Called(m, cls) == Frame(m, IF m \in converted THEN "body" ELSE "convert", cls)

-----------------------------------------------------------------------------
(* Calls from outside: managed code of the thread                          *)

CallMethod(t, m) ==
    /\ stack[t] = <<>> /\ calls[t] < MaxCalls /\ ~IsStaticConstructor(m)
    /\ calls' = [calls EXCEPT ![t] = @ + 1]
    /\ stack' = [stack EXCEPT ![t] = <<Called(m, NoClass)>>]
    /\ UNCHANGED <<lockVars, holder, classVars, converted, entry>>

\* RuntimeHelpers.RunClassConstructor: ILCCtorMgr_RunCCtor.
RunClassConstructor(t, c) ==
    /\ stack[t] = <<>> /\ calls[t] < MaxCalls
    /\ calls' = [calls EXCEPT ![t] = @ + 1]
    /\ stack' = [stack EXCEPT ![t] =
                   IF c \in once THEN <<>>
                   ELSE <<[Frame(NoMethod, "enter", NoClass) EXCEPT !.q = <<c>>]>>]
    /\ UNCHANGED <<lockVars, holder, classVars, converted, entry>>

-----------------------------------------------------------------------------
(***************************************************************************)
(* ConvertMethod up to the release of the metadata lock, one action for    *)
(* each way it can go. The first three are HandleLockedMethod finding the  *)
(* method locked.                                                          *)
(***************************************************************************)
Locked(m) == entry[m].state = "linked"

\* The thread locked the method itself.
ConvertOwn(t) ==
    LET f == Top(t) IN
    /\ At(t, "convert") /\ Locked(f.m) /\ entry[f.m].owner = t
    /\ LockAndUnlock(t)
    /\ Goto(t, [f EXCEPT !.pc = "body"])
    /\ UNCHANGED <<holder, classVars, converted, entry, calls>>

\* The thread runs constructors: it runs the entry's classes itself, and
\* keeps the metadata write lock.
ConvertHelp(t) ==
    LET f == Top(t) IN
    /\ At(t, "convert") /\ Locked(f.m) /\ entry[f.m].owner # t
    /\ holder = t
    /\ WriteLock(t)
    /\ Goto(t, [f EXCEPT !.pc = "help", !.q = entry[f.m].classes])
    /\ UNCHANGED <<holder, classVars, converted, entry, calls>>

\* Any other thread counts itself in and waits for the semaphore.
ConvertWait(t) ==
    LET f == Top(t) IN
    /\ At(t, "convert") /\ Locked(f.m) /\ entry[f.m].owner # t
    /\ holder # t
    /\ LockAndUnlock(t)
    /\ entry' = [entry EXCEPT ![f.m].waiting = @ + 1]
    /\ Goto(t, [f EXCEPT !.pc = "wait"])
    /\ UNCHANGED <<holder, classVars, converted, calls>>

\* Converted in the meantime.
ConvertDone(t) ==
    LET f == Top(t) IN
    /\ At(t, "convert") /\ ~Locked(f.m) /\ f.m \in converted
    /\ LockAndUnlock(t)
    /\ Goto(t, [f EXCEPT !.pc = "body"])
    /\ UNCHANGED <<holder, classVars, converted, entry, calls>>

\* Converted now; ILCCtorMgr_RunCCtors with nothing queued stores the
\* result, otherwise it locks the method.
ConvertNow(t) ==
    LET f == Top(t) IN
    /\ At(t, "convert") /\ ~Locked(f.m) /\ f.m \notin converted
    /\ LockAndUnlock(t)
    /\ once' = once \cup Trivial(f.m)
    /\ \/ /\ Queued(f.m) = {}
          /\ converted' = converted \cup {f.m}
          /\ Goto(t, [f EXCEPT !.pc = "body"])
          /\ UNCHANGED entry
       \/ /\ Queued(f.m) # {}
          /\ \E q \in Queue(f.m) :
                /\ entry' = [entry EXCEPT ![f.m] =
                               [NoEntry EXCEPT !.state = "linked", !.owner = t,
                                               !.classes = q]]
                /\ Goto(t, [f EXCEPT !.pc = "enter", !.q = q])
          /\ UNCHANGED converted
    /\ UNCHANGED <<holder, running, calls>>

-----------------------------------------------------------------------------
(* Waiting for a locked method                                             *)

\* Mutant: the thread goes on without waiting for the semaphore.
SemaphoreNoWait(t) ==
    LET f == Top(t) IN
    /\ At(t, "wait")
    /\ entry' = [entry EXCEPT ![f.m].sem = @ - 1]
    /\ Goto(t, [f EXCEPT !.pc = "woken"])
    /\ UNCHANGED <<lockVars, holder, classVars, converted, calls>>

SemaphoreWait(t) ==
    LET f == Top(t) IN
    /\ At(t, "wait") /\ entry[f.m].sem > 0
    /\ entry' = [entry EXCEPT ![f.m].sem = @ - 1]
    /\ Goto(t, [f EXCEPT !.pc = "woken"])
    /\ UNCHANGED <<lockVars, holder, classVars, converted, calls>>

\* Mutant: the metadata lock is not taken again before the entry is used.
WokenUnlocked(t) ==
    LET f == Top(t)
        last == entry[f.m].waiting = 1 IN
    /\ At(t, "woken")
    /\ entry' = [entry EXCEPT ![f.m].waiting = @ - 1,
                              ![f.m].state = IF last THEN "freed" ELSE @]
    /\ Goto(t, [f EXCEPT !.pc = IF last THEN "last" ELSE "read"])
    /\ UNCHANGED <<lockVars, holder, classVars, converted, calls>>

\* Both locks taken again; the last waiting thread frees the entry.
Woken(t) ==
    LET f == Top(t)
        last == entry[f.m].waiting = 1 IN
    /\ At(t, "woken")
    /\ WriteLock(t)
    /\ entry' = [entry EXCEPT ![f.m].waiting = @ - 1,
                              ![f.m].state = IF last THEN "freed" ELSE @]
    /\ Goto(t, [f EXCEPT !.pc = IF last THEN "last" ELSE "read"])
    /\ UNCHANGED <<holder, classVars, converted, calls>>

\* The others read the entry's userData after the pool's lock; then
\* ConvertMethod gives the metadata up.
ReadUserData(t) ==
    LET f == Top(t) IN
    /\ At(t, "last") \/ At(t, "read")
    /\ WriteUnlock(t)
    /\ Goto(t, [f EXCEPT !.pc = "body"])
    /\ UNCHANGED <<holder, classVars, converted, entry, calls>>

-----------------------------------------------------------------------------
(* Running constructors                                                    *)

\* ILCCtorMgr_RunCCtors and ILCCtorMgr_RunCCtor: take the manager's lock,
\* unless this thread has it.
Enter(t) ==
    LET f == Top(t) IN
    /\ At(t, "enter")
    /\ \/ holder = t /\ UNCHANGED holder
          /\ Goto(t, [f EXCEPT !.pc = "run"])
       \/ holder = NoThread /\ holder' = t
          /\ Goto(t, [f EXCEPT !.pc = "run", !.own = TRUE])
    /\ UNCHANGED <<lockVars, classVars, converted, entry, calls>>

Running(t) == At(t, "run") \/ At(t, "help")

\* Mutant: a constructor that is running does not count as called.
MustRunNotRunning(c) == c \notin once

\* _ILCCtorMgr_RunCCtor leaves a class alone that is running or done.
MustRun(c) == c \notin running \cup once

SkipCCtor(t) ==
    LET f == Top(t) IN
    /\ Running(t) /\ f.q # <<>> /\ ~MustRun(Head(f.q))
    /\ Goto(t, [f EXCEPT !.q = Tail(@)])
    /\ UNCHANGED <<lockVars, holder, classVars, converted, entry, calls>>

\* _ILCCtorMgr_RunCCtor up to the call of the constructor.
RunCCtor(t) ==
    LET f == Top(t)
        c == Head(f.q) IN
    /\ Running(t) /\ f.q # <<>> /\ MustRun(c)
    /\ ReadLockAndUnlock(t)
    /\ \/ /\ CCtor[c] = NoMethod
          /\ once' = once \cup {c}
          /\ Goto(t, [f EXCEPT !.q = Tail(@)])
          /\ UNCHANGED running
       \/ /\ CCtor[c] # NoMethod
          /\ running' = running \cup {c}
          /\ stack' = [stack EXCEPT ![t] = Append(@, Called(CCtor[c], c))]
          /\ UNCHANGED once
    /\ UNCHANGED <<holder, converted, entry, calls>>

\* The queue is done: give the manager's lock up, if this frame took it.
Leave(t) ==
    LET f == Top(t) IN
    /\ At(t, "run") /\ f.q = <<>>
    /\ holder' = IF f.own THEN NoThread ELSE holder
    /\ IF f.m = NoMethod
       THEN stack' = [stack EXCEPT ![t] = Below(t)]
       ELSE Goto(t, [f EXCEPT !.pc = "store"])
    /\ UNCHANGED <<lockVars, classVars, converted, entry, calls>>

\* Mutant: one waiting thread is released, not all of them.
UnlockMethodPostOne(m) ==
    entry' = [entry EXCEPT ![m].state = IF entry[m].waiting = 0
                                        THEN "freed" ELSE "unlinked",
                           ![m].sem = IF entry[m].waiting = 0 THEN 0 ELSE 1]

\* _ILMethodLockPool_UnlockMethod: unlink, free or release the waiters.
UnlockMethod(m) ==
    entry' = [entry EXCEPT ![m].state = IF entry[m].waiting = 0
                                        THEN "freed" ELSE "unlinked",
                           ![m].sem = entry[m].waiting]

\* ILCCtorMgr_RunCCtors: the end. The result is stored in any case.
Store(t) ==
    LET f == Top(t) IN
    /\ At(t, "store")
    /\ LockAndUnlock(t)
    /\ converted' = converted \cup {f.m}
    /\ UnlockMethod(f.m)
    /\ Goto(t, [f EXCEPT !.pc = "body"])
    /\ UNCHANGED <<holder, classVars, calls>>

\* The end of HandleLockedMethod for the thread that runs constructors: it
\* reads the entry, and ConvertMethod gives the metadata up.
HelpDone(t) ==
    LET f == Top(t) IN
    /\ At(t, "help") /\ f.q = <<>>
    /\ WriteUnlock(t)
    /\ Goto(t, [f EXCEPT !.pc = "body"])
    /\ UNCHANGED <<holder, classVars, converted, entry, calls>>

-----------------------------------------------------------------------------
(* The body of a method                                                    *)

AtStep(t, kind) == /\ At(t, "body")
                   /\ Top(t).i <= Len(Body[Top(t).m])
                   /\ Body[Top(t).m][Top(t).i][1] = kind

Call(t) ==
    LET f == Top(t) IN
    /\ AtStep(t, "call")
    /\ stack' = [stack EXCEPT ![t] = Append(Append(Below(t), [f EXCEPT !.i = @ + 1]),
                                            Called(Body[f.m][f.i][2], NoClass))]
    /\ UNCHANGED <<lockVars, holder, classVars, converted, entry, calls>>

FieldAccess(t) ==
    /\ AtStep(t, "field")
    /\ Goto(t, [Top(t) EXCEPT !.i = @ + 1])
    /\ UNCHANGED <<lockVars, holder, classVars, converted, entry, calls>>

Return(t) ==
    LET f == Top(t) IN
    /\ At(t, "body") /\ f.i > Len(Body[f.m]) /\ f.cls = NoClass
    /\ stack' = [stack EXCEPT ![t] = Below(t)]
    /\ UNCHANGED <<lockVars, holder, classVars, converted, entry, calls>>

\* The frame that called the constructor, going on with the classes q.
BackTo(t, q, ok) ==
    LET g == Last(Below(t)) IN
    stack' = [stack EXCEPT ![t] = Append(Front(Below(t)),
                                         [g EXCEPT !.q = q, !.ok = @ /\ ok])]

CCtorReturns(t) ==
    LET f == Top(t) IN
    /\ At(t, "body") /\ f.i > Len(Body[f.m]) /\ f.cls # NoClass
    /\ once' = once \cup {f.cls}
    /\ BackTo(t, Tail(Last(Below(t)).q), TRUE)
    /\ UNCHANGED <<lockVars, holder, running, converted, entry, calls>>

\* Mutant: the exception of a constructor does not end the queue.
CCtorThrowsOn(t) ==
    LET f == Top(t) IN
    /\ At(t, "body") /\ f.cls \in Throws
    /\ running' = running \ {f.cls}
    /\ BackTo(t, Tail(Last(Below(t)).q), TRUE)
    /\ UNCHANGED <<lockVars, holder, once, converted, entry, calls>>

\* A constructor throws: the class may run again, the queue ends.
CCtorThrows(t) ==
    LET f == Top(t) IN
    /\ At(t, "body") /\ f.cls \in Throws
    /\ running' = running \ {f.cls}
    /\ BackTo(t, <<>>, FALSE)
    /\ UNCHANGED <<lockVars, holder, once, converted, entry, calls>>

-----------------------------------------------------------------------------
Convert(t) == \/ ConvertOwn(t) \/ ConvertHelp(t) \/ ConvertWait(t)
              \/ ConvertDone(t) \/ ConvertNow(t)

Wait(t) == SemaphoreWait(t) \/ Woken(t) \/ ReadUserData(t)

RunCCtors(t) == \/ Enter(t) \/ SkipCCtor(t) \/ RunCCtor(t) \/ Leave(t)
                \/ Store(t) \/ HelpDone(t)

Execute(t) == \/ Call(t) \/ FieldAccess(t) \/ Return(t)
              \/ CCtorReturns(t) \/ CCtorThrows(t)

Step(t) == Convert(t) \/ Wait(t) \/ RunCCtors(t) \/ Execute(t)

Next == \E t \in Threads :
            \/ \E m \in Methods : CallMethod(t, m)
            \/ \E c \in Classes : RunClassConstructor(t, c)
            \/ Step(t)

Spec == Init /\ [][Next]_vars

-----------------------------------------------------------------------------
Frames(t) == Range(stack[t])

Pcs == {"convert", "wait", "woken", "last", "read", "enter", "run", "help",
        "store", "body"}

\* Every variable has its type; the metadata lock counts its writer's holds.
TypeOK ==
    /\ meta \in Threads \cup {NoThread, Broken} /\ depth \in Nat
    /\ holder \in Threads \cup {NoThread}
    /\ running \subseteq Classes /\ once \subseteq Classes
    /\ converted \subseteq Methods
    /\ \A m \in Methods :
          /\ entry[m].state \in {"none", "linked", "unlinked", "freed"}
          /\ entry[m].owner \in Threads \cup {NoThread}
          /\ entry[m].waiting \in Nat /\ entry[m].sem \in Nat
          /\ Range(entry[m].classes) \subseteq Classes
    /\ \A t \in Threads : \A f \in Frames(t) :
          /\ f.m \in Methods \cup {NoMethod} /\ f.pc \in Pcs
          /\ f.cls \in Classes \cup {NoClass}
          /\ f.own \in BOOLEAN /\ f.ok \in BOOLEAN
          /\ Range(f.q) \subseteq Classes
    /\ calls \in [Threads -> 0 .. MaxCalls]

\* The frames of t that run another thread's classes and have had the
\* metadata lock ever since they found them: on a rwlock, none that has
\* called a constructor.
Helping(t) == {f \in Frames(t) :
                  /\ f.pc = "help" /\ meta = t
                  /\ MetaLock = "critical" \/ f = Top(t)}

\* HandleLockedMethod uses its entry after it has given the pool's lock up:
\* a thread that waits for the entry, that was woken, that is about to read
\* it or that runs its classes (an array on the owner's stack) and still has
\* the metadata lock finds an entry that is not freed, and as many threads
\* are counted in as will use it. Nothing is said once the metadata lock is
\* broken: two threads may then convert one method at the same time.
EntryAlive ==
    meta # Broken => \A m \in Methods :
        LET users == {t \in Threads : \E f \in Frames(t) :
                         f.m = m /\ f.pc \in {"wait", "woken"}} IN
        /\ entry[m].waiting = Cardinality(users)
        /\ \A t \in Threads : \A f \in Frames(t) :
              f.m = m /\ (f.pc \in {"wait", "woken", "read"} \/ f \in Helping(t))
                 => entry[m].state \in {"linked", "unlinked"}
        /\ \A t \in Threads : \A f \in Helping(t) :
              f.m = m => \E g \in Frames(entry[m].owner) :
                            g.m = m /\ g.pc \in {"enter", "run", "store"}

\* A class is flagged as running and not done exactly while its constructor
\* is on the stack of the thread that has the manager's lock, and there
\* once; on no other stack, and never again after it has succeeded.
RunningIsExecuting ==
    \A c \in Classes :
        /\ c \in running \ once <=>
              \E t \in Threads : holder = t /\ \E f \in Frames(t) : f.cls = c
        /\ \A t \in Threads : t # holder => \A f \in Frames(t) : f.cls # c
        /\ \A t \in Threads :
              Cardinality({i \in DOMAIN stack[t] : stack[t][i].cls = c}) <= 1

\* A thread that took the manager's lock for the classes of a method, and
\* was not told of an exception, finds all of them initialised when it gives
\* the lock up and from then on: nobody else's running constructor is taken
\* for a finished one.
InitialisedOnReturn ==
    \A t \in Threads : \A f \in Frames(t) :
        f.own /\ f.ok /\ f.pc \in {"store", "body"}
            => Range(entry[f.m].classes) \subseteq once

\* Why a thread inside a call cannot go on.
Blocked(t) ==
    \/ At(t, "wait") /\ entry[Top(t).m].sem = 0
    \/ (At(t, "convert") \/ At(t, "woken") \/ At(t, "store")) /\ ~CanLock(t)
    \/ At(t, "enter") /\ holder \notin {NoThread, t}
    \/ /\ Running(t) /\ Top(t).q # <<>> /\ MustRun(Head(Top(t).q))
       /\ ~CanReadLock(t)

\* While a call is under way some thread can go on, so every call returns:
\* threads that initialise classes which need one another do not wait for
\* each other, and no waiting thread is forgotten. A broken metadata lock
\* may stop them all, and the mutex stops a thread that runs the classes of
\* another.
NobodyStuck ==
    meta # Broken /\ (\E t \in Threads : stack[t] # <<>>)
        => \E t \in Threads : stack[t] # <<>> /\ ~Blocked(t)

\* "We have to call the cctor before accessing any static field of this
\* type": the constructor has been called, or this thread is in it.
InitBeforeUse ==
    \A t \in Threads : AtStep(t, "field") =>
        LET c == Body[Top(t).m][Top(t).i][2] IN
        c \in once \/ \E f \in Frames(t) : f.cls = c

\* HandleLockedMethod runs the classes of an entry that is not freed, to the
\* last of them.
HelpedEntryAlive ==
    \A t \in Threads : \A f \in Frames(t) :
        f.pc = "help" => entry[f.m].state \in {"linked", "unlinked"}

\* "We need the metadata write lock": a thread that runs the classes of a
\* locked method inside ConvertMethod has it until ConvertMethod gives it up.
ConverterHasMetadata ==
    \A t \in Threads : \A f \in Frames(t) : f.pc = "help" => meta = t
=============================================================================

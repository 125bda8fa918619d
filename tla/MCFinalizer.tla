---- MODULE MCFinalizer ----
\* Threads as model values, and the operations each of them calls.
EXTENDS Finalizer

CONSTANTS main, c1

\* The main thread collects and shuts down, the other one invokes finalizers
\* and allocates; both disable finalizers, as any thread does that converts
\* a method.
MCOps ==
    [c \in {main, c1} |->
        IF c = main THEN {"full", "deinit", "collect", "disable"}
                    ELSE {"invoke", "alloc", "disable"}]
====

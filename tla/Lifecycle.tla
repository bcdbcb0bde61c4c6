------------------------------ MODULE Lifecycle ------------------------------
(***************************************************************************)
(* lifecycle.Stack (lifecycle/lifecycle.go): teardown steps pushed while   *)
(* the process is wired and run in reverse by Shutdown, which may be       *)
(* called by several callers at once. Push and the first part of Shutdown  *)
(* run under Stack.mu, so each is one step; the sweep runs without it.     *)
(***************************************************************************)
EXTENDS Integers, Sequences

CONSTANTS
  Steps,     \* the names of the steps; each is pushed at most once
  Closers,   \* the steps made by PushCloser or Closer: their Close gets no
             \* context, so nothing bounds it
  Callers    \* the callers of Shutdown

ASSUME LifecycleAssumption == Closers \subseteq Steps

VARIABLES
  stack,     \* Stack.steps
  done,      \* Stack.done
  pc,        \* where each caller of Shutdown is
  rest,      \* the local `steps` of each caller, less what it has run
  errs,      \* the local `errs` of each caller: the steps that failed
  accepted,  \* history: the steps Push took, in order
  ran,       \* history: the steps that have run, in order
  failed     \* history: the steps that returned an error or panicked

stackVars == <<stack, done, pc, rest, errs, accepted, ran, failed>>

CallerState == {"ready", "sweeping", "running", "returned"}
Outcome == {"ok", "error", "panicked"}

Elems(s) == {s[i] : i \in DOMAIN s}

StackInit ==
  /\ stack = <<>> /\ done = FALSE
  /\ pc = [c \in Callers |-> "ready"]
  /\ rest = [c \in Callers |-> <<>>]
  /\ errs = [c \in Callers |-> {}]
  /\ accepted = <<>> /\ ran = <<>> /\ failed = {}
-----------------------------------------------------------------------------
(* Plausible mistakes in this code, for checking that the properties see them *)

StepEndsMut_PanicUnwinds(c, out) ==
  /\ pc[c] = "running"
  /\ LET s == rest[c][Len(rest[c])] IN
       /\ ran' = Append(ran, s)
       /\ errs' = [errs EXCEPT ![c] = IF out = "ok" THEN @ ELSE @ \cup {s}]
       /\ failed' = IF out = "ok" THEN failed ELSE failed \cup {s}
  /\ rest' = [rest EXCEPT ![c] = IF out = "panicked" THEN <<>>
                                 ELSE SubSeq(@, 1, Len(@) - 1)]
  /\ pc' = [pc EXCEPT ![c] = "sweeping"]
  /\ UNCHANGED <<stack, done, accepted>>

StepEndsMut_Forward(c, out) ==
  /\ pc[c] = "running"
  /\ ran' = Append(ran, Head(rest[c]))
  /\ errs' = [errs EXCEPT ![c] = IF out = "ok" THEN @ ELSE @ \cup {Head(rest[c])}]
  /\ failed' = IF out = "ok" THEN failed ELSE failed \cup {Head(rest[c])}
  /\ rest' = [rest EXCEPT ![c] = Tail(@)]
  /\ pc' = [pc EXCEPT ![c] = "sweeping"]
  /\ UNCHANGED <<stack, done, accepted>>
-----------------------------------------------------------------------------
\* Push: refused, with a warning, once Shutdown has begun. (A nil fn is
\* ignored and changes nothing.)
Push(s) ==
  /\ s \notin Elems(accepted)
  /\ stack' = IF done THEN stack ELSE Append(stack, s)
  /\ accepted' = IF done THEN accepted ELSE Append(accepted, s)
  /\ UNCHANGED <<done, pc, rest, errs, ran, failed>>

\* Shutdown takes the steps, or returns nil because another call has.
Shutdown(c) ==
  /\ pc[c] = "ready"
  /\ done' = TRUE
  /\ pc' = [pc EXCEPT ![c] = IF done THEN "returned" ELSE "sweeping"]
  /\ rest' = [rest EXCEPT ![c] = IF done THEN <<>> ELSE stack]
  /\ stack' = IF done THEN stack ELSE <<>>
  /\ UNCHANGED <<errs, accepted, ran, failed>>

\* slices.Backward: the last remaining step is entered.
StepBegins(c) ==
  /\ pc[c] = "sweeping"
  /\ rest[c] # <<>>
  /\ pc' = [pc EXCEPT ![c] = "running"]
  /\ UNCHANGED <<stack, done, rest, errs, accepted, ran, failed>>

\* runStep returns: an error and a recovered panic are collected alike.
StepEnds(c, out) ==
  /\ pc[c] = "running"
  /\ LET s == rest[c][Len(rest[c])] IN
       /\ ran' = Append(ran, s)
       /\ errs' = [errs EXCEPT ![c] = IF out = "ok" THEN @ ELSE @ \cup {s}]
       /\ failed' = IF out = "ok" THEN failed ELSE failed \cup {s}
  /\ rest' = [rest EXCEPT ![c] = SubSeq(@, 1, Len(@) - 1)]
  /\ pc' = [pc EXCEPT ![c] = "sweeping"]
  /\ UNCHANGED <<stack, done, accepted>>

\* The sweep is over: Shutdown returns errors.Join(errs...).
ShutdownReturns(c) ==
  /\ pc[c] = "sweeping"
  /\ rest[c] = <<>>
  /\ pc' = [pc EXCEPT ![c] = "returned"]
  /\ UNCHANGED <<stack, done, rest, errs, accepted, ran, failed>>
-----------------------------------------------------------------------------
StackNext ==
  \/ \E s \in Steps : Push(s)
  \/ \E c \in Callers :
       \/ Shutdown(c) \/ StepBegins(c) \/ ShutdownReturns(c)
       \/ \E out \in Outcome : StepEnds(c, out)

StackSpec == StackInit /\ [][StackNext]_stackVars
-----------------------------------------------------------------------------
(* Properties                                                              *)

\* The stack, the sweeps and the errors Shutdown joins speak of steps only:
\* every collected error carries the name of its step.
StackTypeOK ==
  /\ stack \in Seq(Steps) /\ accepted \in Seq(Steps) /\ ran \in Seq(Steps)
  /\ done \in BOOLEAN
  /\ pc \in [Callers -> CallerState]
  /\ rest \in [Callers -> Seq(Steps)]
  /\ errs \in [Callers -> SUBSET Steps]
  /\ failed \in SUBSET Steps

\* Shutdown runs every registered step once, in reverse order, whoever else
\* calls Shutdown or Push meanwhile: at every moment what has run is the
\* tail of the accepted steps read backwards.
ReverseOrder ==
  /\ Len(ran) <= Len(accepted)
  /\ \A i \in 1..Len(ran) : ran[i] = accepted[Len(accepted) + 1 - i]

\* "every error is collected": a Shutdown that sweeps returns with the error of
\* every step that failed or panicked, and by then every accepted step has run,
\* the ones below a failure included. This rests on every step returning
\* within its budget, which a step of Closers need not.
SweepCompletes ==
  /\ \A c \in Callers : pc[c] = "sweeping" ~> pc[c] = "returned" /\ errs[c] = failed
  /\ done ~> Len(ran) = Len(accepted)
=============================================================================

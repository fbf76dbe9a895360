---------------------------- MODULE ResetService ----------------------------
(***************************************************************************)
(* What a remote reset promises to those who ask for it, whatever happens  *)
(* to their requests: it takes effect at most once in a life of the        *)
(* service, so that nothing an operator sets later is undone by a          *)
(* duplicate; and whoever is told that it succeeded, it has taken effect.  *)
(* Recovery implements it with retries and idempotency keys.               *)
(***************************************************************************)
EXTENDS Naturals

CONSTANT Callers

VARIABLES
    error_mode,     \* what a reset clears
    effects,        \* per caller: how often its reset took effect in this life
    settled,        \* callers whose reset took effect at all
    answer          \* per caller: what it was told last, or none

vars == <<error_mode, effects, settled, answer>>

Answers == {"none", "SUCCEEDED", "FAILED", "TIMED_OUT"}

Init ==
    /\ error_mode \in BOOLEAN
    /\ effects = [c \in Callers |-> 0]
    /\ settled = {}
    /\ answer = [c \in Callers |-> "none"]

\* Somebody else sets the mode.
Set(enabled) ==
    /\ error_mode' = enabled
    /\ UNCHANGED <<effects, settled, answer>>

\* The service loses what it knows.
Restart ==
    /\ error_mode' = FALSE
    /\ effects' = [c \in Callers |-> 0]
    /\ UNCHANGED <<settled, answer>>

TakeEffect(c) ==
    /\ effects[c] = 0
    /\ error_mode' = FALSE
    /\ effects' = [effects EXCEPT ![c] = 1]
    /\ settled' = settled \union {c}

\* A caller may be told that it failed although it did not, never the reverse.
Tell(c) == \E a \in Answers :
    /\ a = "SUCCEEDED" => c \in settled'
    /\ answer' = [answer EXCEPT ![c] = a]

\* The effect, the answer, or both at once.
Reset(c) ==
    /\ TakeEffect(c) \/ UNCHANGED <<error_mode, effects, settled>>
    /\ Tell(c) \/ UNCHANGED answer

Next ==
    \/ \E enabled \in BOOLEAN : Set(enabled)
    \/ Restart
    \/ \E c \in Callers : Reset(c)

Spec == Init /\ [][Next]_vars

=============================================================================

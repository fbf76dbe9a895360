----------------------------- MODULE MCRecovery -----------------------------
\* Model values for Recovery; see Recovery.cfg.
EXTENDS Recovery

CONSTANTS r1, r2

TwoResets == [r \in Runs |-> "RESET_DEMO_FAILURE"]

ResetAndRestart ==
    [r \in Runs |-> IF r = r1 THEN "RESET_DEMO_FAILURE" ELSE "RESTART_REGISTERED_SERVICE"]

\* As InvestigationService configures the graph.
Wired == {"check_remediation_recovered"} \X {TwoResets, ResetAndRestart}

\* The checks of a restart are fewer than those of a reset, so that the second
\* validator is looked at for resets.
AllSetups == Wired \union {<<"RecoveryValidator", TwoResets>>}

=============================================================================

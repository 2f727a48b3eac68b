----------------------------- MODULE MCMinijail -----------------------------
EXTENDS Minijail

CONSTANTS J1, J2

MCJails == {J1, J2}
\* exit(0) stands for the exit codes: they differ only in the status.
MCExitCodes == {0}
\* SIGKILL from outside; SIGSYS comes from the seccomp filter.
MCExtSignals == {9}
\* One hook event: the events differ only in when the hook runs.
MCHookChoices == {"PRE_EXECVE"}
\* One call of each group: within a group the calls have the same effect.
MCSeccompChoices == {"use_seccomp_filter"}
MCMountChoices == {"bind"}
=============================================================================

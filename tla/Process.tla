------------------------------- MODULE Process -------------------------------
(***************************************************************************)
(* The operating system process that runs one of Podium's two long-lived   *)
(* components, the API server (cmd/start.go) or the expiration worker      *)
(* (cmd/worker.go).  Either may also be embedded in another program, as    *)
(* Podium's own tests do, which then stops it with a call.                 *)
(***************************************************************************)
EXTENDS Naturals

CONSTANTS
    MaxSignals,  \* bound on the signals sent to the process
    MaxFaults    \* bound on the things that fail around it

ASSUME ProcessBounds == MaxSignals \in Nat /\ MaxFaults \in Nat

VARIABLES
    command,   \* what runs: "start" or "worker"
    embedded,  \* whether a program of its own runs it
    process,   \* how the process is, or how it ended
    signals,   \* how many signals it was sent
    faults     \* how many things failed

processVars == <<command, embedded, process, signals, faults>>

ProcessStates == {"running", "exited", "fatal", "killed", "panicked"}

ProcessInit ==
    /\ command \in {"start", "worker"}
    /\ embedded \in BOOLEAN
    /\ process = "running"
    /\ signals = 0
    /\ faults = 0

ProcessTypeOK ==
    /\ command \in {"start", "worker"}
    /\ embedded \in BOOLEAN
    /\ process \in ProcessStates
    /\ signals \in 0 .. MaxSignals
    /\ faults \in 0 .. MaxFaults

Running(cmd) == process = "running" /\ command = cmd

Signalled == signals < MaxSignals /\ signals' = signals + 1

Fault == faults < MaxFaults /\ faults' = faults + 1

=============================================================================

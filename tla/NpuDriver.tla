----------------------------- MODULE NpuDriver -----------------------------
(***************************************************************************)
(* What the NPU driver promises to user programs, without its locks, its    *)
(* IOMMU domains, its interrupt and the steps of a system call.  A network  *)
(* belongs to the file it was created in, only that file can use it, one    *)
(* network at a time is active, and only its job is ever started.           *)
(*                                                                         *)
(* STOP, DESTROY and the release of a file do not end a job that runs; the  *)
(* next START does.  A call that is refused changes nothing.                *)
(***************************************************************************)
CONSTANTS File, Net, None

VARIABLES
  files,    \* the open files
  owner,    \* the networks that exist, with the file of each
  active,   \* the network that may run jobs
  job       \* the network whose job runs on the hardware

npuVars == <<files, owner, active, job>>

Init ==
  /\ files = {} /\ owner = <<>>
  /\ active = None /\ job = None

Owns(f, n) == n \in DOMAIN owner /\ owner[n] = f

Without(ns) == [n \in DOMAIN owner \ ns |-> owner[n]]

Open(f) ==
  /\ f \notin files
  /\ files' = files \cup {f}
  /\ UNCHANGED <<owner, active, job>>

CreateNetwork(f, n) ==
  /\ f \in files
  /\ n \notin DOMAIN owner
  /\ owner' = [m \in DOMAIN owner \cup {n} |-> IF m = n THEN f ELSE owner[m]]
  /\ UNCHANGED <<files, active, job>>

StartNetwork(f, n) ==
  /\ Owns(f, n)
  /\ active = None
  /\ active' = n
  /\ job' = None
  /\ UNCHANGED <<files, owner>>

RunNetwork(f, n) ==
  /\ Owns(f, n)
  /\ active = n
  /\ job' = n
  /\ UNCHANGED <<files, owner, active>>

JobEnds ==
  /\ job # None
  /\ job' = None
  /\ UNCHANGED <<files, owner, active>>

StopNetwork(f, n) ==
  /\ Owns(f, n)
  /\ active = n
  /\ active' = None
  /\ UNCHANGED <<files, owner, job>>

DestroyNetwork(f, n) ==
  /\ Owns(f, n)
  /\ active # n
  /\ owner' = Without({n})
  /\ UNCHANGED <<files, active, job>>

(* The last descriptor of the file is closed: its networks go first.  The   *)
(* active network is deactivated if it is one of them.                      *)
ReleaseNetworks(f) ==
  LET mine == {n \in DOMAIN owner : owner[n] = f} IN
  /\ f \in files
  /\ owner' = Without(mine)
  /\ active' = IF active \in mine THEN None ELSE active
  /\ UNCHANGED <<files, job>>

ReleaseFile(f) ==
  /\ f \in files
  /\ \A n \in DOMAIN owner : owner[n] # f
  /\ files' = files \ {f}
  /\ UNCHANGED <<owner, active, job>>

Next ==
  \/ \E f \in File : \/ Open(f) \/ ReleaseNetworks(f) \/ ReleaseFile(f)
                     \/ \E n \in Net : \/ CreateNetwork(f, n) \/ StartNetwork(f, n)
                                       \/ RunNetwork(f, n) \/ StopNetwork(f, n)
                                       \/ DestroyNetwork(f, n)
  \/ JobEnds

Spec == Init /\ [][Next]_npuVars
============================================================================

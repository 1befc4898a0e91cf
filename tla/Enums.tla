-------------------------------- MODULE Enums --------------------------------
(***************************************************************************)
(* internal/controller/kcore/enum.go: the free-text fields of the custom   *)
(* resources mapped to the enums of the kcore gRPC API.                    *)
(*                                                                         *)
(* Strings are opaque.  The two functions below give, for the raw strings  *)
(* an instance uses, what strings.TrimSpace and strings.ToLower make of    *)
(* them; a string outside a function's domain is already in that form.     *)
(***************************************************************************)

CONSTANTS
    Trimmed,    \* raw string with surrounding blanks -> the string without them
    Lowered     \* string with upper-case letters -> the lower-case string

ASSUME TrimmedAssumption ==
    /\ Trimmed \in [DOMAIN Trimmed -> STRING]
    /\ \A s \in DOMAIN Trimmed : Trimmed[s] \notin DOMAIN Trimmed
    /\ "" \notin DOMAIN Trimmed

ASSUME LoweredAssumption ==
    /\ Lowered \in [DOMAIN Lowered -> STRING]
    /\ \A s \in DOMAIN Lowered : Lowered[s] \notin DOMAIN Lowered

\* True of all string literals in TLA+; stated for those the proofs meet, since
\* the provers do not know it.
ASSUME LiteralAssumption == {"", "//", "group/kind/target"} \subseteq STRING

TrimSpace(s) == IF s \in DOMAIN Trimmed THEN Trimmed[s] ELSE s

ToLower(s) == IF s \in DOMAIN Lowered THEN Lowered[s] ELSE s

Word(s) == ToLower(TrimSpace(s))

-----------------------------------------------------------------------------

States == {"UNSPECIFIED", "RUNNING", "STOPPED"}

\* A slip of the kind the checks must notice: unknown words pass through.
VmDesiredStateUnknownKept(s) ==
    CASE Word(s) \in {"running", "run"}  -> "RUNNING"
      [] Word(s) \in {"stopped", "stop"} -> "STOPPED"
      [] OTHER                           -> Word(s)

\* The empty string, "unspecified" and everything unknown are UNSPECIFIED.
VmDesiredState(s) ==
    CASE Word(s) \in {"running", "run"}  -> "RUNNING"
      [] Word(s) \in {"stopped", "stop"} -> "STOPPED"
      [] OTHER                           -> "UNSPECIFIED"

\* A second Go function with the same table, for containers.
WorkloadDesiredState(s) ==
    CASE Word(s) \in {"running", "run"}  -> "RUNNING"
      [] Word(s) \in {"stopped", "stop"} -> "STOPPED"
      [] OTHER                           -> "UNSPECIFIED"

\* What a VM or a container really does: the runtime state, not the desired one.
VmStates == {"UNKNOWN", "STOPPED", "RUNNING", "PAUSED", "ERROR"}

ContainerStates == {"UNKNOWN", "CREATED", "RUNNING", "STOPPED", "ERROR"}

Backends == {"UNSPECIFIED", "FILESYSTEM", "LVM", "ZFS"}

StorageBackend(s) ==
    CASE Word(s) \in {"filesystem", "file"} -> "FILESYSTEM"
      [] Word(s) = "lvm"                    -> "LVM"
      [] Word(s) = "zfs"                    -> "ZFS"
      [] OTHER                              -> "UNSPECIFIED"

WorkloadKinds == {"UNSPECIFIED", "VM", "CONTAINER"}

WorkloadKind(s) ==
    CASE Word(s) \in {"vm", "virtualmachine"} -> "VM"
      [] Word(s) = "container"                -> "CONTAINER"
      [] OTHER                                -> "UNSPECIFIED"

TargetKinds == {"UNSPECIFIED", "VM", "NETWORK"}

SecurityGroupTargetKind(s) ==
    CASE Word(s) \in {"vm", "virtualmachine"} -> "VM"
      [] Word(s) = "network"                  -> "NETWORK"
      [] OTHER                                -> "UNSPECIFIED"

=============================================================================

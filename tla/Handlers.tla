------------------------------- MODULE Handlers -------------------------------
(***************************************************************************)
(* The managed.TypedExternalClient of a custom resource: each handler is   *)
(* that of the resource's kind, as the six Setup functions register them.  *)
(***************************************************************************)
EXTENDS KcoreController

CONSTANTS
    KindOf,     \* the kind of each custom resource
    SpecsOf     \* the spec.forProvider values a user may write to it (a bound)

VM  == INSTANCE VirtualMachine
WL  == INSTANCE Workload
Net == INSTANCE Network
SG  == INSTANCE SecurityGroup
SGA == INSTANCE SecurityGroupAttachment
Key == INSTANCE SSHKey

Kinds == {"VirtualMachine", "Workload", "Network", "SecurityGroup",
          "SecurityGroupAttachment", "SSHKey"}

Params(kind) ==
    CASE kind = "VirtualMachine"          -> VM!Params
      [] kind = "Workload"                -> WL!Params
      [] kind = "Network"                 -> Net!Params
      [] kind = "SecurityGroup"           -> SG!Params
      [] kind = "SecurityGroupAttachment" -> SGA!Params
      [] kind = "SSHKey"                  -> Key!Params

ASSUME KindAssumption == KindOf \in [Objs -> Kinds]

ASSUME SpecAssumption == \A o \in Objs : SpecsOf[o] \subseteq Params(KindOf[o])

-----------------------------------------------------------------------------

lookupRequest(o, cr) ==
    CASE KindOf[o] = "VirtualMachine"          -> VM!lookupRequest(cr)
      [] KindOf[o] = "Workload"                -> WL!lookupRequest(cr)
      [] KindOf[o] = "Network"                 -> Net!lookupRequest(cr)
      [] KindOf[o] = "SecurityGroup"           -> SG!lookupRequest(cr)
      [] KindOf[o] = "SecurityGroupAttachment" -> SGA!lookupRequest(cr)
      [] KindOf[o] = "SSHKey"                  -> Key!lookupRequest(cr)

\* The answer Observe gets.
Lookup(o, db, cr) == Read(db, lookupRequest(o, cr))

\* What Observe may say of that answer: one word, except for a Network.
Observe(o, cr, reply) ==
    CASE KindOf[o] = "VirtualMachine"          -> {VM!Observe(cr, reply)}
      [] KindOf[o] = "Workload"                -> {WL!Observe(cr, reply)}
      [] KindOf[o] = "Network"                 -> Net!Observe(cr, reply)
      [] KindOf[o] = "SecurityGroup"           -> {SG!Observe(cr, reply)}
      [] KindOf[o] = "SecurityGroupAttachment" -> {SGA!Observe(cr, reply)}
      [] KindOf[o] = "SSHKey"                  -> {Key!Observe(cr, reply)}

\* status of a resource, as far as it is modelled: its Ready condition and the
\* states a VirtualMachine or a Workload shows at its provider.
Statuses == [ready : {"", "Creating", "Available", "Deleting"},
             vm : {""} \cup VmStates, container : {""} \cup ContainerStates]

\* What Observe leaves of the status when the resource exists.
Observed(o, status, reply) ==
    CASE KindOf[o] = "VirtualMachine" -> VM!Observed(status, reply)
      [] KindOf[o] = "Workload"       -> WL!Observed(status, reply)
      [] OTHER                        -> [status EXCEPT !.ready = "Available"]

CreateValid(o, p) ==
    CASE KindOf[o] = "VirtualMachine"          -> VM!CreateValid(p)
      [] KindOf[o] = "Workload"                -> WL!CreateValid(p)
      [] KindOf[o] = "Network"                 -> Net!CreateValid(p)
      [] KindOf[o] = "SecurityGroup"           -> SG!CreateValid(p)
      [] KindOf[o] = "SecurityGroupAttachment" -> SGA!CreateValid(p)
      [] KindOf[o] = "SSHKey"                  -> Key!CreateValid(p)

createRequest(o, p) ==
    CASE KindOf[o] = "VirtualMachine"          -> VM!createVMRequest(o, p)
      [] KindOf[o] = "Workload"                -> WL!createRequest(o, p)
      [] KindOf[o] = "Network"                 -> Net!createRequest(o, p)
      [] KindOf[o] = "SecurityGroup"           -> SG!createRequest(o, p)
      [] KindOf[o] = "SecurityGroupAttachment" -> SGA!createRequest(o, p)
      [] KindOf[o] = "SSHKey"                  -> Key!createRequest(o, p)

CreatedName(o, cr, reply) ==
    CASE KindOf[o] = "VirtualMachine"          -> VM!CreatedName(cr, reply)
      [] KindOf[o] = "Workload"                -> WL!CreatedName(cr, reply)
      [] KindOf[o] = "Network"                 -> Net!CreatedName(cr, reply)
      [] KindOf[o] = "SecurityGroup"           -> SG!CreatedName(cr, reply)
      [] KindOf[o] = "SecurityGroupAttachment" -> SGA!CreatedName(cr, reply)
      [] KindOf[o] = "SSHKey"                  -> Key!CreatedName(cr, reply)

\* What Create leaves of the status: first of all that it is creating.
Creation(status) == [status EXCEPT !.ready = "Creating"]

\* A slip: available, whatever the answer.
CreatedRegardless(o, status, reply) ==
    CASE KindOf[o] = "VirtualMachine" -> VM!Created(status, reply)
      [] KindOf[o] = "Workload"       -> WL!Created(status, reply)
      [] OTHER                        -> [status EXCEPT !.ready = "Available"]

Created(o, status, reply) ==
    CASE reply.code # "OK"            -> Creation(status)
      [] reply.code = "OK" /\ KindOf[o] = "VirtualMachine" -> VM!Created(status, reply)
      [] reply.code = "OK" /\ KindOf[o] = "Workload" -> WL!Created(status, reply)
      [] OTHER                        -> [status EXCEPT !.ready = "Available"]

\* What Delete leaves of the status, before its call.
Deletion(status) == [status EXCEPT !.ready = "Deleting"]

Update(o, cr) ==
    CASE KindOf[o] = "VirtualMachine"          -> VM!Update(o, cr)
      [] KindOf[o] = "Workload"                -> WL!Update(o, cr)
      [] KindOf[o] = "Network"                 -> Net!Update(o, cr)
      [] KindOf[o] = "SecurityGroup"           -> SG!Update(o, cr)
      [] KindOf[o] = "SecurityGroupAttachment" -> SGA!Update(o, cr)
      [] KindOf[o] = "SSHKey"                  -> Key!Update(o, cr)

Delete(o, cr) ==
    CASE KindOf[o] = "VirtualMachine"          -> VM!Delete(o, cr)
      [] KindOf[o] = "Workload"                -> WL!Delete(o, cr)
      [] KindOf[o] = "Network"                 -> Net!Delete(o, cr)
      [] KindOf[o] = "SecurityGroup"           -> SG!Delete(o, cr)
      [] KindOf[o] = "SecurityGroupAttachment" -> SGA!Delete(o, cr)
      [] KindOf[o] = "SSHKey"                  -> Key!Delete(o, cr)

DeleteDone(o, reply) ==
    CASE KindOf[o] = "VirtualMachine"          -> VM!DeleteDone(reply)
      [] KindOf[o] = "Workload"                -> WL!DeleteDone(reply)
      [] KindOf[o] = "Network"                 -> Net!DeleteDone(reply)
      [] KindOf[o] = "SecurityGroup"           -> SG!DeleteDone(reply)
      [] KindOf[o] = "SecurityGroupAttachment" -> SGA!DeleteDone(reply)
      [] KindOf[o] = "SSHKey"                  -> Key!DeleteDone(reply)

=============================================================================

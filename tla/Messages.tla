------------------------------- MODULE Messages -------------------------------
(***************************************************************************)
(* gen/proto/kcore/controller/v1: the messages of the RPCs this provider   *)
(* calls.  A message is a record; fields that are only passed through      *)
(* (images, cloud-init, ports, the node of a VM) are left out, lists are   *)
(* sets, and the three addresses of a network, compared as one, are one    *)
(* field.  Every generated getter gives the zero value for what is not set,*)
(* which is why a missing sub-message is an empty set and an enum's zero,  *)
(* UNSPECIFIED or UNKNOWN, is one of its values.                           *)
(*                                                                         *)
(* Requests that change something and the rows they leave carry the ghost  *)
(* field "by": the custom resource on whose behalf they are sent.  Neither *)
(* side reads it.                                                          *)
(***************************************************************************)
EXTENDS Integers, Enums

CONSTANTS
    Objs,       \* the custom resources of the instance
    Ids         \* the ids the service can issue (a bound)

ASSUME IdsAssumption == Ids \subseteq STRING

\* An id is never empty: that is what a response without one reads as.
ASSUME IdNotEmpty == "" \notin Ids

-----------------------------------------------------------------------------
(* What messages are about                                                  *)

Disks == [name : STRING, bus : STRING]

Nics == [network : STRING, mac : STRING]

\* What the kcore controller tells of a VM and of a container that exist.
VmStatus == [state : VmStates]
ContainerInfo == [state : ContainerStates]

\* VmSpec with the id and the status of its VM and the backend of the CreateVm
\* request.
Vms == [id : Ids, name : STRING, cpus : Int, memory : Int, desired : States,
        backend : Backends, disks : SUBSET Disks, nics : SUBSET Nics,
        status : VmStatus, by : Objs]

\* A VmSpec or a ContainerSpec, as far as both have it, and its status.
WorkloadsOf(kinds, statuses) ==
    [id : Ids, kind : kinds, name : STRING, image : STRING, desired : States,
     status : statuses, by : Objs]

Workloads == WorkloadsOf({"VM"}, VmStatus)
               \cup WorkloadsOf(WorkloadKinds \ {"VM"}, ContainerInfo)

Networks == [name : STRING, node : STRING, addr : STRING, type : STRING,
             nat : BOOLEAN, by : Objs]

\* source is the source CIDR, vm the target VM.
Rules == [id : STRING, protocol : STRING, hostPort : Int, targetPort : Int,
          source : STRING, vm : STRING, dnat : BOOLEAN]

Groups == [name : STRING, rules : SUBSET Rules, by : Objs]

Attachments == [group : STRING, kind : TargetKinds, target : STRING,
                node : STRING, by : Objs]

SshKeys == [name : STRING, key : STRING, by : Objs]

-----------------------------------------------------------------------------
(* Requests that change the tables                                          *)

CreateVmRequests ==
    [rpc : {"CreateVm"}, by : Objs, name : STRING, cpus : Int, memory : Int,
     desired : States, backend : Backends, disks : SUBSET Disks, nics : SUBSET Nics]

UpdateVmRequests ==
    [rpc : {"UpdateVm"}, by : Objs, id : STRING, cpus : Int, memory : Int]

\* Not sent by the provider, but by other clients of the kcore controller.
SetVmDesiredStateRequests ==
    [rpc : {"SetVmDesiredState"}, by : Objs, id : STRING, desired : States]

DeleteVmRequests == [rpc : {"DeleteVm"}, by : Objs, id : STRING]

CreateWorkloadRequests ==
    [rpc : {"CreateWorkload"}, by : Objs, kind : WorkloadKinds, name : STRING,
     image : STRING, desired : States]

SetWorkloadDesiredStateRequests ==
    [rpc : {"SetWorkloadDesiredState"}, by : Objs, kind : WorkloadKinds,
     id : STRING, desired : States]

DeleteWorkloadRequests ==
    [rpc : {"DeleteWorkload"}, by : Objs, kind : WorkloadKinds, id : STRING]

CreateNetworkRequests ==
    [rpc : {"CreateNetwork"}, by : Objs, name : STRING, node : STRING,
     addr : STRING, type : STRING, nat : BOOLEAN]

DeleteNetworkRequests ==
    [rpc : {"DeleteNetwork"}, by : Objs, name : STRING, node : STRING]

CreateSecurityGroupRequests ==
    [rpc : {"CreateSecurityGroup"}, by : Objs, name : STRING,
     rules : SUBSET Rules]

DeleteSecurityGroupRequests ==
    [rpc : {"DeleteSecurityGroup"}, by : Objs, name : STRING]

AttachSecurityGroupRequests ==
    [rpc : {"AttachSecurityGroup"}, by : Objs, group : STRING, kind : TargetKinds,
     target : STRING, node : STRING]

DetachSecurityGroupRequests ==
    [rpc : {"DetachSecurityGroup"}, by : Objs, group : STRING, kind : TargetKinds,
     target : STRING, node : STRING]

CreateSshKeyRequests ==
    [rpc : {"CreateSshKey"}, by : Objs, name : STRING, key : STRING]

DeleteSshKeyRequests == [rpc : {"DeleteSshKey"}, by : Objs, name : STRING]

CreateRequests ==
    CreateVmRequests \cup CreateWorkloadRequests \cup CreateNetworkRequests
      \cup CreateSecurityGroupRequests \cup AttachSecurityGroupRequests
      \cup CreateSshKeyRequests

DeleteRequests ==
    DeleteVmRequests \cup DeleteWorkloadRequests \cup DeleteNetworkRequests
      \cup DeleteSecurityGroupRequests \cup DetachSecurityGroupRequests
      \cup DeleteSshKeyRequests

UpdateRequests ==
    UpdateVmRequests \cup SetVmDesiredStateRequests
      \cup SetWorkloadDesiredStateRequests

Requests == CreateRequests \cup UpdateRequests \cup DeleteRequests

-----------------------------------------------------------------------------
(* Requests that only read                                                  *)

GetVmRequests == [rpc : {"GetVm"}, id : STRING]

GetWorkloadRequests ==
    [rpc : {"GetWorkload"}, kind : WorkloadKinds, id : STRING]

ListNetworksRequests == [rpc : {"ListNetworks"}, node : STRING]

GetSecurityGroupRequests == [rpc : {"GetSecurityGroup"}, name : STRING]

GetSshKeyRequests == [rpc : {"GetSshKey"}, name : STRING]

Queries ==
    GetVmRequests \cup GetWorkloadRequests \cup ListNetworksRequests
      \cup GetSecurityGroupRequests \cup GetSshKeyRequests

-----------------------------------------------------------------------------
(* Answers: a gRPC status code and what the handlers read of the message, as
   a set: empty when the sub-message is not set or the list has no element.
   The "success" and "message" fields are read by nobody.                   *)

Ok(content) == [code |-> "OK", content |-> content]
Error(code) == [code |-> code, content |-> {}]

\* What a client gets that loses the connection or waits too long.
Unavailable == Error("Unavailable")

Errors == {Error(code) : code \in {"NotFound", "InvalidArgument", "Unavailable"}}

\* The one element of a set, or what the getter gives when there is none.
The(set, zero) == IF set = {} THEN zero ELSE CHOOSE x \in set : TRUE

\* GetVmId and GetWorkloadId of a create response: "" when it is not set.
NewId(reply) == The({c.id : c \in reply.content}, "")

\* The answers without an error whose content is one of those.
Oks(contents) == [code : {"OK"}, content : contents]

CreateVmResponses == Oks(SUBSET [id : Ids, state : VmStates])
UpdateVmResponses == Oks({{}})
SetVmDesiredStateResponses == Oks({{}})
DeleteVmResponses == Oks({{}})
GetVmResponses == Oks(SUBSET Vms)

CreateWorkloadResponses ==
    Oks(SUBSET [id : Ids, vmState : VmStates, containerState : ContainerStates])
SetWorkloadDesiredStateResponses == Oks({{}})
DeleteWorkloadResponses == Oks({{}})
GetWorkloadResponses == Oks(SUBSET Workloads)

CreateNetworkResponses == Oks({{}})
DeleteNetworkResponses == Oks({{}})
ListNetworksResponses == Oks(SUBSET Networks)

CreateSecurityGroupResponses == Oks({{}})
DeleteSecurityGroupResponses == Oks({{}})
\* The group with the attachments that name it.
GetSecurityGroupResponses ==
    Oks(SUBSET [name : STRING, attachments : SUBSET Attachments])
AttachSecurityGroupResponses == Oks({{}})
DetachSecurityGroupResponses == Oks({{}})

CreateSshKeyResponses == Oks({{}})
DeleteSshKeyResponses == Oks({{}})
GetSshKeyResponses == Oks(SUBSET SshKeys)

Response(rpc) ==
    CASE rpc = "CreateVm"            -> CreateVmResponses
      [] rpc = "UpdateVm"            -> UpdateVmResponses
      [] rpc = "SetVmDesiredState"   -> SetVmDesiredStateResponses
      [] rpc = "DeleteVm"            -> DeleteVmResponses
      [] rpc = "GetVm"               -> GetVmResponses
      [] rpc = "CreateWorkload"      -> CreateWorkloadResponses
      [] rpc = "SetWorkloadDesiredState" -> SetWorkloadDesiredStateResponses
      [] rpc = "DeleteWorkload"      -> DeleteWorkloadResponses
      [] rpc = "GetWorkload"         -> GetWorkloadResponses
      [] rpc = "CreateNetwork"       -> CreateNetworkResponses
      [] rpc = "DeleteNetwork"       -> DeleteNetworkResponses
      [] rpc = "ListNetworks"        -> ListNetworksResponses
      [] rpc = "CreateSecurityGroup" -> CreateSecurityGroupResponses
      [] rpc = "DeleteSecurityGroup" -> DeleteSecurityGroupResponses
      [] rpc = "GetSecurityGroup"    -> GetSecurityGroupResponses
      [] rpc = "AttachSecurityGroup" -> AttachSecurityGroupResponses
      [] rpc = "DetachSecurityGroup" -> DetachSecurityGroupResponses
      [] rpc = "CreateSshKey"        -> CreateSshKeyResponses
      [] rpc = "DeleteSshKey"        -> DeleteSshKeyResponses
      [] rpc = "GetSshKey"           -> GetSshKeyResponses

\* What a call of that rpc may come back with.
Answers(rpc) == Response(rpc) \cup Errors

=============================================================================

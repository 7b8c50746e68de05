----------------------- MODULE RustDeviceManagerProofs -----------------------
(***************************************************************************)
(* Proofs about RustDeviceManager for any number of clients and devices,   *)
(* any cap and any loss of answers.                                        *)
(***************************************************************************)
EXTENDS RustDeviceManager, FiniteSetTheorems, TLAPS

\* What a client may delete is a device of ours: the URL it stores and the
\* devices it is about to reap passed the comparison of name and type.
DeletesOwn ==
    \A c \in Clients : /\ work[c] \subseteq Own
                       /\ device_url[c] \in Own \cup {NoDevice, EmptyUrl}

DeviceInv == TypeOK /\ DeletesOwn /\ ForeignKept

LEMMA DeviceInvInit == Init => DeviceInv
  BY DeviceAssumption DEF Init, DeviceInv, TypeOK, DeletesOwn, ForeignKept, Pcs

LEMMA DeviceInvNext == DeviceInv /\ [Next]_vars => DeviceInv'
<1> SUFFICES ASSUME DeviceInv, [Next]_vars PROVE DeviceInv'
  OBVIOUS
<1> USE DeviceAssumption DEF DeviceInv, TypeOK, DeletesOwn, ForeignKept, Own
<1>1. ASSUME NEW c \in Clients, Register(c) PROVE DeviceInv'
  <2>1. pc' \in [Clients -> Pcs] /\ pc' = [pc EXCEPT ![c] = "list"]
    BY <1>1 DEF Register, To, Pcs
  <2> QED
    BY <1>1, <2>1 DEF Register
<1>2. ASSUME NEW c \in Clients, FindReusable(c) PROVE DeviceInv'
  <2>1. pc' \in [Clients -> Pcs]
    BY <1>2 DEF FindReusable, To, Pcs
  <2>2. \/ \E d \in Own : device_url' = [device_url EXCEPT ![c] = d]
        \/ device_url' = device_url /\ pc' = [pc EXCEPT ![c] = "create"]
    BY <1>2 DEF FindReusable, SetUrl, To
  <2>3. \A k \in Clients \ {c} : pc'[k] = pc[k]
    BY <1>2 DEF FindReusable, To
  <2>4. UNCHANGED <<wdm, work, result>> /\ answers' \in {"all", "lost"}
    BY <1>2 DEF FindReusable
  <2>5. CASE \E d \in Own : device_url' = [device_url EXCEPT ![c] = d]
    BY <2>1, <2>3, <2>4, <2>5
  <2>6. CASE device_url' = device_url /\ pc' = [pc EXCEPT ![c] = "create"]
    BY <2>1, <2>4, <2>6
  <2> QED
    BY <2>2, <2>5, <2>6
<1>3. ASSUME NEW c \in Clients, Refresh(c) PROVE DeviceInv'
  <2>1. /\ pc' \in [Clients -> Pcs]
        /\ result' \in [Clients -> {"none", "registered", "unregistered", "error"}]
    BY <1>3 DEF Refresh, Finish, To, Pcs
  <2>2. device_url' = device_url \/ device_url' = [device_url EXCEPT ![c] = NoDevice]
    BY <1>3 DEF Refresh, SetUrl
  <2>3. pc'[c] # "refresh" /\ \A k \in Clients \ {c} : pc'[k] = pc[k]
    BY <1>3 DEF Refresh, Finish, To
  <2> QED
    BY <1>3, <2>1, <2>2, <2>3 DEF Refresh
<1>4. ASSUME NEW c \in Clients, Create(c) PROVE DeviceInv'
  <2>1. /\ pc' \in [Clients -> Pcs]
        /\ result' \in [Clients -> {"none", "registered", "unregistered", "error"}]
    BY <1>4 DEF Create, Finish, To, Pcs
  <2>2. PICK d \in Own :
          /\ wdm' = wdm \cup {d}
          /\ \/ device_url' = device_url
             \/ \E u \in {d, EmptyUrl} : device_url' = [device_url EXCEPT ![c] = u]
    BY <1>4 DEF Create, SetUrl
  <2>3. pc' = [pc EXCEPT ![c] = "idle"]
    BY <1>4 DEF Create, Finish, To
  <2> QED
    BY <1>4, <2>1, <2>2, <2>3 DEF Create
<1>5. ASSUME NEW c \in Clients, CreateFails(c) \/ CreateRefused(c)
      PROVE  DeviceInv'
  <2>1. /\ pc' \in [Clients -> Pcs]
        /\ result' \in [Clients -> {"none", "registered", "unregistered", "error"}]
    BY <1>5 DEF CreateFails, CreateRefused, Finish, To, Pcs
  <2>2. pc'[c] # "refresh" /\ \A k \in Clients \ {c} : pc'[k] = pc[k]
    BY <1>5 DEF CreateFails, CreateRefused, Finish, To
  <2> QED
    BY <1>5, <2>1, <2>2 DEF CreateFails, CreateRefused
<1>6. ASSUME NEW c \in Clients, ReapList(c) PROVE DeviceInv'
  <2>1. pc' \in [Clients -> Pcs] /\ pc' = [pc EXCEPT ![c] = "reap"]
    BY <1>6 DEF ReapList, To, Pcs
  <2>2. work' = work \/ work' = [work EXCEPT ![c] = wdm \cap Own]
    BY <1>6 DEF ReapList
  <2> QED
    BY <1>6, <2>1, <2>2 DEF ReapList
<1>7. ASSUME NEW c \in Clients, NEW d \in Devices, ReapDelete(c, d)
      PROVE  DeviceInv'
  <2>1. /\ d \in Own /\ wdm' \in {wdm, wdm \ {d}}
        /\ work' = [work EXCEPT ![c] = work[c] \ {d}]
        /\ UNCHANGED <<device_url, pc, result, answers>>
    BY <1>7 DEF ReapDelete
  <2> QED
    BY <2>1
<1>8. ASSUME NEW c \in Clients, ReapEnds(c) PROVE DeviceInv'
  <2>1. pc' \in [Clients -> Pcs] /\ pc' = [pc EXCEPT ![c] = "recreate"]
    BY <1>8 DEF ReapEnds, To, Pcs
  <2> QED
    BY <1>8, <2>1 DEF ReapEnds
<1>9. ASSUME NEW c \in Clients, Unregister(c) PROVE DeviceInv'
  <2>1. /\ device_url[c] \in Own \cup {EmptyUrl} /\ wdm' \in {wdm, wdm \ {device_url[c]}}
        /\ pc[c] = "idle" /\ UNCHANGED <<pc, work, answers>>
    BY <1>9 DEF Unregister, At
  <2>2. /\ device_url' = device_url \/ device_url' = [device_url EXCEPT ![c] = NoDevice]
        /\ result' \in [Clients -> {"none", "registered", "unregistered", "error"}]
    BY <1>9 DEF Unregister, SetUrl
  <2> QED
    BY <2>1, <2>2
<1>10. CASE UNCHANGED vars
  BY <1>10 DEF vars
<1> QED
  BY <1>1, <1>2, <1>3, <1>4, <1>5, <1>6, <1>7, <1>8, <1>9, <1>10 DEF Next

\* The state of the device managers and of WDM always has its type.
THEOREM DeviceTypeCorrect == Spec => []TypeOK
<1>1. DeviceInv => TypeOK
  BY DEF DeviceInv
<1> QED
  BY <1>1, DeviceInvInit, DeviceInvNext, PTL DEF Spec

\* No client ever deletes a device of another program: neither reaping at the
\* cap nor unregistering, with any number of clients on the account.
THEOREM ForeignDevicesKept == Spec => []ForeignKept
<1>1. DeviceInv => ForeignKept
  BY DEF DeviceInv
<1> QED
  BY <1>1, DeviceInvInit, DeviceInvNext, PTL DEF Spec
-----------------------------------------------------------------------------
\* A single client: until an answer is lost it is about to create a device only
\* when there is none of ours, and the device it is registered with is there.
ReuseInv ==
    answers = "all" =>
      /\ \A d, e \in wdm \cap Own : d = e
      /\ \A c \in Clients :
           /\ pc[c] \in {"create", "reap_list", "reap", "recreate"} =>
                wdm \cap Own = {}
           /\ pc[c] = "refresh" => device_url[c] \in wdm

LEMMA ReuseInvNext ==
    ASSUME \A c, k \in Clients : c = k, DeviceInv, ReuseInv, [Next]_vars
    PROVE  ReuseInv'
<1> SUFFICES ASSUME answers' = "all" PROVE ReuseInv'
  BY DEF ReuseInv
<1>0. answers = "all"
  BY DEF Next, vars, Register, FindReusable, Refresh, Create, CreateFails,
         CreateRefused, ReapList, ReapDelete, ReapEnds, Unregister
<1> USE <1>0 DEF DeviceInv, TypeOK, ReuseInv
<1>1. ASSUME NEW c \in Clients, Register(c) PROVE ReuseInv'
  BY <1>1 DEF Register, To
<1>2. ASSUME NEW c \in Clients, FindReusable(c) PROVE ReuseInv'
  <2>1. UNCHANGED wdm
    BY <1>2 DEF FindReusable
  <2>2. CASE wdm \cap Own = {}
    BY <1>2, <2>1, <2>2 DEF FindReusable, To
  <2>3. CASE wdm \cap Own # {}
    <3>1. PICK d \in wdm \cap Own : SetUrl(c, d) /\ To(c, "refresh")
      BY <1>2, <2>3 DEF FindReusable
    <3> QED
      BY <2>1, <3>1 DEF SetUrl, To
  <2> QED
    BY <2>2, <2>3
<1>3. ASSUME NEW c \in Clients, Refresh(c) PROVE ReuseInv'
  <2>1. device_url[c] \in wdm
    BY <1>3 DEF Refresh, At
  <2>2. Finish(c, "registered") /\ UNCHANGED <<wdm, device_url>>
    BY <1>3, <2>1 DEF Refresh
  <2> QED
    BY <2>2 DEF Finish, To
<1>4. ASSUME NEW c \in Clients, Create(c) PROVE ReuseInv'
  <2>1. wdm \cap Own = {}
    BY <1>4 DEF Create, At
  <2>2. PICK d \in Own \ wdm : wdm' = wdm \cup {d}
    BY <1>4 DEF Create
  <2>3. pc' = [pc EXCEPT ![c] = "idle"]
    BY <1>4 DEF Create, Finish, To
  <2> QED
    BY <2>1, <2>2, <2>3
<1>5. ASSUME NEW c \in Clients, CreateFails(c) \/ CreateRefused(c)
      PROVE  ReuseInv'
  <2>1. wdm \cap Own = {} /\ UNCHANGED <<wdm, device_url>>
    BY <1>5 DEF CreateFails, CreateRefused, At
  <2>2. pc' = [pc EXCEPT ![c] = "idle"] \/ pc' = [pc EXCEPT ![c] = "reap_list"]
    BY <1>5 DEF CreateFails, CreateRefused, Finish, To
  <2> QED
    BY <2>1, <2>2
<1>6. ASSUME NEW c \in Clients, ReapList(c) \/ ReapEnds(c) PROVE ReuseInv'
  <2>1. wdm \cap Own = {} /\ UNCHANGED <<wdm, device_url>>
    BY <1>6 DEF ReapList, ReapEnds, At
  <2>2. pc' = [pc EXCEPT ![c] = "reap"] \/ pc' = [pc EXCEPT ![c] = "recreate"]
    BY <1>6 DEF ReapList, ReapEnds, To
  <2> QED
    BY <2>1, <2>2
<1>7. ASSUME NEW c \in Clients, NEW d \in Devices, ReapDelete(c, d)
      PROVE  ReuseInv'
  <2>1. /\ pc[c] = "reap" /\ wdm' \in {wdm, wdm \ {d}}
        /\ UNCHANGED <<device_url, pc>>
    BY <1>7 DEF ReapDelete, At
  <2> QED
    BY <2>1
<1>8. ASSUME NEW c \in Clients, Unregister(c) PROVE ReuseInv'
  <2>1. /\ pc[c] = "idle" /\ wdm' \in {wdm, wdm \ {device_url[c]}}
        /\ UNCHANGED pc
    BY <1>8 DEF Unregister, At
  <2> QED
    BY <2>1
<1>9. CASE UNCHANGED vars
  BY <1>9 DEF vars
<1> QED
  BY <1>1, <1>2, <1>3, <1>4, <1>5, <1>6, <1>7, <1>8, <1>9 DEF Next

\* Reuse-before-register never leaves a second device of ours on the account,
\* even when the answer to a create or to an unregister is lost, as long as
\* one client runs and its list and refresh calls got their answer.
THEOREM ReuseKeepsOneDevice ==
    ASSUME \A c, k \in Clients : c = k
    PROVE  Spec => []OneOwnDevice
<1>1. Init => ReuseInv
  BY DEF Init, ReuseInv, Own
<1>2. DeviceInv /\ ReuseInv /\ [Next]_vars => ReuseInv'
  BY ReuseInvNext
<1>3. ReuseInv => OneOwnDevice
  <2> SUFFICES ASSUME ReuseInv, answers = "all" PROVE Cardinality(wdm \cap Own) <= 1
    BY DEF OneOwnDevice
  <2>1. CASE wdm \cap Own = {}
    BY <2>1, FS_EmptySet
  <2>2. CASE wdm \cap Own # {}
    <3>1. PICK d : wdm \cap Own = {d}
      BY <2>2 DEF ReuseInv
    <3> QED
      BY <3>1, FS_Singleton
  <2> QED
    BY <2>1, <2>2
<1> QED
  BY <1>1, <1>2, <1>3, DeviceInvInit, DeviceInvNext, PTL DEF Spec
-----------------------------------------------------------------------------
\* A single client's registration names a device that WDM has, whatever answers
\* are lost: every way to "registered" ends in an exchange with that device, and
\* the client's own deletions take the registration with them.
THEOREM RegistrationExists ==
    ASSUME \A c, k \in Clients : c = k
    PROVE  Spec => []RegisteredExists
<1>1. Init => RegisteredExists
  BY DEF Init, RegisteredExists
<1>2. DeviceInv /\ RegisteredExists /\ [Next]_vars => RegisteredExists'
  <2> SUFFICES ASSUME DeviceInv, RegisteredExists, [Next]_vars
               PROVE  RegisteredExists'
    OBVIOUS
  <2> USE DEF DeviceInv, TypeOK, RegisteredExists, At
  <2>1. ASSUME NEW c \in Clients,
               Register(c) \/ FindReusable(c) \/ ReapList(c) \/ ReapEnds(c)
        PROVE  RegisteredExists'
    <3>1. PICK p \in {"list", "refresh", "create", "reap", "recreate"} :
            pc' = [pc EXCEPT ![c] = p]
      BY <2>1 DEF Register, FindReusable, ReapList, ReapEnds, To
    <3> QED
      BY <3>1
  <2>2. ASSUME NEW c \in Clients, Refresh(c) PROVE RegisteredExists'
    <3>1. \/ device_url[c] \in wdm /\ UNCHANGED <<wdm, device_url>>
          \/ pc' = [pc EXCEPT ![c] = "create"]
      BY <2>2 DEF Refresh, To
    <3> QED
      BY <3>1
  <2>3. ASSUME NEW c \in Clients, Create(c) PROVE RegisteredExists'
    <3>1. PICK d \in Own : wdm' = wdm \cup {d} /\
            \/ \E u \in {d, EmptyUrl} : device_url' = [device_url EXCEPT ![c] = u]
            \/ result' = [result EXCEPT ![c] = "error"]
      BY <2>3 DEF Create, SetUrl, Finish
    <3> QED
      BY <3>1
  <2>4. ASSUME NEW c \in Clients, CreateFails(c) \/ CreateRefused(c)
        PROVE  RegisteredExists'
    <3>1. \/ pc' = [pc EXCEPT ![c] = "reap_list"]
          \/ result' = [result EXCEPT ![c] = "error"]
      BY <2>4 DEF CreateFails, CreateRefused, Finish, To
    <3> QED
      BY <3>1
  <2>5. ASSUME NEW c \in Clients, NEW d \in Devices, ReapDelete(c, d)
        PROVE  RegisteredExists'
    BY <2>5 DEF ReapDelete
  <2>6. ASSUME NEW c \in Clients, Unregister(c) PROVE RegisteredExists'
    <3>1. PICK r \in {"unregistered", "error"} : result' = [result EXCEPT ![c] = r]
      BY <2>6 DEF Unregister
    <3> QED
      BY <3>1
  <2>7. CASE UNCHANGED vars
    BY <2>7 DEF vars
  <2> QED
    BY <2>1, <2>2, <2>3, <2>4, <2>5, <2>6, <2>7 DEF Next
<1> QED
  BY <1>1, <1>2, DeviceInvInit, DeviceInvNext, PTL DEF Spec
=============================================================================

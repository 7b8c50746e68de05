-------------------------- MODULE RustDeviceManager --------------------------
(***************************************************************************)
(* The Rust DeviceManager (rust/src/device_manager.rs) and the WDM service *)
(* it registers with: reuse-before-register, the reaping of devices when   *)
(* the account is at its cap, and unregistering.  Several clients may run  *)
(* on one account; each runs one operation at a time (the handler's        *)
(* device_manager mutex).                                                  *)
(*                                                                         *)
(* A step is one HTTP exchange: what WDM did and what the client got to    *)
(* know of it are separate choices, so a request may take effect although  *)
(* the client sees an error (a lost reply, or a reply whose URLs fail the  *)
(* validation).                                                            *)
(***************************************************************************)
EXTENDS Naturals, FiniteSets

CONSTANTS
    Clients,    \* processes that use this library on the account
    Devices,    \* device URLs
    Foreign,    \* devices of other programs: another name or deviceType
    NoDevice,
    EmptyUrl,   \* the url of a reply that has none
    Cap         \* how many devices WDM allows on the account

ASSUME DeviceAssumption ==
    /\ Foreign \subseteq Devices /\ IsFiniteSet(Devices)
    /\ NoDevice \notin Devices /\ EmptyUrl \notin Devices \cup {NoDevice}
    /\ Cap \in Nat

VARIABLES
    wdm,             \* devices registered on the account (WDM's state)
    device_url,      \* device_url[c]
    pc,              \* pc[c]: where c's operation is
    work,            \* work[c]: devices that c still has to reap
    result,          \* result[c]: how c's last operation ended
    answers          \* history: "lost" once a list or refresh got no answer

vars == <<wdm, device_url, pc, work, result, answers>>

Own == Devices \ Foreign

Pcs == {"idle", "list", "refresh", "create", "reap_list", "reap", "recreate"}

TypeOK ==
    /\ wdm \subseteq Devices
    /\ device_url \in [Clients -> Devices \cup {NoDevice, EmptyUrl}]
    /\ pc \in [Clients -> Pcs]
    /\ work \in [Clients -> SUBSET Devices]
    /\ result \in [Clients -> {"none", "registered", "unregistered", "error"}]
    /\ answers \in {"all", "lost"}
    /\ \A c \in Clients : pc[c] = "refresh" => device_url[c] \in Devices

\* DeviceManager::new, on an account that has the devices of other programs.
Init ==
    /\ wdm = Foreign
    /\ device_url = [c \in Clients |-> NoDevice]
    /\ pc = [c \in Clients |-> "idle"]
    /\ work = [c \in Clients |-> {}]
    /\ result = [c \in Clients |-> "none"]
    /\ answers = "all"
-----------------------------------------------------------------------------
At(c, p) == pc[c] = p
To(c, p) == pc' = [pc EXCEPT ![c] = p]
Finish(c, r) == To(c, "idle") /\ result' = [result EXCEPT ![c] = r]
SetUrl(c, d) == device_url' = [device_url EXCEPT ![c] = d]

\* register()
Register(c) ==
    /\ At(c, "idle")
    /\ To(c, "list")
    /\ UNCHANGED <<wdm, device_url, work, result, answers>>

\* Mutant: register does not look for a device to reuse.
MutantFindReusable(c) ==
    /\ At(c, "list")
    /\ To(c, "create")
    /\ UNCHANGED <<wdm, device_url, work, result, answers>>

\* Mutant: a listed device without a URL is taken for reusable.
MutantEmptyUrl(c) ==
    /\ At(c, "list")
    /\ SetUrl(c, EmptyUrl) /\ To(c, "refresh")
    /\ UNCHANGED <<wdm, work, result, answers>>

\* find_reusable_device: the first device with our name and type; a list that
\* fails is taken for an empty one.
FindReusable(c) ==
    /\ At(c, "list")
    /\ \/ /\ \E d \in wdm \cap Own : SetUrl(c, d) /\ To(c, "refresh")
          /\ UNCHANGED answers
       \/ /\ To(c, "create")
          /\ answers' = IF wdm \cap Own = {} THEN answers ELSE "lost"
          /\ UNCHANGED device_url
    /\ UNCHANGED <<wdm, work, result>>

\* refresh of the device found: WDM knows it or not; the exchange may fail
\* although the device is there.
Refresh(c) ==
    /\ At(c, "refresh")
    /\ \/ /\ device_url[c] \in wdm
          /\ Finish(c, "registered")
          /\ UNCHANGED <<device_url, answers>>
       \/ /\ answers' = IF device_url[c] \notin wdm THEN answers ELSE "lost"
          /\ SetUrl(c, NoDevice)
          /\ To(c, "create")
          /\ UNCHANGED result
    /\ UNCHANGED <<wdm, work>>

\* Mutant: create_device does not store the URL of the new device.
MutantCreate(c) ==
    /\ At(c, "create") \/ At(c, "recreate")
    /\ Cardinality(wdm) < Cap
    /\ \E d \in Own \ wdm : wdm' = wdm \cup {d}
    /\ Finish(c, "registered")
    /\ UNCHANGED <<work, device_url, answers>>

\* create_device, when the account has room: the device is there, but the
\* client may not get to know its URL.  A reply without a url is accepted too:
\* only the other two URLs are looked at.
Create(c) ==
    /\ At(c, "create") \/ At(c, "recreate")
    /\ Cardinality(wdm) < Cap
    /\ \E d \in Own \ wdm :
         /\ wdm' = wdm \cup {d}
         /\ \/ /\ SetUrl(c, d) \/ SetUrl(c, EmptyUrl)
               /\ Finish(c, "registered")
            \/ UNCHANGED device_url /\ Finish(c, "error")
    /\ UNCHANGED <<work, answers>>

\* create_device fails without an effect: 401, an error status, no connection.
CreateFails(c) ==
    /\ At(c, "create") \/ At(c, "recreate")
    /\ Finish(c, "error")
    /\ UNCHANGED <<wdm, device_url, work, answers>>

\* 403, which register() takes for excessive registrations whatever WDM means
\* by it: reap and retry, once.
CreateRefused(c) ==
    /\ At(c, "create") \/ At(c, "recreate")
    /\ IF At(c, "create") THEN To(c, "reap_list") /\ UNCHANGED result
                          ELSE Finish(c, "error")
    /\ UNCHANGED <<wdm, device_url, work, answers>>

\* Mutant: the name and type of a listed device are not compared.
MutantReapList(c) ==
    /\ At(c, "reap_list")
    /\ work' = [work EXCEPT ![c] = wdm]
    /\ To(c, "reap")
    /\ UNCHANGED <<wdm, device_url, result, answers>>

\* reap_own_devices lists the devices with our name and type, if it can.
ReapList(c) ==
    /\ At(c, "reap_list")
    /\ \/ work' = [work EXCEPT ![c] = wdm \cap Own] /\ UNCHANGED answers
       \/ answers' = "lost" /\ UNCHANGED work
    /\ To(c, "reap")
    /\ UNCHANGED <<wdm, device_url, result>>

\* delete_device for each of them; a failure is skipped.
ReapDelete(c, d) ==
    /\ At(c, "reap") /\ d \in work[c]
    /\ wdm' \in {wdm, wdm \ {d}}
    /\ work' = [work EXCEPT ![c] = @ \ {d}]
    /\ UNCHANGED <<device_url, pc, result, answers>>

ReapEnds(c) ==
    /\ At(c, "reap") /\ work[c] = {}
    /\ To(c, "recreate")
    /\ UNCHANGED <<wdm, device_url, work, result, answers>>

\* unregister(): WDM deletes the device (or does not know it: 404), or the
\* exchange fails before or after the device is deleted.  A DELETE of the empty
\* URL always fails.
Unregister(c) ==
    /\ At(c, "idle") /\ device_url[c] # NoDevice
    /\ \/ /\ device_url[c] # EmptyUrl
          /\ wdm' = wdm \ {device_url[c]}
          /\ SetUrl(c, NoDevice)
          /\ result' = [result EXCEPT ![c] = "unregistered"]
       \/ /\ wdm' \in {wdm, wdm \ {device_url[c]}}
          /\ result' = [result EXCEPT ![c] = "error"]
          /\ UNCHANGED device_url
    /\ UNCHANGED <<pc, work, answers>>
-----------------------------------------------------------------------------
Next ==
    \E c \in Clients :
        \/ Register(c) \/ FindReusable(c) \/ Refresh(c)
        \/ Create(c) \/ CreateFails(c) \/ CreateRefused(c)
        \/ ReapList(c) \/ (\E d \in Devices : ReapDelete(c, d)) \/ ReapEnds(c)
        \/ Unregister(c)

Spec == Init /\ [][Next]_vars
-----------------------------------------------------------------------------
\* Properties.

\* The devices of other programs on the account are left alone, also when the
\* account is at its cap (reap_own_devices compares name and type).
ForeignKept == Foreign \subseteq wdm

\* A client whose last operation registered a device uses one that WDM has,
\* whatever was reused, refused, reaped or retried on the way; only a reply
\* without a url leaves it registered and not knowing the device.
RegisteredExists ==
    \A c \in Clients : result[c] = "registered" /\ At(c, "idle") =>
        device_url[c] \in wdm \cup {EmptyUrl}

\* Until a list or a refresh goes unanswered, reuse-before-register keeps the
\* account at one device of ours, although a created device may stay unknown to
\* the client (register, create_device).
OneOwnDevice == answers = "all" => Cardinality(wdm \cap Own) <= 1

\* reap_own_devices reaps this client's own devices, none that another client
\* is registered with.
ReapsOnlyOwn ==
    [][\A c \in Clients : At(c, "reap") /\ wdm' # wdm =>
         \A o \in Clients \ {c} : result[o] = "registered" =>
             device_url[o] \notin wdm \ wdm']_vars
=============================================================================

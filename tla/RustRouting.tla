---------------------------- MODULE RustRouting ----------------------------
(***************************************************************************)
(* What the Rust library makes of one Mercury activity, as operators: the  *)
(* routing of handle_activity_static (rust/src/handler.rs), the decryption *)
(* of message_decryptor.rs over jwe.rs and the mentions of                 *)
(* mention_parser.rs.                                                      *)
(*                                                                         *)
(* A text field is absent, plain or a JWE.  A JWE is what its opening      *)
(* depends on: the algorithm of its header, the URI of the key it was      *)
(* sealed with, its shape and what is inside.  An HTML body is the         *)
(* sequence of its spark-mention tags.                                     *)
(***************************************************************************)
EXTENDS Naturals, Sequences

CONSTANTS
    Uris, NoUri,       \* encryption key URLs
    People, NoPerson,  \* persons, by UUID
    Ids,               \* activity ids
    Groups,            \* group mention types
    GroupKey           \* GroupKey[g]: the string "group:" and then g

\* Shapes of a JWE: "torn" does not parse, "short" has an encrypted key of fewer
\* than 8 bytes, "badiv" an IV that is not 12 bytes long, "garbled" opens to bytes
\* that are no UTF-8 (no JSON).
Shapes == {"good", "torn", "short", "badiv", "garbled"}
Algs == {"dir", "A256KW", "other"}

Tag == [type : {"person", "groupMention", "other"},
        id : People \cup Groups \cup {GroupKey[g] : g \in Groups} \cup {NoPerson}]

Field == [kind : {"none", "plain", "jwe"}, alg : Algs, key : Uris \cup {NoUri},
          shape : Shapes, tags : Seq(Tag)]
Absent == [kind |-> "none", alg |-> "other", key |-> NoUri, shape |-> "good",
           tags |-> <<>>]

\* An activity as handle_message_static parsed it.  A person's id comes as a
\* plain UUID or as a REST id that encodes it.
Activity == [id : Ids, verb : STRING, objectType : STRING,
             actor : [form : {"uuid", "rest"}, person : People],
             rootKey : Uris \cup {NoUri}, objectKey : Uris \cup {NoUri},
             targetKey : Uris \cup {NoUri}, tags : SUBSET STRING,
             displayName : Field, content : Field,
             inputs : Field, inputs_encrypted : Field]
-----------------------------------------------------------------------------
\* jwe.rs and message_decryptor.rs

\* decrypt_message_jwe: the outcome of opening the string f with the key of k.
\* The task panics when the length of the buffer for the unwrapped key,
\* encrypted_key.len() - 8, is below 0, and when Nonce::from_slice gets an IV of
\* another length; the wrong key makes the unwrapping fail before that.
DecryptMessageJwe(f, k) ==
    CASE f.kind # "jwe" \/ f.shape = "torn"       -> "error"
      [] f.alg = "other"                          -> "error"
      [] f.alg = "A256KW" /\ f.shape = "short"    -> "panic"
      [] f.shape = "badiv" /\ (f.alg = "dir" \/ f.key = k) -> "panic"
      [] f.key # k                                -> "error"
      [] OTHER                                    -> "ok"

\* Mutant: a string is left where it is.
MutantFinalizeInputs(a) == a

\* finalize_inputs: a string is moved to inputs_encrypted, an object stays.
FinalizeInputs(a) ==
    IF a.inputs.kind = "jwe"
    THEN [a EXCEPT !.inputs_encrypted = a.inputs, !.inputs = Absent]
    ELSE a

\* displayName and content: what cannot be opened is left as it is.
Opened(f, k) ==
    IF DecryptMessageJwe(f, k) = "ok" /\ f.shape # "garbled"
    THEN [f EXCEPT !.kind = "plain"] ELSE f

\* inputs: what cannot be opened or parsed leaves them unset.
OpenedInputs(a, k) ==
    IF /\ DecryptMessageJwe(a.inputs_encrypted, k) = "ok"
       /\ a.inputs_encrypted.shape # "garbled"
    THEN [a.inputs_encrypted EXCEPT !.kind = "plain"] ELSE a.inputs

\* The key's URL: the activity's own, else its object's, else its target's.
EncryptionKeyUrl(a) ==
    CASE a.rootKey # NoUri   -> a.rootKey
      [] a.objectKey # NoUri -> a.objectKey
      [] OTHER               -> a.targetKey

\* decrypt_activity with the key k of EncryptionKeyUrl(a); NoUri: not encrypted.
DecryptActivity(a, k) ==
    IF k = NoUri THEN a
    ELSE [a EXCEPT !.displayName = Opened(a.displayName, k),
                   !.content = Opened(a.content, k),
                   !.inputs = OpenedInputs(a, k)]

\* decrypt_activity takes the task down.
Panics(a, k) ==
    /\ k # NoUri
    /\ \E f \in {a.displayName, a.content, a.inputs_encrypted} :
          DecryptMessageJwe(f, k) = "panic"
-----------------------------------------------------------------------------
\* mention_parser.rs

Mentioned(tag) == tag.type \in {"person", "groupMention"} /\ tag.id # NoPerson

\* What `seen` remembers of a mention; persons and groups share the set.
Key(tag) == IF tag.type = "person" THEN tag.id ELSE GroupKey[tag.id]

Listing(acc, tag) ==
    [seen   |-> acc.seen \cup {Key(tag)},
     people |-> IF tag.type = "person" THEN Append(acc.people, tag.id)
                                       ELSE acc.people,
     groups |-> IF tag.type = "person" THEN acc.groups
                                       ELSE Append(acc.groups, tag.id)]

\* Mutant: no look at what was seen before.
MutantNoted(acc, tag) == IF Mentioned(tag) THEN Listing(acc, tag) ELSE acc

\* A mention whose key was not seen before is listed.
Noted(acc, tag) ==
    IF Mentioned(tag) /\ Key(tag) \notin acc.seen THEN Listing(acc, tag) ELSE acc

\* The loop over the tags.
Mentions(tags) ==
    LET upTo[n \in 0..Len(tags)] ==
          IF n = 0 THEN [seen |-> {}, people |-> <<>>, groups |-> <<>>]
          ELSE Noted(upTo[n - 1], tags[n])
    IN  upTo[Len(tags)]

\* parse_mentions; ciphertext holds no tags.
ParseMentions(f) ==
    LET found == Mentions(IF f.kind = "plain" THEN f.tags ELSE <<>>)
    IN  [people |-> found.people, groups |-> found.groups]
-----------------------------------------------------------------------------
\* handler.rs

\* extract_person_uuid: a REST id is decoded to the UUID in it.
ExtractPersonUuid(id) == id.person

InferRoomType(a) ==
    CASE "ONE_ON_ONE" \in a.tags                      -> "direct"
      [] a.tags \cap {"TEAM", "LOCKED", "GROUP"} # {} -> "group"
      [] OTHER                                        -> "unknown"

IsMessage(a) == /\ a.verb \in {"post", "update", "share"}
                /\ a.objectType \in {"comment", "content"}
IsDelete(a) == a.verb = "delete" /\ a.objectType = "activity"
IsMembership(a) ==
    /\ a.verb \in {"add", "leave", "assignModerator", "unassignModerator"}
    /\ a.objectType = "person"
IsCardAction(a) == a.verb = "cardAction" /\ a.objectType = "submit"
IsRoom(a) == a.verb \in {"create", "update"} /\ a.objectType = "conversation"

\* Only messages and card actions are decrypted.
NeedsKey(a) == (IsMessage(a) \/ IsCardAction(a)) /\ EncryptionKeyUrl(a) # NoUri

NoMentions == [people |-> <<>>, groups |-> <<>>]

\* A HandlerEvent: its type, the raw id of its actor and what is no plain copy.
NoEvent == [type |-> "none", actor |-> [form |-> "uuid", person |-> NoPerson],
            text |-> Absent, html |-> Absent, inputs |-> Absent,
            mentions |-> NoMentions, room |-> "unknown"]
ErrorEvent == [NoEvent EXCEPT !.type = "Error"]
Event(type, a) == [NoEvent EXCEPT !.type = type, !.actor = a.actor]

MessageEvent(a) ==
    [Event(IF a.verb = "update" THEN "MessageUpdated" ELSE "MessageCreated", a)
       EXCEPT !.text = a.displayName, !.html = a.content,
              !.mentions = ParseMentions(a.content), !.room = InferRoomType(a)]

\* Mutant: the author's id is compared as it came.
MutantRouteMessage(a, bot) ==
    IF bot # NoPerson /\ a.actor = [form |-> "uuid", person |-> bot] THEN NoEvent
    ELSE MessageEvent(a)

\* A decrypted message goes out unless the bot wrote it.
RouteMessage(a, bot) ==
    IF bot # NoPerson /\ ExtractPersonUuid(a.actor) = bot THEN NoEvent
    ELSE MessageEvent(a)

\* The event for the (decrypted) activity a, or NoEvent.
Route(a, bot) ==
    CASE IsMessage(a)    -> RouteMessage(a, bot)
      [] IsDelete(a)     -> Event("MessageDeleted", a)
      [] IsMembership(a) -> [Event("MembershipCreated", a)
                               EXCEPT !.room = InferRoomType(a)]
      [] IsCardAction(a) -> [Event("AttachmentActionCreated", a)
                               EXCEPT !.inputs = a.inputs]
      [] IsRoom(a)       -> Event(IF a.verb = "create" THEN "RoomCreated"
                                                      ELSE "RoomUpdated", a)
      [] OTHER           -> NoEvent

\* Mutant: a failed decryption is only logged.
MutantRouteWithoutKey(a, bot) == IF IsMessage(a) THEN NoEvent ELSE Route(a, bot)

\* The key could not be fetched: a message becomes an Error, a card action goes
\* out without its inputs.
RouteWithoutKey(a, bot) == IF IsMessage(a) THEN ErrorEvent ELSE Route(a, bot)
=============================================================================

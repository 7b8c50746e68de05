--------------------------- MODULE MCRustActivity ---------------------------
(* TLC instance of RustActivity: families of activities that exercise the     *)
(* routing table, the self-message filter, the decryption and the mentions.   *)
EXTENDS RustActivity, TLC

Symmetry == Permutations(Tasks)
MCGroupKey == [g \in Groups |-> "group:all"]

Base == [id |-> 1, verb |-> "post", objectType |-> "comment",
         actor |-> [form |-> "uuid", person |-> "alice"],
         rootKey |-> NoUri, objectKey |-> NoUri, targetKey |-> NoUri,
         tags |-> {}, displayName |-> Absent, content |-> Absent,
         inputs |-> Absent, inputs_encrypted |-> Absent]
Plain(tags) == [Absent EXCEPT !.kind = "plain", !.tags = tags]
Jwe(alg, key, shape) == [kind |-> "jwe", alg |-> alg, key |-> key,
                         shape |-> shape, tags |-> <<>>]

\* Every class of activity, and one that is none, by the bot and by a person.
Kinds == {<<"post", "comment">>, <<"share", "content">>, <<"update", "content">>,
          <<"update", "conversation">>, <<"delete", "activity">>,
          <<"leave", "person">>, <<"cardAction", "submit">>, <<"post", "person">>}
Routed == {[Base EXCEPT !.verb = k[1], !.objectType = k[2], !.actor = a] :
             k \in Kinds, a \in {[form |-> "uuid", person |-> "alice"],
                                 [form |-> "rest", person |-> "bot"]}}

\* Every JWE under every place of the key's URL.
Places == {<<NoUri, "u1", NoUri>>, <<NoUri, NoUri, "u1">>, <<"u2", "u1", NoUri>>}
Jwes == {Jwe("dir", "u1", shape) : shape \in {"good", "torn", "badiv", "garbled"}}
        \cup {Jwe("A256KW", "u1", shape) : shape \in {"good", "short"}}
        \cup {Jwe("other", "u1", "good")}
Sealed ==
    LET at(b, p) == [b EXCEPT !.rootKey = p[1], !.objectKey = p[2],
                              !.targetKey = p[3]]
        card == [Base EXCEPT !.verb = "cardAction", !.objectType = "submit"]
        own == <<NoUri, "u1", NoUri>>
        other == <<"u2", "u1", NoUri>>
    IN  {[at(Base, p) EXCEPT !.displayName = j,
                             !.content = Jwe("A256KW", "u2", "good")] :
           p \in Places, j \in Jwes}
        \cup {[at(Base, own) EXCEPT !.content = j] : j \in Jwes}
        \cup {[at(card, p) EXCEPT !.inputs = j] : p \in {own, other}, j \in Jwes}
        \cup {[card EXCEPT !.inputs = Plain(<<>>)]}

\* Three tags, a person's first.
Tags == {[type |-> "person", id |-> "alice"], [type |-> "person", id |-> "bot"],
         [type |-> "groupMention", id |-> "all"],
         [type |-> "person", id |-> "group:all"],
         [type |-> "person", id |-> NoPerson]}
Mentioning ==
    {[Base EXCEPT !.tags = {"ONE_ON_ONE"}, !.content =
        Plain(<<[type |-> "person", id |-> "alice"], x, y>>)] :
       x \in Tags, y \in {g \in Tags : g.id \in {"all", "group:all", "alice"}}}

MCBodies == Routed \cup Sealed \cup Mentioning
FewBodies == {[Base EXCEPT !.rootKey = "u1",
                           !.displayName = Jwe("dir", "u1", "good")],
              [Base EXCEPT !.rootKey = "u1",
                           !.displayName = Jwe("A256KW", "u2", "good")]}
=============================================================================

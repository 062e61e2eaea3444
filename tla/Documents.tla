----------------------------- MODULE Documents ------------------------------
(***************************************************************************)
(* Concurrent REST requests on the document store of EMCO.  A request is   *)
(* the sequence of store calls its route makes (module Entities); every    *)
(* call is one step, so that the calls of two clients interleave between   *)
(* them.  The store finds documents by a subset of their fields: the       *)
(* filter of a project matches every document of that project.  Its first  *)
(* match is the document itself when it is there, which then is older than *)
(* any document under it, and otherwise any of the matches.                *)
(*                                                                         *)
(* A request that only reads is not a process here: what the GET routes    *)
(* would answer is the invariant Usable.                                   *)
(***************************************************************************)
EXTENDS Naturals, Sequences, FiniteSets

CONSTANTS
    Kind,      \* the kinds of documents, one document of each
    Key,       \* the fields of the key of a kind, its collection among them
    Routes,    \* per kind, what each verb does: POST, PUT, DELETE; GET reads
    Unchecked, \* the kinds created with no look at what is above them
    Client,    \* the requests that can be in progress at the same time
    Focuses,   \* the sets of kinds a behaviour may be about
    MaxFaults, \* how many calls of the store fail
    NoDoc

Document == [key : Kind, tags : SUBSET STRING]

Verb == {"POST", "PUT", "DELETE"}
Writing(k) == Verb \cap DOMAIN Routes[k]
Script(k, verb) == Routes[k][verb]

\* The documents a document is kept under, as the filters of the store see it.
Above == [k \in Kind |-> {p \in Kind \ {k} : Key[p] \subseteq Key[k]}]

\* The kinds a script refuses to go on without.
Checked ==
    [k \in Kind |-> [verb \in Writing(k) |->
        {p \in Kind : \E i \in DOMAIN Script(k, verb) :
            Script(k, verb)[i].op = "present" /\ Script(k, verb)[i].kind = p}]]

\* The tags a script leaves, and a POST above all.
Leaves(k, verb) ==
    {Script(k, verb)[i].tag : i \in {j \in DOMAIN Script(k, verb) :
        Script(k, verb)[j].op \in {"put", "query"}}}
Written(k) == Leaves(k, "POST")

-----------------------------------------------------------------------------
(* What the tables have to satisfy.                                        *)

\* Different kinds have different keys.
KeysAssumption == \A j, k \in Kind : Key[j] = Key[k] => j = k

\* A script is a sequence of store calls.
ScriptsAssumption ==
    \A k \in Kind : "POST" \in Writing(k) /\ \A verb \in Writing(k) :
        /\ Script(k, verb) \in Seq([op : STRING, kind : Kind, tag : STRING])
        /\ Script(k, verb) # <<>>

\* Only a creation or an update writes, only a removal removes, each the kind
\* of its route, and a removal counts first.
OwnAssumption ==
    \A k \in Kind : \A verb \in Writing(k) : \A i \in DOMAIN Script(k, verb) :
        LET step == Script(k, verb)[i]
        IN  /\ step.op \in {"put", "query"} => verb # "DELETE" /\ step.kind = k
            /\ step.op = "delete" => /\ verb = "DELETE" /\ step.kind = k
                                     /\ i > 1
                                     /\ Script(k, verb)[i - 1].op = "count"
                                     /\ Script(k, verb)[i - 1].kind = k

\* Before it writes, a creation has found the document itself or, for every
\* document above it, that one or one that is under that one.
CoveredAssumption ==
    \A k \in Kind \ Unchecked : \A verb \in Writing(k) \ {"DELETE"} :
        \A i \in DOMAIN Script(k, verb) :
            Script(k, verb)[i].op = "put" =>
                \A a \in Above[k] : \E j \in 1..(i - 1) :
                    /\ Script(k, verb)[j].op = "present"
                    /\ Script(k, verb)[j].kind \in Above[k] \cup {k}
                    /\ a = Script(k, verb)[j].kind \/ a \in Above[Script(k, verb)[j].kind]

\* A script looks at all it looks at before it writes.
ReadsFirstAssumption ==
    \A k \in Kind : \A verb \in Writing(k) : \A i, j \in DOMAIN Script(k, verb) :
        i < j /\ Script(k, verb)[i].op \in {"put", "query", "delete"} =>
            Script(k, verb)[j].op \in {"put", "query", "delete"}

\* An update leaves the tags a creation leaves, the name of an app only beside
\* another one.
LeavesAssumption ==
    \A k \in Kind : \A verb \in Writing(k) \ {"DELETE"} :
        /\ Written(k) \subseteq Leaves(k, verb)
        /\ \A i \in DOMAIN Script(k, verb) : Script(k, verb)[i].op = "query" =>
              \E j \in 1..(i - 1) : Script(k, verb)[j].op = "put"

\* What a GET reads and what a DELETE looks for are left by a creation of that
\* document or of one above it.
ReadableAssumption ==
    \A k \in Kind :
        /\ \A r \in Routes[k].GET : r.kind \in Above[k] \cup {k} /\ r.tag \in Written(r.kind)
        /\ \A i \in DOMAIN Script(k, "DELETE") : Script(k, "DELETE")[i].op = "present" =>
              /\ Script(k, "DELETE")[i].kind \in Above[k] \cup {k}
              /\ Script(k, "DELETE")[i].tag \in Written(Script(k, "DELETE")[i].kind)

\* What a behaviour starts with is whole.
StandingAssumption ==
    \A f \in Focuses :
        /\ f.about \subseteq Kind /\ f.standing \subseteq Kind
        /\ \A k \in f.standing : Above[k] \subseteq f.standing

ASSUME DocumentsAssumption ==
    /\ IsFiniteSet(Kind)
    /\ KeysAssumption /\ ScriptsAssumption /\ OwnAssumption
    /\ CoveredAssumption /\ StandingAssumption
    /\ ReadsFirstAssumption /\ LeavesAssumption /\ ReadableAssumption
    /\ NoDoc \notin Document
    /\ MaxFaults \in Nat

VARIABLES
    docs,    \* per kind its document, or NoDoc: the type of key and the tags
    req,     \* per client its request
    focus,   \* the kinds the requests are about
    clean,   \* no request has raced with the removal of what it relies on
    faults   \* how many calls have failed

vars == <<docs, req, focus, clean, faults>>

NoRequest(end, wrote) ==
    [verb |-> "none", kind |-> "none", pc |-> 0, wrote |-> wrote, end |-> end]
Running(c) == req[c].verb # "none"
Request ==
    [verb : Verb, kind : Kind, pc : Nat, wrote : BOOLEAN, end : {"none"}]
Call(c) == Script(req[c].kind, req[c].verb)[req[c].pc]

Ended == {NoRequest(end, wrote) :
             end \in {"none", "ok", "refused", "failed"}, wrote \in BOOLEAN}

ReqOK ==
    /\ req \in [Client -> Request \cup Ended]
    /\ \A c \in Client : Running(c) =>
          /\ req[c].kind \in focus
          /\ req[c].verb \in Writing(req[c].kind)
          /\ req[c].pc \in DOMAIN Script(req[c].kind, req[c].verb)

\* Every variable keeps its type; a request is at a call of its route.
TypeOK ==
    /\ docs \in [Kind -> Document \cup {NoDoc}]
    /\ ReqOK
    /\ focus \subseteq Kind
    /\ clean \in BOOLEAN
    /\ faults \in 0..MaxFaults

-----------------------------------------------------------------------------
(* The store.                                                              *)

Live == {k \in Kind : docs[k] # NoDoc}
Matches(k) == {d \in Live : k = d \/ k \in Above[d]}
Firsts(k) == IF k \in Live THEN {k} ELSE Matches(k)

Sees(k, tag) == \E d \in Firsts(k) : tag \in docs[d].tags
Misses(k, tag) == Firsts(k) = {} \/ \E d \in Firsts(k) : tag \notin docs[d].tags

\* Mutant: an Insert that replaces the document it finds.
UpsertReplaces(k, tag) ==
    IF Matches(k) = {}
    THEN docs' = [docs EXCEPT ![k] = [key |-> k, tags |-> {tag}]]
    ELSE \E d \in Firsts(k) : docs' = [docs EXCEPT ![d] = [key |-> k, tags |-> {tag}]]

\* FindOneAndUpdate with upsert: the document takes the type of this key.
Upsert(k, tag) ==
    IF Matches(k) = {}
    THEN docs' = [docs EXCEPT ![k] = [key |-> k, tags |-> {tag}]]
    ELSE \E d \in Firsts(k) :
            docs' = [docs EXCEPT ![d] = [key |-> k, tags |-> @.tags \cup {tag}]]

\* Mutant: an UpdateOne with upsert: a document without a type of key.
UpdateUpserts(k, tag) ==
    IF Matches(k) = {}
    THEN docs' = [docs EXCEPT ![k] = [key |-> NoDoc, tags |-> {tag}]]
    ELSE \E d \in Firsts(k) : docs' = [docs EXCEPT ![d].tags = @ \cup {tag}]

\* UpdateOne without upsert.
Update(k, tag) ==
    IF Matches(k) = {}
    THEN UNCHANGED docs
    ELSE \E d \in Firsts(k) : docs' = [docs EXCEPT ![d].tags = @ \cup {tag}]

DeleteOne(k) ==
    IF Matches(k) = {}
    THEN UNCHANGED docs
    ELSE \E d \in Firsts(k) : docs' = [docs EXCEPT ![d] = NoDoc]

-----------------------------------------------------------------------------
(* The requests.                                                           *)

\* A removal in progress beside the creation of something it must not miss,
\* or of the document itself.
Relies(verb, k, p) == verb # "DELETE" /\ p \in Above[k] \cup {k}
Races(c, k, verb) ==
    \E other \in Client \ {c} :
        /\ Running(other)
        /\ \/ req[other].verb = "DELETE" /\ Relies(verb, k, req[other].kind)
           \/ verb = "DELETE" /\ Relies(req[other].verb, req[other].kind, k)

Start(c, k, verb) ==
    /\ ~Running(c)
    /\ req' = [req EXCEPT ![c] =
                 [verb |-> verb, kind |-> k, pc |-> 1, wrote |-> FALSE, end |-> "none"]]
    /\ clean' = (clean /\ ~Races(c, k, verb))
    /\ UNCHANGED <<docs, focus, faults>>

GoOn(c, wrote) ==
    IF req[c].pc < Len(Script(req[c].kind, req[c].verb))
    THEN req' = [req EXCEPT ![c].pc = @ + 1, ![c].wrote = @ \/ wrote]
    ELSE req' = [req EXCEPT ![c] = NoRequest("ok", @.wrote \/ wrote)]

EndWith(c, end, wrote) ==
    req' = [req EXCEPT ![c] = NoRequest(end, @.wrote \/ wrote)]

Calls(c, op) == Running(c) /\ Call(c).op = op

MustNotFind(c) ==
    /\ Calls(c, "absent")
    /\ \/ Sees(Call(c).kind, Call(c).tag) /\ EndWith(c, "refused", FALSE)
       \/ Misses(Call(c).kind, Call(c).tag) /\ GoOn(c, FALSE)
    /\ UNCHANGED <<docs, focus, clean, faults>>

\* The same, found by the name of the app: the documents that have one.
MustNotFindForApp(c) ==
    /\ Calls(c, "absentForApp")
    /\ LET d == docs[Call(c).kind]
           there == d # NoDoc /\ {"app-name", Call(c).tag} \subseteq d.tags
       IN  IF there THEN EndWith(c, "refused", FALSE) ELSE GoOn(c, FALSE)
    /\ UNCHANGED <<docs, focus, clean, faults>>

MustFind(c) ==
    /\ Calls(c, "present")
    /\ \/ Sees(Call(c).kind, Call(c).tag) /\ GoOn(c, FALSE)
       \/ Misses(Call(c).kind, Call(c).tag) /\ EndWith(c, "refused", FALSE)
    /\ UNCHANGED <<docs, focus, clean, faults>>

\* What an Insert does to the promise: an unchecked creation under nothing
\* puts a document where the filter of a later parent will find it.
StaysClean(c) ==
    clean' = (clean /\ (req[c].kind \in Unchecked
                          => Above[req[c].kind] \subseteq Live))

Insert(c) ==
    /\ Calls(c, "put")
    /\ Upsert(Call(c).kind, Call(c).tag)
    /\ StaysClean(c)
    /\ GoOn(c, TRUE)
    /\ UNCHANGED <<focus, faults>>

InsertQuery(c) ==
    /\ Calls(c, "query")
    /\ Update(Call(c).kind, Call(c).tag)
    /\ GoOn(c, TRUE)
    /\ UNCHANGED <<focus, clean, faults>>

\* Mutant: a count that forgets that a document matches its own filter.
RefuseCountOfTwo(k) == Cardinality(Matches(k)) > 2

RefuseCount(k) == Cardinality(Matches(k)) > 1

\* Mutant: a Remove that counts what is left under the document it has removed.
CountRemoved(c) ==
    /\ Calls(c, "count")
    /\ DeleteOne(Call(c).kind)
    /\ IF RefuseCount(Call(c).kind) THEN EndWith(c, "refused", TRUE) ELSE GoOn(c, TRUE)
    /\ UNCHANGED <<focus, clean, faults>>

CountChildren(c) ==
    /\ Calls(c, "count")
    /\ IF RefuseCount(Call(c).kind) THEN EndWith(c, "refused", FALSE) ELSE GoOn(c, FALSE)
    /\ UNCHANGED <<docs, focus, clean, faults>>

Delete(c) ==
    /\ Calls(c, "delete")
    /\ DeleteOne(Call(c).kind)
    /\ GoOn(c, TRUE)
    /\ UNCHANGED <<focus, clean, faults>>

-----------------------------------------------------------------------------
(* Faults: a call of the store returns an error.                           *)

\* Mutant: a parent check that looks at the value only.
ReadFailsOpen(c) ==
    /\ faults < MaxFaults
    /\ \/ Calls(c, "absent") /\ GoOn(c, FALSE)
       \/ Calls(c, "absentForApp") /\ GoOn(c, FALSE)
       \/ Calls(c, "present") /\ GoOn(c, FALSE)
       \/ Calls(c, "count") /\ EndWith(c, "failed", FALSE)
    /\ faults' = faults + 1
    /\ UNCHANGED <<docs, focus, clean>>

\* A look-up that fails counts as "not there" for MustNotFind: the code
\* looks at the value, not at the error.
ReadFails(c) ==
    /\ faults < MaxFaults
    /\ \/ Calls(c, "absent") /\ GoOn(c, FALSE)
       \/ Calls(c, "absentForApp") /\ GoOn(c, FALSE)
       \/ Calls(c, "present") /\ EndWith(c, "failed", FALSE)
       \/ Calls(c, "count") /\ EndWith(c, "failed", FALSE)
    /\ faults' = faults + 1
    /\ UNCHANGED <<docs, focus, clean>>

WriteFails(c) ==
    /\ faults < MaxFaults
    /\ Calls(c, "put") \/ Calls(c, "query") \/ Calls(c, "delete")
    /\ EndWith(c, "failed", FALSE)
    /\ faults' = faults + 1
    /\ UNCHANGED <<docs, focus, clean>>

\* The store has done it and the answer is lost.
AnswerLost(c) ==
    /\ faults < MaxFaults
    /\ \/ Calls(c, "put") /\ Upsert(Call(c).kind, Call(c).tag) /\ StaysClean(c)
       \/ Calls(c, "delete") /\ DeleteOne(Call(c).kind) /\ UNCHANGED clean
    /\ EndWith(c, "failed", TRUE)
    /\ faults' = faults + 1
    /\ UNCHANGED focus

-----------------------------------------------------------------------------
(* The specification.                                                      *)

Init ==
    /\ \E f \in Focuses :
          /\ focus = f.about
          /\ docs = [k \in Kind |-> IF k \in f.standing
                                    THEN [key |-> k, tags |-> Written(k)] ELSE NoDoc]
    /\ req = [c \in Client |-> NoRequest("none", FALSE)]
    /\ clean = TRUE
    /\ faults = 0

Progress(c) ==
    \/ MustNotFind(c) \/ MustNotFindForApp(c) \/ MustFind(c)
    \/ Insert(c) \/ InsertQuery(c) \/ CountChildren(c) \/ Delete(c)

Next ==
    \E c \in Client :
        \/ \E k \in focus : \E verb \in Writing(k) : Start(c, k, verb)
        \/ Progress(c)
        \/ ReadFails(c) \/ WriteFails(c) \/ AnswerLost(c)

Spec == Init /\ [][Next]_vars

-----------------------------------------------------------------------------
(* Properties.                                                             *)

\* No document is left under one that is gone, whatever calls fail, as long
\* as no removal ran beside a creation that relies on what it removes: the
\* parent checks of the Create functions and the count in Remove together.
NoDangling == clean => \A k \in Live : Above[k] \subseteq Live

\* Without failures every document that is there between requests is whole:
\* each GET of it answers, a listing of its kind (by the type of the key)
\* has it, and its DELETE can get past what it looks for.
Usable ==
    (clean /\ faults = 0 /\ \A c \in Client : ~Running(c)) =>
        \A k \in Live :
            /\ docs[k].key = k
            /\ \A r \in Routes[k].GET : r.tag \in docs[r.kind].tags
            /\ \A i \in DOMAIN Script(k, "DELETE") :
                  Script(k, "DELETE")[i].op = "present" =>
                      Script(k, "DELETE")[i].tag \in docs[Script(k, "DELETE")[i].kind].tags

\* A request that is told "exists", "does not exist" or "has children" has
\* written nothing, even when the answer came from a race.
RefusedLeavesNoTrace ==
    \A c \in Client : req[c].end = "refused" => ~req[c].wrote

\* The requests together are the atomic creations and removals of a forest.
Tree == INSTANCE EntityTree WITH live <- Live, void <- ~clean
ImplementsEntityTree == Tree!TreeSpec

=============================================================================

--------------------------- MODULE DocumentsProofs --------------------------
(***************************************************************************)
(* Theorems about Documents, for any kinds, keys and routes that meet its  *)
(* assumptions, any number of clients and of failing calls.                *)
(***************************************************************************)
EXTENDS Documents, FiniteSetTheorems, TLAPS

-----------------------------------------------------------------------------
(* The tables.                                                             *)

\* A step of a script is a store call.
LEMMA CallType ==
    ASSUME NEW k \in Kind, NEW verb \in Writing(k), NEW i \in DOMAIN Script(k, verb)
    PROVE  /\ Script(k, verb)[i] \in [op : STRING, kind : Kind, tag : STRING]
           /\ i \in Nat /\ DOMAIN Script(k, verb) = 1..Len(Script(k, verb))
           /\ Len(Script(k, verb)) \in Nat /\ verb \in Verb
<1>1. Script(k, verb) \in Seq([op : STRING, kind : Kind, tag : STRING])
  BY DocumentsAssumption DEF ScriptsAssumption
<1>2. verb \in Verb
  BY DEF Writing
<1>3. ASSUME NEW T, NEW s \in Seq(T), NEW n \in DOMAIN s
      PROVE  s[n] \in T /\ n \in Nat /\ DOMAIN s = 1..Len(s) /\ Len(s) \in Nat
  OBVIOUS
<1> QED
  BY <1>1, <1>2, <1>3

\* Every script has a first step.
LEMMA FirstCall ==
    ASSUME NEW k \in Kind, NEW verb \in Writing(k)
    PROVE  1 \in DOMAIN Script(k, verb)
<1>1. /\ Script(k, verb) \in Seq([op : STRING, kind : Kind, tag : STRING])
      /\ Script(k, verb) # <<>>
  BY DocumentsAssumption DEF ScriptsAssumption
<1> HIDE DEF Script
<1> QED
  BY <1>1

\* What is above something above k is above k: keys differ.
LEMMA AboveTransitive ==
    ASSUME NEW k \in Kind, NEW p \in Above[k], NEW a \in Above[p]
    PROVE  /\ p \in Kind /\ a \in Kind /\ a \in Above[k]
BY DocumentsAssumption DEF KeysAssumption, Above

LEMMA AboveType ==
    ASSUME NEW k \in Kind
    PROVE  Above[k] \subseteq Kind /\ k \notin Above[k]
BY DEF Above

-----------------------------------------------------------------------------
(* Type correctness.                                                       *)

USE DEF TypeOK

\* What is known of a request that runs.
LEMMA RunningType ==
    ASSUME TypeOK, NEW c \in Client, Running(c)
    PROVE  /\ req[c] \in Request
           /\ req[c].kind \in Kind /\ req[c].kind \in focus
           /\ req[c].verb \in Writing(req[c].kind)
           /\ req[c].pc \in DOMAIN Script(req[c].kind, req[c].verb)
           /\ Call(c) \in [op : STRING, kind : Kind, tag : STRING]
           /\ req[c].wrote \in BOOLEAN
<1>1. req[c] \in Request
  BY DEF ReqOK, Running, Ended, NoRequest
<1>2. /\ req[c].kind \in Kind /\ req[c].kind \in focus
      /\ req[c].verb \in Writing(req[c].kind)
      /\ req[c].pc \in DOMAIN Script(req[c].kind, req[c].verb)
  BY DEF ReqOK
<1>3. Call(c) \in [op : STRING, kind : Kind, tag : STRING]
  BY <1>2, CallType DEF Call
<1> QED
  BY <1>1, <1>2, <1>3 DEF Request

\* The end of a request keeps the type ...
LEMMA EndWithType ==
    ASSUME TypeOK, NEW c \in Client, Running(c), UNCHANGED focus,
           NEW end \in {"ok", "refused", "failed"}, NEW wrote \in BOOLEAN,
           EndWith(c, end, wrote)
    PROVE  ReqOK'
<1>1. NoRequest(end, req[c].wrote \/ wrote) \in Ended
  BY RunningType DEF Ended
<1>2. req' = [req EXCEPT ![c] = NoRequest(end, req[c].wrote \/ wrote)]
  BY DEF EndWith
<1>3. req' \in [Client -> Request \cup Ended]
  BY <1>1, <1>2 DEF ReqOK
<1>4. ~Running(c)'
  BY <1>2 DEF ReqOK, Running, NoRequest
<1>5. \A o \in Client : o # c => req'[o] = req[o]
  BY <1>2 DEF ReqOK
<1> QED
  BY <1>3, <1>4, <1>5 DEF ReqOK, Running

\* ... and so does its next call.
LEMMA GoOnType ==
    ASSUME TypeOK, NEW c \in Client, Running(c), UNCHANGED focus,
           NEW wrote \in BOOLEAN, GoOn(c, wrote)
    PROVE  ReqOK'
<1> DEFINE n == Len(Script(req[c].kind, req[c].verb))
<1>0. /\ n \in Nat /\ req[c].pc \in Nat
      /\ DOMAIN Script(req[c].kind, req[c].verb) = 1..n
  BY RunningType, CallType
<1>1. CASE req[c].pc < n
  <2>1. req' = [req EXCEPT ![c].pc = @ + 1, ![c].wrote = @ \/ wrote]
    BY <1>1 DEF GoOn
  <2>0. req[c] \in Request /\ req \in [Client -> Request \cup Ended]
    BY RunningType DEF ReqOK
  <2>2. /\ req'[c].verb = req[c].verb /\ req'[c].kind = req[c].kind
        /\ req'[c].pc = req[c].pc + 1
        /\ req'[c] \in Request
    <3>1. req'[c] = [req[c] EXCEPT !.pc = @ + 1, !.wrote = @ \/ wrote]
      BY <2>1, <2>0
    <3>2. (req[c].wrote \/ wrote) \in BOOLEAN /\ req[c].pc + 1 \in Nat
      BY RunningType, <1>0
    <3> DEFINE q == req[c].pc + 1
               w == (req[c].wrote \/ wrote)
    <3>3. req'[c] = [req[c] EXCEPT !.pc = q, !.wrote = w]
      BY <3>1
    <3> HIDE DEF q, w
    <3>4. \A r \in Request : [r EXCEPT !.pc = q, !.wrote = w] \in Request
      BY <3>2 DEF Request, q, w
    <3>5. req'[c].verb = req[c].verb /\ req'[c].kind = req[c].kind /\ req'[c].pc = q
      BY <3>3, <2>0 DEF Request
    <3> QED
      BY <3>3, <3>4, <3>5, <2>0 DEF q
  <2>3. \A o \in Client : o # c => req'[o] = req[o]
    BY <2>1 DEF ReqOK
  <2>4. req' \in [Client -> Request \cup Ended]
    BY <2>1, <2>2, <2>3 DEF ReqOK
  <2>5. req'[c].pc \in 1..n
    BY <2>2, <1>0, <1>1
  <2>6. Running(c)' =>
          /\ req'[c].kind \in focus'
          /\ req'[c].verb \in Writing(req'[c].kind)
          /\ req'[c].pc \in DOMAIN Script(req'[c].kind, req'[c].verb)
    BY <2>2, <2>5, <1>0, RunningType
  <2> QED
    BY <2>3, <2>4, <2>6 DEF ReqOK, Running
<1>2. CASE ~(req[c].pc < n)
  <2>1. EndWith(c, "ok", wrote)
    BY <1>2 DEF GoOn, EndWith
  <2> QED
    BY <2>1, EndWithType
<1> QED
  BY <1>1, <1>2

LEMMA UpsertType ==
    ASSUME TypeOK, NEW k \in Kind, NEW tag \in STRING, Upsert(k, tag)
    PROVE  docs' \in [Kind -> Document \cup {NoDoc}]
<1>1. CASE Matches(k) = {}
  BY <1>1 DEF Upsert, Document
<1>2. CASE Matches(k) # {}
  <2>1. PICK d \in Firsts(k) :
           docs' = [docs EXCEPT ![d] = [key |-> k, tags |-> @.tags \cup {tag}]]
    BY <1>2 DEF Upsert
  <2>2. d \in Kind /\ docs[d] \in Document
    BY <2>1 DEF Firsts, Matches, Live
  <2>3. [key |-> k, tags |-> docs[d].tags \cup {tag}] \in Document
    BY <2>2 DEF Document
  <2> QED
    BY <2>1, <2>2, <2>3
<1> QED
  BY <1>1, <1>2

LEMMA UpdateType ==
    ASSUME TypeOK, NEW k \in Kind, NEW tag \in STRING, Update(k, tag)
    PROVE  docs' \in [Kind -> Document \cup {NoDoc}]
<1>1. CASE Matches(k) = {}
  BY <1>1 DEF Update
<1>2. CASE Matches(k) # {}
  <2>1. PICK d \in Firsts(k) : docs' = [docs EXCEPT ![d].tags = @ \cup {tag}]
    BY <1>2 DEF Update
  <2>2. d \in Kind /\ docs[d] \in Document
    BY <2>1 DEF Firsts, Matches, Live
  <2>3. [docs[d] EXCEPT !.tags = @ \cup {tag}] \in Document
    BY <2>2 DEF Document
  <2> QED
    BY <2>1, <2>2, <2>3
<1> QED
  BY <1>1, <1>2

LEMMA DeleteType ==
    ASSUME TypeOK, NEW k \in Kind, DeleteOne(k)
    PROVE  docs' \in [Kind -> Document \cup {NoDoc}]
BY DEF DeleteOne


LEMMA RunningMeansCall ==
    ASSUME NEW c \in Client, NEW op, Calls(c, op)
    PROVE  Running(c)
BY DEF Calls

\* Every variable keeps its type: a request is at a step of the script of its
\* route and every document is a record of a key type and tags.
THEOREM Types == Spec => []TypeOK
<1>1. Init => TypeOK
  <2> SUFFICES ASSUME Init PROVE TypeOK
    OBVIOUS
  <2>1. PICK f \in Focuses :
          /\ focus = f.about
          /\ docs = [k \in Kind |-> IF k \in f.standing
                                    THEN [key |-> k, tags |-> Written(k)] ELSE NoDoc]
    BY DEF Init
  <2>2. focus \subseteq Kind
    BY <2>1, DocumentsAssumption DEF StandingAssumption
  <2>3. ASSUME NEW k \in Kind PROVE Written(k) \subseteq STRING
    <3>1. "POST" \in Writing(k)
      BY DocumentsAssumption DEF ScriptsAssumption
    <3>2. \A i \in DOMAIN Script(k, "POST") : Script(k, "POST")[i].tag \in STRING
      BY <3>1, CallType
    <3> QED
      BY <3>2 DEF Written, Leaves
  <2>4. docs \in [Kind -> Document \cup {NoDoc}]
    BY <2>1, <2>3 DEF Document
  <2>5. ReqOK
    <3>1. req = [c \in Client |-> NoRequest("none", FALSE)]
      BY DEF Init
    <3>2. NoRequest("none", FALSE) \in Ended
      <4>1. \A end \in {"none", "ok", "refused", "failed"}, wrote \in BOOLEAN :
               NoRequest(end, wrote) \in Ended
        BY DEF Ended
      <4> QED
        BY <4>1
    <3>3. NoRequest("none", FALSE).verb = "none"
      BY DEF NoRequest
    <3> QED
      BY <3>1, <3>2, <3>3 DEF ReqOK, Running
  <2>6. clean \in BOOLEAN /\ faults \in 0..MaxFaults
    BY DocumentsAssumption DEF Init
  <2> QED
    BY <2>2, <2>4, <2>5, <2>6
<1>2. TypeOK /\ [Next]_vars => TypeOK'
  <2> SUFFICES ASSUME TypeOK, [Next]_vars PROVE TypeOK'
    OBVIOUS
  <2>0. MaxFaults \in Nat
    BY DocumentsAssumption
  <2>1. CASE UNCHANGED vars
    BY <2>1 DEF ReqOK, vars, Running
  <2>2. ASSUME NEW c \in Client, NEW k \in focus, NEW verb \in Writing(k),
               Start(c, k, verb)
        PROVE  TypeOK'
    <3>1. k \in Kind /\ verb \in Verb /\ 1 \in DOMAIN Script(k, verb)
      BY FirstCall DEF Writing
    <3>2. [verb |-> verb, kind |-> k, pc |-> 1, wrote |-> FALSE, end |-> "none"]
            \in Request
      BY <3>1 DEF Request
    <3>3. ReqOK'
      BY <2>2, <3>1, <3>2 DEF ReqOK, Start, Running
    <3> QED
      BY <2>2, <3>3 DEF Start
  <2>3. ASSUME NEW c \in Client, Progress(c)
        PROVE  TypeOK'
    <3>1. CASE MustNotFind(c)
      BY <3>1, EndWithType, GoOnType, RunningMeansCall DEF MustNotFind
    <3>2. CASE MustNotFindForApp(c)
      <4>1. EndWith(c, "refused", FALSE) \/ GoOn(c, FALSE)
        BY <3>2 DEF MustNotFindForApp
      <4> QED
        BY <3>2, <4>1, EndWithType, GoOnType, RunningMeansCall
           DEF MustNotFindForApp
    <3>3. CASE MustFind(c)
      BY <3>3, EndWithType, GoOnType, RunningMeansCall DEF MustFind
    <3>4. CASE Insert(c)
      <4>1. ReqOK' /\ docs' \in [Kind -> Document \cup {NoDoc}]
        BY <3>4, GoOnType, UpsertType, RunningType, RunningMeansCall DEF Insert
      <4> QED
        BY <3>4, <4>1 DEF Insert, StaysClean
    <3>5. CASE InsertQuery(c)
      <4>1. ReqOK' /\ docs' \in [Kind -> Document \cup {NoDoc}]
        BY <3>5, GoOnType, UpdateType, RunningType, RunningMeansCall DEF InsertQuery
      <4> QED
        BY <3>5, <4>1 DEF InsertQuery
    <3>6. CASE CountChildren(c)
      <4>1. EndWith(c, "refused", FALSE) \/ GoOn(c, FALSE)
        BY <3>6 DEF CountChildren
      <4> QED
        BY <3>6, <4>1, EndWithType, GoOnType, RunningMeansCall
           DEF CountChildren
    <3>7. CASE Delete(c)
      <4>1. ReqOK' /\ docs' \in [Kind -> Document \cup {NoDoc}]
        BY <3>7, GoOnType, DeleteType, RunningType, RunningMeansCall DEF Delete
      <4> QED
        BY <3>7, <4>1 DEF Delete
    <3> QED
      BY <2>3, <3>1, <3>2, <3>3, <3>4, <3>5, <3>6, <3>7 DEF Progress
  <2>4. ASSUME NEW c \in Client, ReadFails(c)
        PROVE  TypeOK'
    <3>1. ReqOK'
      BY <2>4, EndWithType, GoOnType, RunningMeansCall DEF ReadFails
    <3> QED
      BY <2>0, <2>4, <3>1 DEF ReadFails
  <2>5. ASSUME NEW c \in Client, WriteFails(c)
        PROVE  TypeOK'
    <3>1. ReqOK'
      BY <2>5, EndWithType, RunningMeansCall DEF WriteFails
    <3> QED
      BY <2>0, <2>5, <3>1 DEF WriteFails
  <2>6. ASSUME NEW c \in Client, AnswerLost(c)
        PROVE  TypeOK'
    <3>1. ReqOK' /\ docs' \in [Kind -> Document \cup {NoDoc}]
      BY <2>6, EndWithType, UpsertType, DeleteType, RunningType, RunningMeansCall
         DEF AnswerLost
    <3>2. clean' \in BOOLEAN
      BY <2>6 DEF AnswerLost, StaysClean
    <3>3. faults' \in 0..MaxFaults /\ focus' \subseteq Kind
      BY <2>0, <2>6 DEF AnswerLost
    <3> QED
      BY <3>1, <3>2, <3>3
  <2> QED
    BY <2>1, <2>2, <2>3, <2>4, <2>5, <2>6 DEF Next
<1> QED
  BY <1>1, <1>2, PTL DEF Spec


-----------------------------------------------------------------------------
(* No dangling documents.                                                  *)

\* No removal runs beside a request that relies on what it removes.
NoRace ==
    \A c, o \in Client :
        (Running(c) /\ Running(o) /\ c # o /\ req[o].verb = "DELETE")
            => ~Relies(req[c].verb, req[c].kind, req[o].kind)

\* What a creation has found is still there ...
FoundThere ==
    \A c \in Client :
        (Running(c) /\ req[c].verb # "DELETE") =>
            \A j \in 1..(req[c].pc - 1) :
                LET step == Script(req[c].kind, req[c].verb)[j]
                IN  (step.op = "present"
                       /\ step.kind \in Above[req[c].kind] \cup {req[c].kind})
                    => step.kind \in Live

\* ... and what a removal has counted has nothing under it.
CountedAlone ==
    \A c \in Client :
        Calls(c, "delete") => \A d \in Live : req[c].kind \notin Above[d]

\* What the kinds of steps do to the set of documents.
Forest == \A k \in Live : Above[k] \subseteq Live
IInv == clean => Forest /\ NoRace /\ FoundThere /\ CountedAlone

LEMMA UpsertLive ==
    ASSUME TypeOK, NEW k \in Kind, NEW tag \in STRING, Upsert(k, tag)
    PROVE  Live' = Live \/ (Live' = Live \cup {k} /\ Matches(k) = {})
<1>0. \A d \in Document : d # NoDoc
  BY DocumentsAssumption
<1>1. CASE Matches(k) = {}
  <2>1. docs' = [docs EXCEPT ![k] = [key |-> k, tags |-> {tag}]]
    BY <1>1 DEF Upsert
  <2>2. [key |-> k, tags |-> {tag}] \in Document
    BY DEF Document
  <2> QED
    BY <1>0, <1>1, <2>1, <2>2 DEF Live
<1>2. CASE Matches(k) # {}
  <2>1. PICK d \in Firsts(k) :
           docs' = [docs EXCEPT ![d] = [key |-> k, tags |-> @.tags \cup {tag}]]
    BY <1>2 DEF Upsert
  <2>2. d \in Live /\ docs[d] \in Document
    BY <2>1 DEF Firsts, Matches, Live
  <2>3. [key |-> k, tags |-> docs[d].tags \cup {tag}] \in Document
    BY <2>2 DEF Document
  <2> QED
    BY <1>0, <2>1, <2>2, <2>3 DEF Live
<1> QED
  BY <1>1, <1>2

LEMMA UpdateLive ==
    ASSUME TypeOK, NEW k \in Kind, NEW tag \in STRING, Update(k, tag)
    PROVE  Live' = Live
<1>0. \A d \in Document : d # NoDoc
  BY DocumentsAssumption
<1>1. CASE Matches(k) = {}
  BY <1>1 DEF Update, Live
<1>2. CASE Matches(k) # {}
  <2>1. PICK d \in Firsts(k) : docs' = [docs EXCEPT ![d].tags = @ \cup {tag}]
    BY <1>2 DEF Update
  <2>2. d \in Live /\ docs[d] \in Document
    BY <2>1 DEF Firsts, Matches, Live
  <2>3. [docs[d] EXCEPT !.tags = @ \cup {tag}] \in Document
    BY <2>2 DEF Document
  <2> QED
    BY <1>0, <2>1, <2>2, <2>3 DEF Live
<1> QED
  BY <1>1, <1>2

LEMMA DeleteLive ==
    ASSUME TypeOK, NEW k \in Kind, DeleteOne(k),
           \A d \in Live : k \notin Above[d]
    PROVE  Live' = Live \ {k}
BY DEF DeleteOne, Firsts, Matches, Live

\* A look-up that finds the tag finds the document itself.
LEMMA SeesLive ==
    ASSUME TypeOK, Forest, NEW k \in Kind, NEW tag, Sees(k, tag)
    PROVE  k \in Live
BY DEF Sees, Firsts, Matches, Live, Forest

\* A removal that is not refused has nothing under its document.
LEMMA CountAlone ==
    ASSUME TypeOK, Forest, NEW k \in Kind, ~RefuseCount(k)
    PROVE  \A d \in Live : k \notin Above[d]
<1> SUFFICES ASSUME NEW d \in Live, k \in Above[d] PROVE FALSE
  OBVIOUS
<1>1. d \in Kind /\ k # d /\ k \in Live
  BY AboveType DEF Forest, Live
<1>2. {k, d} \subseteq Matches(k)
  BY <1>1 DEF Matches
<1>3. IsFiniteSet(Matches(k))
  <2>1. Matches(k) \subseteq Kind
    BY DEF Matches, Live
  <2> QED
    BY <2>1, DocumentsAssumption, FS_Subset
<1>4. Cardinality({k, d}) = 2
  <2>1. Cardinality({k}) = 1 /\ IsFiniteSet({k})
    BY FS_Singleton
  <2>2. {k, d} = {k} \cup {d} /\ d \notin {k}
    BY <1>1
  <2>3. Cardinality({k} \cup {d}) = Cardinality({k}) + 1
    BY <2>1, <2>2, FS_AddElement
  <2> QED
    BY <2>1, <2>2, <2>3
<1>5. Cardinality({k, d}) <= Cardinality(Matches(k))
  BY <1>2, <1>3, FS_Subset
<1>6. Cardinality(Matches(k)) \in Nat
  BY <1>3, FS_CardinalityType
<1> QED
  BY <1>4, <1>5, <1>6 DEF RefuseCount


\* The calls that leave the documents as they are.
LEMMA LiveKept ==
    ASSUME UNCHANGED docs
    PROVE  Live' = Live
BY DEF Live

\* How a step of a request changes the requests: the others stay, and its own
\* goes to the next call of its script or ends.
Advances(c) ==
    /\ \A o \in Client : o # c => req'[o] = req[o]
    /\ \/ ~Running(c)'
       \/ /\ Running(c)' /\ req'[c].verb = req[c].verb /\ req'[c].kind = req[c].kind
          /\ req'[c].pc = req[c].pc + 1

LEMMA GoOnAdvances ==
    ASSUME TypeOK, NEW c \in Client, Running(c), NEW wrote, GoOn(c, wrote)
    PROVE  Advances(c)
<1>1. req[c] \in Request /\ req \in [Client -> Request \cup Ended]
  BY RunningType DEF ReqOK
<1>2. CASE req' = [req EXCEPT ![c].pc = @ + 1, ![c].wrote = @ \/ wrote]
  <2>1. req'[c] = [req[c] EXCEPT !.pc = @ + 1, !.wrote = @ \/ wrote]
    BY <1>1, <1>2
  <2>2. /\ req'[c].verb = req[c].verb /\ req'[c].kind = req[c].kind
        /\ req'[c].pc = req[c].pc + 1
    BY <1>1, <2>1 DEF Request
  <2> QED
    BY <1>1, <1>2, <2>2 DEF Advances, Running
<1>3. CASE req' = [req EXCEPT ![c] = NoRequest("ok", @.wrote \/ wrote)]
  BY <1>1, <1>3 DEF Advances, Running, NoRequest
<1> QED
  BY <1>2, <1>3 DEF GoOn

LEMMA EndAdvances ==
    ASSUME TypeOK, NEW c \in Client, Running(c), NEW end, NEW wrote, EndWith(c, end, wrote)
    PROVE  Advances(c)
<1>1. req \in [Client -> Request \cup Ended]
  BY DEF ReqOK
<1> QED
  BY <1>1 DEF EndWith, Advances, Running, NoRequest

\* Removals and creations stay apart when a request advances.
LEMMA NoRaceKept ==
    ASSUME TypeOK, NoRace, NEW c \in Client, Running(c), Advances(c)
    PROVE  NoRace'
BY DEF NoRace, Advances, Running, Relies

\* The calls before the one a request is at, after it has advanced.
LEMMA FoundKept ==
    ASSUME TypeOK, FoundThere, NEW c \in Client, Running(c), Advances(c),
           \A o \in Client, p \in Kind :
              (Running(o) /\ req[o].verb # "DELETE" /\ p \in Live
                 /\ p \in Above[req[o].kind] \cup {req[o].kind}) => p \in Live',
           (Call(c).op = "present" /\ req[c].verb # "DELETE"
              /\ Call(c).kind \in Above[req[c].kind] \cup {req[c].kind})
                 => Call(c).kind \in Live'
    PROVE  FoundThere'
<1> SUFFICES ASSUME NEW o \in Client, Running(o)', req'[o].verb # "DELETE",
                    NEW j \in 1..(req'[o].pc - 1),
                    Script(req'[o].kind, req'[o].verb)[j].op = "present",
                    Script(req'[o].kind, req'[o].verb)[j].kind
                       \in Above[req'[o].kind] \cup {req'[o].kind}
             PROVE  Script(req'[o].kind, req'[o].verb)[j].kind \in Live'
  BY DEF FoundThere
<1> DEFINE p == Script(req'[o].kind, req'[o].verb)[j].kind
<1>1. CASE o # c
  <2>1. req'[o] = req[o] /\ Running(o)
    BY <1>1 DEF Advances, Running
  <2>2. p \in Live /\ p \in Kind
    BY <2>1 DEF FoundThere, Live
  <2> QED
    BY <2>1, <2>2
<1>2. CASE o = c
  <2>1. /\ req'[c].verb = req[c].verb /\ req'[c].kind = req[c].kind
        /\ req'[c].pc = req[c].pc + 1
    BY <1>2 DEF Advances
  <2>2. req[c].pc \in Nat
    BY RunningType, CallType
  <2>3. CASE j = req[c].pc
    BY <1>2, <2>1, <2>3 DEF Call
  <2>4. CASE j # req[c].pc
    <3>1. j \in 1..(req[c].pc - 1)
      BY <1>2, <2>1, <2>2, <2>4
    <3>2. p \in Live /\ p \in Kind
      BY <1>2, <2>1, <3>1 DEF FoundThere, Live
    <3> QED
      BY <1>2, <2>1, <3>2
  <2> QED
    BY <2>3, <2>4
<1> QED
  BY <1>1, <1>2

\* A removal that gets to its delete has just counted.
LEMMA CountedKept ==
    ASSUME TypeOK, TypeOK', CountedAlone, NEW c \in Client, Running(c), Advances(c),
           \A o \in Client \ {c} : Calls(o, "delete") =>
              \A d \in Live' \ Live : req[o].kind \notin Above[d],
           Call(c).op = "count" => \A d \in Live' : Call(c).kind \notin Above[d]
    PROVE  CountedAlone'
<1> SUFFICES ASSUME NEW o \in Client, Calls(o, "delete")', NEW d \in Live'
             PROVE  req'[o].kind \notin Above[d]
  BY DEF CountedAlone
<1>1. CASE o # c
  <2>1. req'[o] = req[o]
    BY <1>1 DEF Advances
  <2>2. Calls(o, "delete")
    BY <2>1 DEF Calls, Running, Call
  <2> QED
    BY <1>1, <2>1, <2>2 DEF CountedAlone
<1>2. CASE o = c
  <2>1. /\ req'[c].verb = req[c].verb /\ req'[c].kind = req[c].kind
        /\ req'[c].pc = req[c].pc + 1
    BY <1>2 DEF Advances, Calls
  <2>2. /\ req[c].kind \in Kind /\ req[c].verb \in Writing(req[c].kind)
        /\ req[c].pc \in DOMAIN Script(req[c].kind, req[c].verb)
        /\ req[c].pc \in Nat
    BY RunningType, CallType
  <2>3. Script(req[c].kind, req[c].verb)[req[c].pc + 1].op = "delete"
    BY <1>2, <2>1 DEF Calls, Call
  <2>4. req[c].pc + 1 \in DOMAIN Script(req[c].kind, req[c].verb)
    <3>1. Running(c)'
      BY <1>2 DEF Calls
    <3>2. req'[c].pc \in DOMAIN Script(req'[c].kind, req'[c].verb)
      BY <3>1 DEF ReqOK
    <3> QED
      BY <2>1, <3>2
  <2>5. /\ Script(req[c].kind, req[c].verb)[req[c].pc].op = "count"
        /\ Script(req[c].kind, req[c].verb)[req[c].pc].kind = req[c].kind
    <3>1. /\ Script(req[c].kind, req[c].verb)[req[c].pc + 1 - 1].op = "count"
          /\ Script(req[c].kind, req[c].verb)[req[c].pc + 1 - 1].kind = req[c].kind
      <4>1. ASSUME NEW k \in Kind, NEW verb \in Writing(k), NEW i \in DOMAIN Script(k, verb),
                   Script(k, verb)[i].op = "delete"
            PROVE  Script(k, verb)[i - 1].op = "count" /\ Script(k, verb)[i - 1].kind = k
        BY <4>1, DocumentsAssumption DEF OwnAssumption
      <4> QED
        BY <4>1, <2>2, <2>3, <2>4
    <3>2. req[c].pc + 1 - 1 = req[c].pc
      BY <2>2
    <3> QED
      BY <3>1, <3>2
  <2> QED
    BY <1>2, <2>1, <2>5 DEF Call
<1> QED
  BY <1>1, <1>2


\* What a step may do to the documents: nothing, one creation under what is
\* there, or one removal of what has nothing under it.
TreeStep ==
    \/ Live' = Live
    \/ \E k \in Kind : Above[k] \subseteq Live /\ Live' = Live \cup {k}
    \/ \E k \in Kind : (\A j \in Live : k \notin Above[j]) /\ Live' = Live \ {k}

LEMMA TreeStepForest ==
    ASSUME Forest, TreeStep
    PROVE  Forest'
<1>0. \A k \in Kind : Above[k] \subseteq Kind /\ k \notin Above[k]
  BY AboveType
<1>1. Live \subseteq Kind
  BY DEF Live
<1>2. CASE Live' = Live
  BY <1>2 DEF Forest
<1>3. ASSUME NEW k \in Kind, Above[k] \subseteq Live, Live' = Live \cup {k}
      PROVE  Forest'
  BY <1>3 DEF Forest
<1>4. ASSUME NEW k \in Kind, \A j \in Live : k \notin Above[j], Live' = Live \ {k}
      PROVE  Forest'
  BY <1>4 DEF Forest
<1> QED
  BY <1>2, <1>3, <1>4 DEF TreeStep

\* A write: its document is there or everything above it is.
LEMMA InsertCovered ==
    ASSUME TypeOK, Forest, FoundThere, NEW c \in Client, Calls(c, "put"),
           req[c].kind \in Unchecked => Above[req[c].kind] \subseteq Live
    PROVE  /\ Above[req[c].kind] \subseteq Live
           /\ Call(c).kind = req[c].kind /\ req[c].verb # "DELETE"
<1>1. /\ Running(c) /\ req[c].kind \in Kind /\ req[c].verb \in Writing(req[c].kind)
      /\ req[c].pc \in DOMAIN Script(req[c].kind, req[c].verb) /\ req[c].pc \in Nat
      /\ Script(req[c].kind, req[c].verb)[req[c].pc].op = "put"
  BY RunningType, CallType DEF Calls, Call
<1>2. Call(c).kind = req[c].kind /\ req[c].verb # "DELETE"
  BY <1>1, DocumentsAssumption DEF OwnAssumption, Call
<1>3. CASE req[c].kind \in Unchecked
  BY <1>2, <1>3
<1>4. CASE req[c].kind \notin Unchecked
  <2> SUFFICES ASSUME NEW a \in Above[req[c].kind] PROVE a \in Live
    BY <1>2
  <2>1. PICK j \in 1..(req[c].pc - 1) :
          LET step == Script(req[c].kind, req[c].verb)[j]
          IN  /\ step.op = "present"
              /\ step.kind \in Above[req[c].kind] \cup {req[c].kind}
              /\ a = step.kind \/ a \in Above[step.kind]
    BY <1>1, <1>2, <1>4, DocumentsAssumption DEF CoveredAssumption
  <2>2. Script(req[c].kind, req[c].verb)[j].kind \in Live
    BY <1>1, <1>2, <2>1 DEF FoundThere
  <2> QED
    BY <2>1, <2>2 DEF Forest
<1> QED
  BY <1>3, <1>4

\* A removal: its step is about the kind of the request.
LEMMA DeleteOwn ==
    ASSUME TypeOK, NEW c \in Client, Calls(c, "delete")
    PROVE  /\ req[c].kind \in Kind
           /\ Call(c).kind = req[c].kind /\ req[c].verb = "DELETE"
<1>1. /\ Running(c) /\ req[c].kind \in Kind /\ req[c].verb \in Writing(req[c].kind)
      /\ req[c].pc \in DOMAIN Script(req[c].kind, req[c].verb)
      /\ Script(req[c].kind, req[c].verb)[req[c].pc].op = "delete"
  BY RunningType DEF Calls, Call
<1>2. ASSUME NEW k \in Kind, NEW verb \in Writing(k), NEW i \in DOMAIN Script(k, verb),
             Script(k, verb)[i].op = "delete"
      PROVE  verb = "DELETE" /\ Script(k, verb)[i].kind = k
  BY <1>2, DocumentsAssumption DEF OwnAssumption
<1> QED
  BY <1>1, <1>2 DEF Call

\* The documents a request has found or removed, when another one removes.
LEMMA RemovedNotFound ==
    ASSUME TypeOK, NoRace, NEW c \in Client, Calls(c, "delete"),
           NEW o \in Client, Running(o), req[o].verb # "DELETE",
           NEW p \in Above[req[o].kind] \cup {req[o].kind}
    PROVE  p # req[c].kind
<1>1. Running(c) /\ req[c].verb = "DELETE" /\ o # c
  BY DeleteOwn DEF Calls
<1> QED
  BY <1>1 DEF NoRace, Relies


\* A call that leaves the documents keeps the invariant, as long as a look-up
\* that goes on has found its document and a count that goes on nothing under
\* it.
LEMMA ReadKeeps ==
    ASSUME TypeOK, TypeOK', IInv, UNCHANGED <<docs, clean>>,
           NEW c \in Client, Running(c), Advances(c),
           \/ Call(c).op \notin {"present", "count"}
           \/ ~Running(c)'
           \/ Call(c).op = "present" /\ Sees(Call(c).kind, Call(c).tag)
           \/ Call(c).op = "count" /\ ~RefuseCount(Call(c).kind)
    PROVE  IInv' /\ TreeStep
<1>1. Live' = Live
  BY LiveKept
<1> SUFFICES ASSUME clean PROVE (Forest /\ NoRace /\ FoundThere /\ CountedAlone)'
  BY <1>1 DEF IInv, TreeStep
<1>2. Forest /\ NoRace /\ FoundThere /\ CountedAlone
  BY DEF IInv
<1>3. Forest'
  BY <1>1, <1>2 DEF Forest
<1>4. NoRace'
  BY <1>2, NoRaceKept
<1>5. Call(c).kind \in Kind
  BY RunningType
<1>6. CASE Running(c)'
  <2>1. FoundThere'
    <3>1. Call(c).op = "present" => Call(c).kind \in Live'
      BY <1>1, <1>2, <1>5, <1>6, SeesLive
    <3> QED
      BY <1>1, <1>2, <3>1, FoundKept
  <2>2. CountedAlone'
    <3>1. Call(c).op = "count" => \A d \in Live' : Call(c).kind \notin Above[d]
      BY <1>1, <1>2, <1>5, <1>6, CountAlone
    <3> QED
      BY <1>1, <1>2, <3>1, CountedKept
  <2> QED
    BY <1>3, <1>4, <2>1, <2>2
<1>7. CASE ~Running(c)'
  <2>1. \A o \in Client : o # c => req'[o] = req[o]
    BY DEF Advances
  <2>2. FoundThere'
    BY <1>1, <1>2, <1>7, <2>1 DEF FoundThere, Running
  <2>3. CountedAlone'
    BY <1>1, <1>2, <1>7, <2>1 DEF CountedAlone, Calls, Running, Call
  <2> QED
    BY <1>3, <1>4, <2>2, <2>3
<1> QED
  BY <1>6, <1>7

\* A write, answered or not.
LEMMA InsertKeeps ==
    ASSUME TypeOK, TypeOK', IInv, NEW c \in Client, Calls(c, "put"),
           Upsert(Call(c).kind, Call(c).tag), StaysClean(c), Advances(c), clean'
    PROVE  IInv' /\ TreeStep
<1>1. /\ clean /\ Forest /\ NoRace /\ FoundThere /\ CountedAlone
      /\ Running(c) /\ Call(c).op = "put"
      /\ req[c].kind \in Unchecked => Above[req[c].kind] \subseteq Live
  BY DEF IInv, StaysClean, Calls
<1>2. /\ Above[req[c].kind] \subseteq Live
      /\ Call(c).kind = req[c].kind /\ req[c].verb # "DELETE" /\ req[c].kind \in Kind
      /\ Call(c).tag \in STRING
  BY <1>1, InsertCovered, RunningType
<1>3. Live' = Live \/ Live' = Live \cup {req[c].kind}
  BY <1>2, UpsertLive
<1>4. TreeStep
  BY <1>2, <1>3 DEF TreeStep
<1>5. Forest'
  BY <1>1, <1>4, TreeStepForest
<1>6. NoRace'
  BY <1>1, NoRaceKept
<1>7. FoundThere'
  <2>1. Live \subseteq Live'
    BY <1>3
  <2> QED
    BY <1>1, <2>1, FoundKept
<1>8. CountedAlone'
  <2>1. ASSUME NEW o \in Client \ {c}, Calls(o, "delete"), NEW d \in Live' \ Live
        PROVE  req[o].kind \notin Above[d]
    <3>1. d = req[c].kind
      BY <1>3
    <3>2. req[o].verb = "DELETE" /\ Running(o)
      BY <2>1, DeleteOwn DEF Calls
    <3> QED
      BY <1>1, <1>2, <3>1, <3>2 DEF NoRace, Relies
  <2> QED
    BY <1>1, <2>1, CountedKept
<1> QED
  BY <1>4, <1>5, <1>6, <1>7, <1>8 DEF IInv

\* A removal, answered or not.
LEMMA DeleteKeeps ==
    ASSUME TypeOK, TypeOK', IInv, NEW c \in Client, Calls(c, "delete"),
           DeleteOne(Call(c).kind), UNCHANGED clean, Advances(c), clean'
    PROVE  IInv' /\ TreeStep
<1>1. /\ clean /\ Forest /\ NoRace /\ FoundThere /\ CountedAlone
      /\ Running(c) /\ Call(c).op = "delete"
  BY DEF IInv, Calls
<1>2. req[c].kind \in Kind /\ Call(c).kind = req[c].kind
  BY DeleteOwn
<1>3. \A d \in Live : req[c].kind \notin Above[d]
  BY <1>1 DEF CountedAlone
<1>4. Live' = Live \ {req[c].kind}
  BY <1>2, <1>3, DeleteLive
<1>5. TreeStep
  BY <1>2, <1>3, <1>4 DEF TreeStep
<1>6. Forest'
  BY <1>1, <1>5, TreeStepForest
<1>7. NoRace'
  BY <1>1, NoRaceKept
<1>8. FoundThere'
  <2>1. ASSUME NEW o \in Client, NEW p \in Kind, Running(o), req[o].verb # "DELETE",
               p \in Live, p \in Above[req[o].kind] \cup {req[o].kind}
        PROVE  p \in Live'
    BY <1>1, <1>4, <2>1, RemovedNotFound
  <2> QED
    BY <1>1, <2>1, FoundKept
<1>9. CountedAlone'
  BY <1>1, <1>4, CountedKept
<1> QED
  BY <1>5, <1>6, <1>7, <1>8, <1>9 DEF IInv

\* A new request: it relies on nothing that is being removed.
LEMMA StartKeeps ==
    ASSUME TypeOK, TypeOK', IInv, NEW c \in Client, NEW k \in focus,
           NEW verb \in Writing(k), Start(c, k, verb)
    PROVE  IInv' /\ TreeStep
<1>1. Live' = Live
  BY LiveKept DEF Start
<1> SUFFICES ASSUME clean' PROVE (Forest /\ NoRace /\ FoundThere /\ CountedAlone)'
  BY <1>1 DEF IInv, TreeStep
<1>2. /\ clean /\ ~Races(c, k, verb)
      /\ Forest /\ NoRace /\ FoundThere /\ CountedAlone
  BY DEF IInv, Start
<1>3. /\ \A o \in Client : o # c => req'[o] = req[o]
      /\ req'[c].verb = verb /\ req'[c].kind = k /\ req'[c].pc = 1
      /\ ~Running(c)
  BY DEF Start, ReqOK
<1>4. NoRace'
  BY <1>2, <1>3 DEF NoRace, Races, Running
<1>5. FoundThere'
  BY <1>1, <1>2, <1>3 DEF FoundThere, Running
<1>6. CountedAlone'
  <2> SUFFICES ASSUME NEW o \in Client, Calls(o, "delete")', NEW d \in Live'
               PROVE  req'[o].kind \notin Above[d]
    BY DEF CountedAlone
  <2>1. CASE o # c
    BY <1>1, <1>2, <1>3, <2>1 DEF CountedAlone, Calls, Running, Call
  <2>2. CASE o = c
    <3>1. k \in Kind /\ 1 \in DOMAIN Script(k, verb) /\ Script(k, verb)[1].op = "delete"
      BY <1>3, <2>2, FirstCall DEF Calls, Call
    <3> QED
      BY <3>1, DocumentsAssumption DEF OwnAssumption
  <2> QED
    BY <2>1, <2>2
<1> QED
  BY <1>1, <1>2, <1>4, <1>5, <1>6 DEF Forest


\* Every step keeps the invariant, and in a clean state it is a step of the
\* forest.
LEMMA StepKeeps ==
    ASSUME TypeOK, TypeOK', IInv, Next
    PROVE  IInv' /\ (clean' => TreeStep)
<1>1. ASSUME NEW c \in Client, NEW k \in focus, NEW verb \in Writing(k), Start(c, k, verb)
      PROVE  IInv' /\ TreeStep
  BY <1>1, StartKeeps
<1>2. ASSUME NEW c \in Client, Progress(c)
      PROVE  IInv' /\ (clean' => TreeStep)
  <2>1. CASE MustNotFind(c)
    <3>1. Running(c) /\ Call(c).op = "absent" /\ UNCHANGED <<docs, clean>>
      BY <2>1 DEF MustNotFind, Calls
    <3>2. Advances(c)
      BY <2>1, <3>1, GoOnAdvances, EndAdvances DEF MustNotFind
    <3> QED
      BY <3>1, <3>2, ReadKeeps
  <2>2. CASE MustNotFindForApp(c)
    <3>1. /\ Running(c) /\ Call(c).op = "absentForApp" /\ UNCHANGED <<docs, clean>>
          /\ EndWith(c, "refused", FALSE) \/ GoOn(c, FALSE)
      BY <2>2 DEF MustNotFindForApp, Calls
    <3>2. Advances(c)
      BY <3>1, GoOnAdvances, EndAdvances
    <3> QED
      BY <3>1, <3>2, ReadKeeps
  <2>3. CASE MustFind(c)
    <3>1. /\ Running(c) /\ Call(c).op = "present" /\ UNCHANGED <<docs, clean>>
          /\ \/ Sees(Call(c).kind, Call(c).tag) /\ GoOn(c, FALSE)
             \/ EndWith(c, "refused", FALSE)
      BY <2>3 DEF MustFind, Calls
    <3>2. EndWith(c, "refused", FALSE) => ~Running(c)'
      BY DEF EndWith, Running, NoRequest, ReqOK
    <3>3. Advances(c)
      BY <3>1, GoOnAdvances, EndAdvances
    <3> QED
      BY <3>1, <3>2, <3>3, ReadKeeps
  <2>4. CASE Insert(c)
    <3>1. /\ Running(c) /\ Calls(c, "put") /\ Upsert(Call(c).kind, Call(c).tag)
          /\ StaysClean(c) /\ GoOn(c, TRUE)
      BY <2>4 DEF Insert, Calls
    <3>2. Advances(c)
      BY <3>1, GoOnAdvances
    <3> QED
      BY <3>1, <3>2, InsertKeeps DEF IInv
  <2>5. CASE InsertQuery(c)
    <3>1. /\ Running(c) /\ Call(c).op = "query" /\ UNCHANGED clean
          /\ Update(Call(c).kind, Call(c).tag) /\ GoOn(c, TRUE)
      BY <2>5 DEF InsertQuery, Calls
    <3>2. Advances(c)
      BY <3>1, GoOnAdvances
    <3>3. Live' = Live
      BY <3>1, UpdateLive, RunningType
    <3> SUFFICES ASSUME clean' PROVE (Forest /\ NoRace /\ FoundThere /\ CountedAlone)'
      BY <3>3 DEF IInv, TreeStep
    <3>4. Forest /\ NoRace /\ FoundThere /\ CountedAlone
      BY <3>1 DEF IInv
    <3>5. Forest' /\ NoRace'
      BY <3>1, <3>2, <3>3, <3>4, NoRaceKept DEF Forest
    <3>6. FoundThere' /\ CountedAlone'
      BY <3>1, <3>2, <3>3, <3>4, FoundKept, CountedKept
    <3> QED
      BY <3>5, <3>6
  <2>6. CASE CountChildren(c)
    <3>1. /\ Running(c) /\ Call(c).op = "count" /\ UNCHANGED <<docs, clean>>
          /\ \/ ~RefuseCount(Call(c).kind) /\ GoOn(c, FALSE)
             \/ EndWith(c, "refused", FALSE)
      BY <2>6 DEF CountChildren, Calls
    <3>2. EndWith(c, "refused", FALSE) => ~Running(c)'
      BY DEF EndWith, Running, NoRequest, ReqOK
    <3>3. Advances(c)
      BY <3>1, GoOnAdvances, EndAdvances
    <3> QED
      BY <3>1, <3>2, <3>3, ReadKeeps
  <2>7. CASE Delete(c)
    <3>1. /\ Running(c) /\ Calls(c, "delete") /\ DeleteOne(Call(c).kind)
          /\ GoOn(c, TRUE) /\ UNCHANGED clean
      BY <2>7 DEF Delete, Calls
    <3>2. Advances(c)
      BY <3>1, GoOnAdvances
    <3> QED
      BY <3>1, <3>2, DeleteKeeps DEF IInv
  <2> QED
    BY <1>2, <2>1, <2>2, <2>3, <2>4, <2>5, <2>6, <2>7 DEF Progress
<1>3. ASSUME NEW c \in Client, ReadFails(c)
      PROVE  IInv' /\ TreeStep
  <2>1. /\ Running(c) /\ UNCHANGED <<docs, clean>>
        /\ \/ Call(c).op \in {"absent", "absentForApp"} /\ GoOn(c, FALSE)
           \/ EndWith(c, "failed", FALSE)
    BY <1>3 DEF ReadFails, Calls
  <2>2. EndWith(c, "failed", FALSE) => ~Running(c)'
    BY DEF EndWith, Running, NoRequest, ReqOK
  <2>3. Advances(c)
    BY <2>1, GoOnAdvances, EndAdvances
  <2> QED
    BY <2>1, <2>2, <2>3, ReadKeeps
<1>4. ASSUME NEW c \in Client, WriteFails(c)
      PROVE  IInv' /\ TreeStep
  <2>1. Running(c) /\ UNCHANGED <<docs, clean>> /\ EndWith(c, "failed", FALSE)
    BY <1>4 DEF WriteFails, Calls
  <2>2. ~Running(c)'
    BY <2>1 DEF EndWith, Running, NoRequest, ReqOK
  <2>3. Advances(c)
    BY <2>1, EndAdvances
  <2> QED
    BY <2>1, <2>2, <2>3, ReadKeeps
<1>5. ASSUME NEW c \in Client, AnswerLost(c)
      PROVE  IInv' /\ (clean' => TreeStep)
  <2>1. Running(c) /\ EndWith(c, "failed", TRUE)
    BY <1>5 DEF AnswerLost, Calls
  <2>2. Advances(c)
    BY <2>1, EndAdvances
  <2>3. \/ /\ Calls(c, "put") /\ Upsert(Call(c).kind, Call(c).tag) /\ StaysClean(c)
        \/ Calls(c, "delete") /\ DeleteOne(Call(c).kind) /\ UNCHANGED clean
    BY <1>5 DEF AnswerLost
  <2> QED
    BY <2>2, <2>3, InsertKeeps, DeleteKeeps DEF IInv
<1> QED
  BY <1>1, <1>2, <1>3, <1>4, <1>5 DEF Next

LEMMA IInvInit == Init => IInv
<1> SUFFICES ASSUME Init PROVE IInv
  OBVIOUS
<1>1. PICK f \in Focuses :
        docs = [k \in Kind |-> IF k \in f.standing
                               THEN [key |-> k, tags |-> Written(k)] ELSE NoDoc]
  BY DEF Init
<1>2. Live \subseteq f.standing
  BY <1>1 DEF Live
<1>3. f.standing \subseteq Live
  <2>1. ASSUME NEW k \in f.standing PROVE [key |-> k, tags |-> Written(k)] \in Document
    <3>1. k \in Kind /\ "POST" \in Writing(k)
      BY DocumentsAssumption DEF StandingAssumption, ScriptsAssumption
    <3>2. \A i \in DOMAIN Script(k, "POST") : Script(k, "POST")[i].tag \in STRING
      BY <3>1, CallType
    <3> QED
      BY <3>1, <3>2 DEF Written, Leaves, Document
  <2> QED
    BY <1>1, <2>1, DocumentsAssumption DEF Live, StandingAssumption
<1>4. Forest
  BY <1>2, <1>3, DocumentsAssumption DEF Forest, StandingAssumption
<1>5. \A c \in Client : ~Running(c)
  BY DEF Init, Running, NoRequest
<1> QED
  BY <1>4, <1>5 DEF IInv, NoRace, FoundThere, CountedAlone, Calls

LEMMA Invariant == Spec => []IInv
<1>1. TypeOK /\ TypeOK' /\ IInv /\ [Next]_vars => IInv'
  <2>1. CASE Next
    BY <2>1, StepKeeps
  <2>2. CASE UNCHANGED vars
    BY <2>2 DEF IInv, vars, Forest, Live, NoRace, FoundThere, CountedAlone,
                Running, Calls, Call
  <2> QED
    BY <2>1, <2>2
<1> QED
  BY <1>1, IInvInit, Types, PTL DEF Spec

\* No document is left under one that is gone, whatever calls of the store
\* fail, as long as no removal ran beside a creation that relies on it.
THEOREM NoneDangles == Spec => []NoDangling
<1>1. IInv => NoDangling
  BY DEF IInv, Forest, NoDangling
<1> QED
  BY <1>1, Invariant, PTL

\* The requests implement the forest of atomic creations and removals.
THEOREM ImplementsTree == Spec => ImplementsEntityTree
<1>1. Init => Tree!TreeInit
  <2> SUFFICES ASSUME Init PROVE Tree!TreeInit
    OBVIOUS
  <2>1. clean = TRUE /\ Live \subseteq Kind
    BY DEF Init, Live
  <2>2. Forest
    BY <2>1, IInvInit DEF IInv
  <2> QED
    BY <2>1, <2>2 DEF Tree!TreeInit, Forest
<1>2. TypeOK /\ TypeOK' /\ IInv /\ [Next]_vars => [Tree!TreeNext]_<<Live, ~clean>>
  <2> SUFFICES ASSUME TypeOK, TypeOK', IInv, [Next]_vars
               PROVE  [Tree!TreeNext]_<<Live, ~clean>>
    OBVIOUS
  <2>1. CASE UNCHANGED vars
    BY <2>1 DEF vars, Live
  <2>2. CASE Next /\ ~clean'
    <3>1. Live' \in SUBSET Kind /\ ~clean' = TRUE
      BY <2>2 DEF Live
    <3> QED
      BY <3>1 DEF Tree!TreeNext
  <2>3. CASE Next /\ clean'
    <3>1. TreeStep
      BY <2>3, StepKeeps
    <3>2. clean
      BY <2>3 DEF Next, Start, Progress, MustNotFind, MustNotFindForApp, MustFind,
                  Insert, StaysClean, InsertQuery, CountChildren, Delete,
                  ReadFails, WriteFails, AnswerLost
    <3>3. clean = TRUE /\ clean' = TRUE
      BY <2>3, <3>2
    <3> QED
      BY <3>1, <3>3 DEF TreeStep, Tree!TreeNext, Tree!Create, Tree!Delete
  <2> QED
    BY <2>1, <2>2, <2>3
<1> QED
  BY <1>1, <1>2, Types, Invariant, PTL DEF Spec, ImplementsEntityTree, Tree!TreeSpec

-----------------------------------------------------------------------------
(* Refusals.                                                               *)

Adds == {"put", "query"}
Writes == Adds \cup {"delete"}

\* How a request goes on or ends: it goes on from any call, writing only at a
\* write; it is refused at a look-up; or a call fails.
Refused(c) == Call(c).op \notin Writes /\ EndWith(c, "refused", FALSE)
Failed(c) == \E wrote \in BOOLEAN : EndWith(c, "failed", wrote)
GoesOn(c) == \E wrote \in BOOLEAN : (wrote => Call(c).op \in Writes) /\ GoOn(c, wrote)

LEMMA Outcome ==
    ASSUME NEW c \in Client, Progress(c) \/ ReadFails(c) \/ WriteFails(c) \/ AnswerLost(c)
    PROVE  /\ Running(c)
           /\ Refused(c) \/ Failed(c) \/ GoesOn(c)
           /\ Refused(c) \/ GoesOn(c) \/ faults' = faults + 1
<1> USE DEF Refused, Failed, GoesOn, Calls, Adds, Writes
<1>1. CASE MustNotFind(c)
  BY <1>1 DEF MustNotFind
<1>2. CASE MustNotFindForApp(c)
  <2>1. EndWith(c, "refused", FALSE) \/ GoOn(c, FALSE)
    BY <1>2 DEF MustNotFindForApp
  <2> QED
    BY <1>2, <2>1 DEF MustNotFindForApp
<1>3. CASE MustFind(c)
  BY <1>3 DEF MustFind
<1>4. CASE Insert(c) \/ InsertQuery(c) \/ Delete(c)
  BY <1>4 DEF Insert, InsertQuery, Delete
<1>5. CASE CountChildren(c)
  <2>1. EndWith(c, "refused", FALSE) \/ GoOn(c, FALSE)
    BY <1>5 DEF CountChildren
  <2> QED
    BY <1>5, <2>1 DEF CountChildren
<1>6. CASE ReadFails(c)
  BY <1>6 DEF ReadFails
<1>7. CASE WriteFails(c)
  BY <1>7 DEF WriteFails
<1>8. CASE AnswerLost(c)
  BY <1>8 DEF AnswerLost
<1> QED
  BY <1>1, <1>2, <1>3, <1>4, <1>5, <1>6, <1>7, <1>8 DEF Progress

\* A request that has written is past a call that writes.
Traced ==
    \A c \in Client : Running(c) /\ req[c].wrote =>
        \E i \in 1..(req[c].pc - 1) : Script(req[c].kind, req[c].verb)[i].op \in Writes

TraceInv == Traced /\ RefusedLeavesNoTrace

\* Once past a write, a script only writes.
LEMMA WritesLast ==
    ASSUME TypeOK, NEW c \in Client, Running(c), NEW i \in 1..(req[c].pc - 1),
           Script(req[c].kind, req[c].verb)[i].op \in Writes
    PROVE  Call(c).op \in Writes
<1>1. /\ req[c].kind \in Kind /\ req[c].verb \in Writing(req[c].kind)
      /\ req[c].pc \in DOMAIN Script(req[c].kind, req[c].verb)
  BY RunningType
<1>2. /\ req[c].pc \in Nat /\ i < req[c].pc
      /\ i \in DOMAIN Script(req[c].kind, req[c].verb)
  BY <1>1, CallType
<1> QED
  BY <1>1, <1>2, DocumentsAssumption DEF ReadsFirstAssumption, Call, Writes, Adds

LEMMA GoOnEffect ==
    ASSUME TypeOK, NEW c \in Client, Running(c), NEW wrote \in BOOLEAN, GoOn(c, wrote)
    PROVE  /\ \A o \in Client : o # c => req'[o] = req[o]
           /\ \/ /\ Running(c)' /\ req'[c].verb = req[c].verb /\ req'[c].kind = req[c].kind
                 /\ req'[c].pc = req[c].pc + 1 /\ req'[c].wrote = (req[c].wrote \/ wrote)
                 /\ req'[c].end = "none"
              \/ /\ ~ Running(c)' /\ req'[c].end = "ok"
                 /\ req[c].pc = Len(Script(req[c].kind, req[c].verb))
<1>1. req[c] \in Request /\ req \in [Client -> Request \cup Ended]
  BY RunningType DEF ReqOK
<1>2. /\ req[c].pc \in Nat /\ Len(Script(req[c].kind, req[c].verb)) \in Nat
      /\ req[c].pc <= Len(Script(req[c].kind, req[c].verb))
  BY RunningType, CallType
<1>3. CASE req[c].pc < Len(Script(req[c].kind, req[c].verb))
  <2> DEFINE w == req[c].wrote \/ wrote
  <2>1. req' = [req EXCEPT ![c].pc = @ + 1, ![c].wrote = w]
    BY <1>3 DEF GoOn
  <2> HIDE DEF w
  <2>2. req'[c] = [req[c] EXCEPT !.pc = @ + 1, !.wrote = w]
    BY <1>1, <2>1
  <2>3. /\ req'[c].verb = req[c].verb /\ req'[c].kind = req[c].kind
        /\ req'[c].pc = req[c].pc + 1 /\ req'[c].wrote = w /\ req'[c].end = "none"
    BY <1>1, <2>2 DEF Request
  <2> QED
    BY <1>1, <2>1, <2>3 DEF Running, w
<1>4. CASE ~ (req[c].pc < Len(Script(req[c].kind, req[c].verb)))
  BY <1>1, <1>2, <1>4 DEF GoOn, Running, NoRequest
<1> QED
  BY <1>3, <1>4

LEMMA EndEffect ==
    ASSUME TypeOK, NEW c \in Client, Running(c), NEW end, NEW wrote, EndWith(c, end, wrote)
    PROVE  /\ \A o \in Client : o # c => req'[o] = req[o]
           /\ ~ Running(c)' /\ req'[c].end = end /\ req'[c].wrote = (req[c].wrote \/ wrote)
<1>1. req \in [Client -> Request \cup Ended]
  BY DEF ReqOK
<1> QED
  BY <1>1 DEF EndWith, Running, NoRequest

LEMMA TraceStep ==
    ASSUME TypeOK, TraceInv, Next
    PROVE  TraceInv'
<1> USE DEF TraceInv
<1>1. ASSUME NEW c \in Client, NEW k \in focus, NEW verb \in Writing(k), Start(c, k, verb)
      PROVE  TraceInv'
  <2>1. /\ \A o \in Client : o # c => req'[o] = req[o]
        /\ req'[c].wrote = FALSE /\ req'[c].end = "none"
    BY <1>1 DEF Start, ReqOK
  <2> QED
    BY <2>1 DEF Traced, RefusedLeavesNoTrace, Running
<1>2. ASSUME NEW c \in Client,
             Progress(c) \/ ReadFails(c) \/ WriteFails(c) \/ AnswerLost(c)
      PROVE  TraceInv'
  <2>1. Running(c) /\ (Refused(c) \/ Failed(c) \/ GoesOn(c))
    BY <1>2, Outcome
  <2> SUFFICES ASSUME \A o \in Client : o # c => req'[o] = req[o]
               PROVE  /\ Running(c)' /\ req'[c].wrote =>
                            \E i \in 1..(req'[c].pc - 1) :
                               Script(req'[c].kind, req'[c].verb)[i].op \in Writes
                      /\ req'[c].end = "refused" => ~ req'[c].wrote
    <3>1. \A o \in Client : o # c => req'[o] = req[o]
      BY <2>1, EndEffect, GoOnEffect DEF Refused, Failed, GoesOn
    <3> QED
      BY <3>1 DEF Traced, RefusedLeavesNoTrace, Running
  <2>2. CASE Refused(c)
    <3>1. ~ req[c].wrote
      BY <2>1, <2>2, WritesLast DEF Refused, Traced
    <3> QED
      BY <2>1, <2>2, <3>1, EndEffect DEF Refused
  <2>3. CASE Failed(c)
    BY <2>1, <2>3, EndEffect DEF Failed
  <2>4. CASE GoesOn(c)
    <3>1. PICK wrote \in BOOLEAN : (wrote => Call(c).op \in Writes) /\ GoOn(c, wrote)
      BY <2>4 DEF GoesOn
    <3>2. req[c].pc \in Nat \ {0}
      BY <2>1, RunningType, CallType
    <3>3. CASE ~ Running(c)'
      BY <2>1, <3>1, <3>3, GoOnEffect
    <3>4. CASE Running(c)'
      <4>1. /\ req'[c].verb = req[c].verb /\ req'[c].kind = req[c].kind
            /\ req'[c].pc = req[c].pc + 1 /\ req'[c].wrote = (req[c].wrote \/ wrote)
            /\ req'[c].end = "none"
        BY <2>1, <3>1, <3>4, GoOnEffect
      <4>2. CASE req[c].wrote
        <5>1. PICK i \in 1..(req[c].pc - 1) : Script(req[c].kind, req[c].verb)[i].op \in Writes
          BY <2>1, <4>2 DEF Traced
        <5>2. i \in 1..(req'[c].pc - 1)
          BY <3>2, <4>1
        <5> QED
          BY <4>1, <5>1, <5>2
      <4>3. CASE wrote
        <5>1. Script(req[c].kind, req[c].verb)[req[c].pc].op \in Writes
          BY <3>1, <4>3 DEF Call
        <5>2. req[c].pc \in 1..(req'[c].pc - 1)
          BY <3>2, <4>1
        <5> QED
          BY <4>1, <5>1, <5>2
      <4> QED
        BY <4>1, <4>2, <4>3
    <3> QED
      BY <3>3, <3>4
  <2> QED
    BY <2>1, <2>2, <2>3, <2>4
<1> QED
  BY <1>1, <1>2 DEF Next

\* RefusedLeavesNoTrace: a request that is told "exists", "does not exist" or "has
\* children" has written nothing, whatever it ran beside and whatever failed.
THEOREM RefusedLeavesNoTraceCorrect == Spec => []RefusedLeavesNoTrace
<1>1. Init => TraceInv
  BY DEF Init, TraceInv, Traced, RefusedLeavesNoTrace, NoRequest, Running
<1>2. TypeOK /\ TraceInv /\ [Next]_vars => TraceInv'
  <2>1. CASE UNCHANGED vars
    BY <2>1 DEF vars, TraceInv, Traced, RefusedLeavesNoTrace, Running
  <2> QED
    BY <2>1, TraceStep
<1>3. TraceInv => RefusedLeavesNoTrace
  BY DEF TraceInv
<1> QED
  BY <1>1, <1>2, <1>3, Types, PTL DEF Spec

-----------------------------------------------------------------------------
(* Documents are whole.                                                    *)

\* What a creation or an update has written so far is there ...
Left ==
    \A c \in Client : Running(c) /\ req[c].verb # "DELETE" =>
        \A j \in 1..(req[c].pc - 1) :
            Script(req[c].kind, req[c].verb)[j].op \in Adds =>
                /\ req[c].kind \in Live
                /\ Script(req[c].kind, req[c].verb)[j].tag \in docs[req[c].kind].tags

\* ... and a document that lacks a tag is one such a request is writing.
Begun(k) ==
    \E c \in Client :
        /\ Running(c) /\ req[c].verb # "DELETE" /\ req[c].kind = k
        /\ \E j \in 1..(req[c].pc - 1) : Script(k, req[c].verb)[j].op \in Adds
Whole == \A k \in Live : Written(k) \subseteq docs[k].tags \/ Begun(k)

OwnKey == \A k \in Live : docs[k].key = k

TagInv == clean => Left /\ OwnKey /\ (faults = 0 => Whole)

\* A step of another request leaves the part of a request alone.
LEMMA BegunKept ==
    ASSUME NEW c \in Client, NEW k, Begun(k),
           \A o \in Client : o # c => req'[o] = req[o],
           \/ ~ Running(c) \/ req[c].verb = "DELETE" \/ req[c].kind # k
           \/ Running(c)' /\ req'[c].verb = req[c].verb /\ req'[c].kind = req[c].kind
                /\ req'[c].pc = req[c].pc + 1 /\ req[c].pc \in Nat
    PROVE  Begun(k)'
<1>1. PICK o \in Client :
        /\ Running(o) /\ req[o].verb # "DELETE" /\ req[o].kind = k
        /\ \E j \in 1..(req[o].pc - 1) : Script(k, req[o].verb)[j].op \in Adds
  BY DEF Begun
<1>2. CASE o # c
  BY <1>1, <1>2 DEF Begun, Running
<1>3. CASE o = c
  <2>1. PICK j \in 1..(req[c].pc - 1) : Script(k, req[c].verb)[j].op \in Adds
    BY <1>1, <1>3
  <2>2. /\ Running(c)' /\ req'[c].verb = req[c].verb /\ req'[c].kind = req[c].kind
        /\ req'[c].pc = req[c].pc + 1 /\ req[c].pc \in Nat
    BY <1>1, <1>3
  <2>3. j \in 1..(req'[c].pc - 1)
    BY <2>2
  <2> QED
    BY <1>1, <1>3, <2>1, <2>2, <2>3 DEF Begun
<1> QED
  BY <1>2, <1>3

\* What a request does to the document it writes.
Tagged(k, tag) ==
    /\ Live' = Live \cup {k}
    /\ docs'[k].key = k /\ tag \in docs'[k].tags
    /\ k \in Live => docs[k].tags \subseteq docs'[k].tags
    /\ \A d \in Kind : d # k => docs'[d] = docs[d]

LEMMA UpsertTags ==
    ASSUME TypeOK, Forest, NEW k \in Kind, NEW tag \in STRING, Upsert(k, tag)
    PROVE  Tagged(k, tag)
<1>0. \A d \in Document : d # NoDoc
  BY DocumentsAssumption
<1>1. CASE k \in Live
  <2>1. k \in Matches(k) /\ Firsts(k) = {k}
    BY <1>1 DEF Firsts, Matches
  <2>2. docs' = [docs EXCEPT ![k] = [key |-> k, tags |-> docs[k].tags \cup {tag}]]
    BY <2>1 DEF Upsert
  <2>3. docs[k] \in Document
    BY <1>1 DEF Live
  <2>4. [key |-> k, tags |-> docs[k].tags \cup {tag}] \in Document
    BY <2>3 DEF Document
  <2> QED
    BY <1>0, <1>1, <2>2, <2>4 DEF Tagged, Live
<1>2. CASE k \notin Live
  <2>1. Matches(k) = {}
    BY <1>2 DEF Matches, Forest
  <2>2. docs' = [docs EXCEPT ![k] = [key |-> k, tags |-> {tag}]]
    BY <2>1 DEF Upsert
  <2>3. [key |-> k, tags |-> {tag}] \in Document
    BY DEF Document
  <2> QED
    BY <1>0, <1>2, <2>2, <2>3 DEF Tagged, Live
<1> QED
  BY <1>1, <1>2

LEMMA UpdateTags ==
    ASSUME TypeOK, NEW k \in Live, docs[k].key = k, NEW tag \in STRING, Update(k, tag)
    PROVE  Tagged(k, tag)
<1>0. \A d \in Document : d # NoDoc
  BY DocumentsAssumption
<1>1. k \in Kind /\ k \in Matches(k) /\ Firsts(k) = {k}
  BY DEF Firsts, Matches, Live
<1>2. docs' = [docs EXCEPT ![k].tags = @ \cup {tag}]
  BY <1>1 DEF Update
<1>3. docs[k] \in Document
  BY DEF Live
<1>4. /\ [docs[k] EXCEPT !.tags = @ \cup {tag}] \in Document
      /\ [docs[k] EXCEPT !.tags = @ \cup {tag}].key = k
      /\ [docs[k] EXCEPT !.tags = @ \cup {tag}].tags = docs[k].tags \cup {tag}
  BY <1>3 DEF Document
<1>5. docs'[k] = [docs[k] EXCEPT !.tags = @ \cup {tag}] /\ \A d \in Kind : d # k => docs'[d] = docs[d]
  BY <1>1, <1>2
<1> QED
  BY <1>0, <1>1, <1>4, <1>5 DEF Tagged, Live

\* What a call adds is about the kind of its request.
LEMMA AddsOwn ==
    ASSUME TypeOK, NEW c \in Client, Running(c), Call(c).op \in Adds
    PROVE  /\ req[c].kind \in Kind /\ Call(c).kind = req[c].kind
           /\ req[c].verb # "DELETE" /\ Call(c).tag \in STRING
<1>1. /\ req[c].kind \in Kind /\ req[c].verb \in Writing(req[c].kind)
      /\ req[c].pc \in DOMAIN Script(req[c].kind, req[c].verb) /\ Call(c).tag \in STRING
  BY RunningType
<1>2. OwnAssumption
  BY DocumentsAssumption
<1> QED
  BY <1>1, <1>2 DEF OwnAssumption, Call, Adds

\* When a creation or an update has made its last call, the document has all its
\* tags.
LEMMA AllLeft ==
    ASSUME TypeOK, NEW c \in Client, Running(c), req[c].verb # "DELETE",
           req[c].pc = Len(Script(req[c].kind, req[c].verb)),
           NEW tags,
           \A j \in 1..req[c].pc : Script(req[c].kind, req[c].verb)[j].op \in Adds =>
               Script(req[c].kind, req[c].verb)[j].tag \in tags
    PROVE  Written(req[c].kind) \subseteq tags
<1>1. /\ req[c].kind \in Kind /\ req[c].verb \in Writing(req[c].kind) \ {"DELETE"}
      /\ DOMAIN Script(req[c].kind, req[c].verb) = 1..req[c].pc
  BY RunningType, CallType
<1>2. Written(req[c].kind) \subseteq Leaves(req[c].kind, req[c].verb)
  BY <1>1, DocumentsAssumption DEF LeavesAssumption
<1>3. Leaves(req[c].kind, req[c].verb) \subseteq tags
  BY <1>1 DEF Leaves, Adds
<1> QED
  BY <1>2, <1>3

\* The calls a request has behind it after a step.
LEMMA LeftKept ==
    ASSUME TypeOK, Left, NEW c \in Client, Running(c), Advances(c),
           \A o \in Client : Running(o) /\ req[o].verb # "DELETE" /\ req[o].kind \in Live =>
               /\ req[o].kind \in Live'
               /\ docs[req[o].kind].tags \subseteq docs'[req[o].kind].tags,
           Call(c).op \in Adds /\ Running(c)' =>
               req[c].kind \in Live' /\ Call(c).tag \in docs'[req[c].kind].tags
    PROVE  Left'
<1> SUFFICES ASSUME NEW o \in Client, Running(o)', req'[o].verb # "DELETE",
                    NEW j \in 1..(req'[o].pc - 1),
                    Script(req'[o].kind, req'[o].verb)[j].op \in Adds
             PROVE  /\ req'[o].kind \in Live'
                    /\ Script(req'[o].kind, req'[o].verb)[j].tag \in docs'[req'[o].kind].tags
  BY DEF Left
<1>1. CASE o # c
  <2>1. req'[o] = req[o] /\ Running(o)
    BY <1>1 DEF Advances, Running
  <2>2. /\ req[o].kind \in Live
        /\ Script(req[o].kind, req[o].verb)[j].tag \in docs[req[o].kind].tags
    BY <2>1 DEF Left
  <2> QED
    BY <2>1, <2>2
<1>2. CASE o = c
  <2>1. /\ req'[c].verb = req[c].verb /\ req'[c].kind = req[c].kind
        /\ req'[c].pc = req[c].pc + 1
    BY <1>2 DEF Advances
  <2>2. req[c].pc \in Nat
    BY RunningType, CallType
  <2>3. CASE j = req[c].pc
    BY <1>2, <2>1, <2>3 DEF Call
  <2>4. CASE j # req[c].pc
    <3>1. j \in 1..(req[c].pc - 1)
      BY <1>2, <2>1, <2>2, <2>4
    <3>2. /\ req[c].kind \in Live
          /\ Script(req[c].kind, req[c].verb)[j].tag \in docs[req[c].kind].tags
      BY <1>2, <2>1, <3>1 DEF Left
    <3> QED
      BY <1>2, <2>1, <3>2
  <2> QED
    BY <2>3, <2>4
<1> QED
  BY <1>1, <1>2

\* A request that adds nothing more is over with nothing left to add, or was
\* refused before it added anything.
Sound(c) ==
    \/ Running(c)'
    \/ req[c].pc = Len(Script(req[c].kind, req[c].verb))
    \/ Call(c).op \notin Writes

LEMMA NoFaultSound ==
    ASSUME TypeOK, NEW c \in Client, faults' = 0,
           Progress(c) \/ ReadFails(c) \/ WriteFails(c) \/ AnswerLost(c)
    PROVE  faults = 0 /\ Sound(c)
<1>1. faults \in Nat
  BY DocumentsAssumption
<1>2. Running(c) /\ (Refused(c) \/ GoesOn(c))
  BY <1>1, Outcome
<1>3. faults = 0
  <2>1. CASE Progress(c)
    BY <2>1 DEF Progress, MustNotFind, MustNotFindForApp, MustFind, Insert, InsertQuery,
                CountChildren, Delete
  <2>2. CASE ReadFails(c) \/ WriteFails(c) \/ AnswerLost(c)
    <3>1. faults' = faults + 1
      BY <2>2 DEF ReadFails, WriteFails, AnswerLost
    <3> QED
      BY <1>1, <3>1
  <2> QED
    BY <2>1, <2>2
<1> QED
  BY <1>2, <1>3, GoOnEffect DEF Sound, Refused, GoesOn

\* A step that leaves the documents as they are.
LEMMA ReadTags ==
    ASSUME TypeOK, TagInv, UNCHANGED <<docs, clean>>, NEW c \in Client, Running(c),
           Advances(c), Call(c).op \notin Adds \/ ~ Running(c)',
           faults' = 0 => faults = 0 /\ Sound(c) /\ Call(c).op \notin Adds
    PROVE  TagInv'
<1>0. Live' = Live
  BY LiveKept
<1> SUFFICES ASSUME clean PROVE (Left /\ OwnKey /\ (faults = 0 => Whole))'
  BY DEF TagInv
<1>1. Left /\ OwnKey /\ (faults = 0 => Whole)
  BY DEF TagInv
<1>2. Left'
  BY <1>0, <1>1, LeftKept
<1>3. OwnKey'
  BY <1>0, <1>1 DEF OwnKey
<1>4. ASSUME faults' = 0 PROVE Whole'
  <2> SUFFICES ASSUME NEW k \in Live PROVE Written(k) \subseteq docs[k].tags \/ Begun(k)'
    BY <1>0 DEF Whole
  <2>1. Written(k) \subseteq docs[k].tags \/ Begun(k)
    BY <1>1, <1>4 DEF Whole
  <2>2. \A o \in Client : o # c => req'[o] = req[o]
    BY DEF Advances
  <2>3. CASE Begun(k) /\ (req[c].verb = "DELETE" \/ req[c].kind # k)
    BY <2>2, <2>3, BegunKept
  <2>4. CASE Begun(k) /\ Running(c)'
    BY <2>2, <2>4, BegunKept, RunningType, CallType DEF Advances
  <2>5. CASE req[c].verb # "DELETE" /\ req[c].kind = k /\ ~ Running(c)' /\ Begun(k)
    <3>1. CASE req[c].pc = Len(Script(k, req[c].verb))
      <4>1. ASSUME NEW j \in 1..req[c].pc, Script(k, req[c].verb)[j].op \in Adds
            PROVE  Script(k, req[c].verb)[j].tag \in docs[k].tags
        <5>1. j # req[c].pc
          BY <1>4, <2>5, <4>1 DEF Call
        <5>2. j \in 1..(req[c].pc - 1)
          BY <5>1, RunningType, CallType
        <5> QED
          BY <1>1, <2>5, <4>1, <5>2 DEF Left
      <4> QED
        BY <2>5, <3>1, <4>1, AllLeft
    <3>2. CASE req[c].pc # Len(Script(k, req[c].verb))
      <4>1. Call(c).op \notin Writes
        BY <1>4, <2>5, <3>2 DEF Sound
      <4>2. \A j \in 1..(req[c].pc - 1) : Script(k, req[c].verb)[j].op \notin Adds
        BY <2>5, <4>1, WritesLast DEF Writes
      <4>3. \E o \in Client : /\ o # c /\ Running(o) /\ req[o].verb # "DELETE"
                              /\ req[o].kind = k
                              /\ \E j \in 1..(req[o].pc - 1) :
                                    Script(k, req[o].verb)[j].op \in Adds
        BY <2>5, <4>2 DEF Begun
      <4> QED
        BY <2>2, <4>3 DEF Begun, Running
    <3> QED
      BY <3>1, <3>2
  <2> QED
    BY <2>1, <2>3, <2>4, <2>5
<1> QED
  BY <1>2, <1>3, <1>4

\* A step that adds a tag.
LEMMA AddTags ==
    ASSUME TypeOK, TagInv, clean, clean', NEW c \in Client, Running(c),
           Advances(c), Call(c).op \in Adds, Tagged(req[c].kind, Call(c).tag),
           faults' = 0 => faults = 0 /\ Sound(c)
    PROVE  TagInv'
<1>0. /\ req[c].kind \in Kind /\ req[c].verb # "DELETE" /\ req[c].kind \in Live'
      /\ Live \subseteq Kind
  BY AddsOwn DEF Tagged, Live
<1>1. Left /\ OwnKey /\ (faults = 0 => Whole)
  BY DEF TagInv
<1>2. \A k \in Live : k \in Live' /\ docs[k].tags \subseteq docs'[k].tags
  BY <1>0 DEF Tagged
<1>3. Left'
  BY <1>0, <1>1, <1>2, LeftKept DEF Tagged
<1>4. OwnKey'
  BY <1>0, <1>1 DEF OwnKey, Tagged
<1>5. ASSUME faults' = 0 PROVE Whole'
  <2> SUFFICES ASSUME NEW k \in Live' PROVE Written(k) \subseteq docs'[k].tags \/ Begun(k)'
    BY DEF Whole
  <2>2. \A o \in Client : o # c => req'[o] = req[o]
    BY DEF Advances
  <2>0. req[c].pc \in Nat \ {0}
    BY RunningType, CallType
  <2>1. CASE k # req[c].kind
    <3>1. k \in Live /\ docs'[k] = docs[k]
      BY <1>0, <2>1 DEF Tagged
    <3>2. Written(k) \subseteq docs[k].tags \/ Begun(k)
      BY <1>1, <1>5, <3>1 DEF Whole
    <3> QED
      BY <2>1, <2>2, <3>1, <3>2, BegunKept
  <2>3. CASE k = req[c].kind /\ Running(c)'
    <3>1. /\ req'[c].verb = req[c].verb /\ req'[c].kind = k /\ req'[c].pc = req[c].pc + 1
      BY <2>3 DEF Advances
    <3>2. req[c].pc \in 1..(req'[c].pc - 1)
      BY <2>0, <3>1
    <3>3. Script(k, req'[c].verb)[req[c].pc].op \in Adds
      BY <2>3, <3>1 DEF Call
    <3> QED
      BY <1>0, <2>3, <3>1, <3>2, <3>3 DEF Begun
  <2>4. CASE k = req[c].kind /\ ~ Running(c)'
    <3>1. req[c].pc = Len(Script(k, req[c].verb))
      BY <1>5, <2>4 DEF Sound, Writes
    <3>2. ASSUME NEW j \in 1..req[c].pc, Script(k, req[c].verb)[j].op \in Adds
          PROVE  Script(k, req[c].verb)[j].tag \in docs'[k].tags
      <4>1. CASE j = req[c].pc
        BY <2>4, <4>1 DEF Tagged, Call
      <4>2. CASE j # req[c].pc
        <5>1. j \in 1..(req[c].pc - 1)
          BY <2>0, <4>2
        <5>2. k \in Live /\ Script(k, req[c].verb)[j].tag \in docs[k].tags
          BY <1>0, <1>1, <2>4, <3>2, <5>1 DEF Left
        <5> QED
          BY <1>2, <5>2
      <4> QED
        BY <4>1, <4>2
    <3> QED
      BY <1>0, <2>4, <3>1, <3>2, AllLeft
  <2> QED
    BY <2>1, <2>3, <2>4
<1> QED
  BY <1>3, <1>4, <1>5 DEF TagInv

\* A removal.
LEMMA DeleteTags ==
    ASSUME TypeOK, IInv, TagInv, clean, clean', NEW c \in Client, Calls(c, "delete"),
           DeleteOne(Call(c).kind), Advances(c), faults' = 0 => faults = 0
    PROVE  TagInv'
<1>1. /\ Left /\ OwnKey /\ (faults = 0 => Whole)
      /\ NoRace /\ CountedAlone /\ Running(c) /\ Call(c).op = "delete"
  BY DEF TagInv, IInv, Calls
<1>2. req[c].kind \in Kind /\ Call(c).kind = req[c].kind /\ req[c].verb = "DELETE"
  BY DeleteOwn
<1>3. \A d \in Live : req[c].kind \notin Above[d]
  BY <1>1 DEF CountedAlone
<1>4. Live' = Live \ {req[c].kind}
  BY <1>2, <1>3, DeleteLive
<1>5. \A k \in Live' : docs'[k] = docs[k]
  BY <1>2, <1>3, <1>4 DEF DeleteOne, Firsts, Matches, Live
<1>6. Left'
  <2>1. ASSUME NEW o \in Client, Running(o), req[o].verb # "DELETE", req[o].kind \in Live
        PROVE  /\ req[o].kind \in Live'
               /\ docs[req[o].kind].tags \subseteq docs'[req[o].kind].tags
    <3>1. req[o].kind # req[c].kind
      BY <1>1, <2>1, RemovedNotFound
    <3> QED
      BY <1>4, <1>5, <2>1, <3>1
  <2> QED
    BY <1>1, <2>1, LeftKept DEF Adds
<1>7. OwnKey'
  BY <1>1, <1>4, <1>5 DEF OwnKey
<1>8. ASSUME faults' = 0 PROVE Whole'
  <2> SUFFICES ASSUME NEW k \in Live' PROVE Written(k) \subseteq docs'[k].tags \/ Begun(k)'
    BY DEF Whole
  <2>1. Written(k) \subseteq docs[k].tags \/ Begun(k)
    BY <1>1, <1>4, <1>8 DEF Whole
  <2>2. \A o \in Client : o # c => req'[o] = req[o]
    BY DEF Advances
  <2> QED
    BY <1>2, <1>5, <2>1, <2>2, BegunKept
<1> QED
  BY <1>6, <1>7, <1>8 DEF TagInv

\* A query adds to a document the same request has written.
LEMMA QueryLive ==
    ASSUME TypeOK, Left, NEW c \in Client, Calls(c, "query")
    PROVE  req[c].kind \in Live
<1>1. Running(c) /\ Call(c).op = "query" /\ Call(c).op \in Adds
  BY DEF Calls, Adds
<1>2. /\ req[c].kind \in Kind /\ req[c].verb \in Writing(req[c].kind) \ {"DELETE"}
      /\ req[c].pc \in DOMAIN Script(req[c].kind, req[c].verb)
  BY <1>1, RunningType, AddsOwn
<1>3. LeavesAssumption
  BY DocumentsAssumption
<1>4. PICK j \in 1..(req[c].pc - 1) : Script(req[c].kind, req[c].verb)[j].op = "put"
  BY <1>1, <1>2, <1>3 DEF LeavesAssumption, Call
<1> QED
  BY <1>1, <1>2, <1>4 DEF Left, Adds

LEMMA StartTags ==
    ASSUME TypeOK, TagInv, NEW c \in Client, NEW k \in focus, NEW verb \in Writing(k),
           Start(c, k, verb)
    PROVE  TagInv'
<1>1. /\ Live' = Live /\ UNCHANGED <<docs, faults>> /\ (clean' => clean)
      /\ \A o \in Client : o # c => req'[o] = req[o]
      /\ ~ Running(c) /\ req'[c].pc = 1
  BY LiveKept DEF Start, ReqOK
<1> SUFFICES ASSUME clean' PROVE (Left /\ OwnKey /\ (faults = 0 => Whole))'
  BY DEF TagInv
<1>2. Left /\ OwnKey /\ (faults = 0 => Whole)
  BY <1>1 DEF TagInv
<1>3. Left' /\ OwnKey'
  BY <1>1, <1>2 DEF Left, OwnKey, Running
<1>4. ASSUME faults' = 0 PROVE Whole'
  <2> SUFFICES ASSUME NEW j \in Live PROVE Written(j) \subseteq docs[j].tags \/ Begun(j)'
    BY <1>1 DEF Whole
  <2>1. Written(j) \subseteq docs[j].tags \/ Begun(j)
    BY <1>1, <1>2, <1>4 DEF Whole
  <2> QED
    BY <1>1, <2>1, BegunKept
<1> QED
  BY <1>3, <1>4

LEMMA TagStep ==
    ASSUME TypeOK, TypeOK', IInv, TagInv, Next
    PROVE  TagInv'
<1>1. ASSUME NEW c \in Client, NEW k \in focus, NEW verb \in Writing(k), Start(c, k, verb)
      PROVE  TagInv'
  BY <1>1, StartTags
<1>2. ASSUME NEW c \in Client,
             Progress(c) \/ ReadFails(c) \/ WriteFails(c) \/ AnswerLost(c)
      PROVE  TagInv'
  <2> SUFFICES ASSUME clean' PROVE TagInv'
    BY DEF TagInv
  <2>1. Running(c) /\ (Refused(c) \/ Failed(c) \/ GoesOn(c))
    BY <1>2, Outcome
  <2>2. Advances(c)
    BY <2>1, GoOnAdvances, EndAdvances DEF Refused, Failed, GoesOn
  <2>3. faults' = 0 => faults = 0 /\ Sound(c)
    BY <1>2, NoFaultSound
  <2>4. Call(c) \in [op : STRING, kind : Kind, tag : STRING]
    BY <2>1, RunningType
  <2>5. ASSUME UNCHANGED <<docs, clean>>, Call(c).op \notin Adds
        PROVE  TagInv'
    BY <2>1, <2>2, <2>3, <2>5, ReadTags
  <2>6. ASSUME Calls(c, "put"), Upsert(Call(c).kind, Call(c).tag), StaysClean(c)
        PROVE  TagInv'
    <3>1. clean /\ Forest /\ Call(c).op \in Adds
      BY <2>6 DEF StaysClean, IInv, Calls, Adds
    <3>2. Call(c).kind = req[c].kind /\ req[c].kind \in Kind
      BY <2>1, <3>1, AddsOwn
    <3>3. Tagged(req[c].kind, Call(c).tag)
      BY <2>4, <2>6, <3>1, <3>2, UpsertTags
    <3> QED
      BY <2>1, <2>2, <2>3, <3>1, <3>3, AddTags
  <2>7. ASSUME Calls(c, "delete"), DeleteOne(Call(c).kind), UNCHANGED clean
        PROVE  TagInv'
    BY <2>2, <2>3, <2>7, DeleteTags
  <2>8. CASE MustNotFind(c) \/ MustNotFindForApp(c) \/ MustFind(c) \/ CountChildren(c)
    <3>1. UNCHANGED <<docs, clean>> /\ Call(c).op \notin Adds
      BY <2>8 DEF MustNotFind, MustNotFindForApp, MustFind, CountChildren, Calls, Adds
    <3> QED
      BY <2>5, <3>1
  <2>9. CASE Insert(c)
    BY <2>6, <2>9 DEF Insert
  <2>10. CASE InsertQuery(c)
    <3>1. /\ Calls(c, "query") /\ Update(Call(c).kind, Call(c).tag) /\ UNCHANGED clean
          /\ Call(c).op \in Adds
      BY <2>10 DEF InsertQuery, Calls, Adds
    <3>2. clean /\ Left /\ OwnKey
      BY <3>1 DEF TagInv
    <3>3. Call(c).kind = req[c].kind /\ req[c].kind \in Live
      BY <2>1, <3>1, <3>2, AddsOwn, QueryLive
    <3>4. Tagged(req[c].kind, Call(c).tag)
      BY <2>4, <3>1, <3>2, <3>3, UpdateTags DEF OwnKey
    <3> QED
      BY <2>1, <2>2, <2>3, <3>1, <3>2, <3>4, AddTags
  <2>11. CASE Delete(c)
    BY <2>7, <2>11 DEF Delete
  <2>12. CASE ReadFails(c)
    <3>1. UNCHANGED <<docs, clean>> /\ Call(c).op \notin Adds
      BY <2>12 DEF ReadFails, Calls, Adds
    <3> QED
      BY <2>5, <3>1
  <2>13. CASE WriteFails(c)
    <3>1. UNCHANGED <<docs, clean>> /\ EndWith(c, "failed", FALSE) /\ faults' = faults + 1
      BY <2>13 DEF WriteFails
    <3>2. faults \in Nat
      BY DocumentsAssumption
    <3>3. ~ Running(c)'
      BY <2>1, <3>1, EndEffect
    <3>4. faults' # 0
      BY <3>1, <3>2
    <3> QED
      BY <2>1, <2>2, <3>1, <3>3, <3>4, ReadTags
  <2>14. CASE AnswerLost(c)
    BY <2>6, <2>7, <2>14 DEF AnswerLost
  <2> QED
    BY <1>2, <2>8, <2>9, <2>10, <2>11, <2>12, <2>13, <2>14 DEF Progress
<1> QED
  BY <1>1, <1>2 DEF Next

LEMMA TagInit == Init => TagInv
<1> SUFFICES ASSUME Init PROVE TagInv
  OBVIOUS
<1>1. PICK f \in Focuses :
        docs = [k \in Kind |-> IF k \in f.standing
                               THEN [key |-> k, tags |-> Written(k)] ELSE NoDoc]
  BY DEF Init
<1>2. \A k \in Live : docs[k].key = k /\ docs[k].tags = Written(k)
  BY <1>1 DEF Live
<1>3. \A c \in Client : ~Running(c)
  BY DEF Init, Running, NoRequest
<1> QED
  BY <1>2, <1>3 DEF TagInv, Left, OwnKey, Whole

LEMMA TagsInvariant == Spec => [](TypeOK /\ IInv /\ TagInv)
<1>1. TypeOK /\ TypeOK' /\ IInv /\ TagInv /\ [Next]_vars => TagInv'
  <2>1. CASE Next
    BY <2>1, TagStep
  <2>2. CASE UNCHANGED vars
    BY <2>2 DEF TagInv, vars, Left, OwnKey, Whole, Begun, Live, Running
  <2> QED
    BY <2>1, <2>2
<1> QED
  BY <1>1, TagInit, Types, Invariant, PTL DEF Spec

\* Usable: when nothing failed, no removal raced with what relies on it and no
\* request is in progress, every document has the type of its own key, and all the
\* tags that a GET of it reads or that its DELETE looks for.
THEOREM UsableCorrect == Spec => []Usable
<1>1. TypeOK /\ IInv /\ TagInv => Usable
  <2> SUFFICES ASSUME IInv, TagInv, clean, faults = 0, \A c \in Client : ~ Running(c),
                      NEW k \in Live
               PROVE  /\ docs[k].key = k
                      /\ \A r \in Routes[k].GET : r.tag \in docs[r.kind].tags
                      /\ \A i \in DOMAIN Script(k, "DELETE") :
                            Script(k, "DELETE")[i].op = "present" =>
                               Script(k, "DELETE")[i].tag
                                  \in docs[Script(k, "DELETE")[i].kind].tags
    BY DEF Usable
  <2>1. k \in Kind /\ docs[k].key = k
    BY DEF TagInv, OwnKey, Live
  <2>2. \A p \in Above[k] \cup {k} : Written(p) \subseteq docs[p].tags
    BY DEF IInv, Forest, TagInv, Whole, Begun
  <2>3. ReadableAssumption
    BY DocumentsAssumption
  <2> QED
    BY <2>1, <2>2, <2>3 DEF ReadableAssumption
<1> QED
  BY <1>1, TagsInvariant, PTL

=============================================================================

------------------------ MODULE LoggingActuatorsProofs ------------------------
(***************************************************************************)
(* What the calls of the actuators promise, for any inputs, any number of  *)
(* calls and failures: a plan is composed of the plans of the components,  *)
(* and what is needed of it is shown of these and carried over by \o.      *)
(***************************************************************************)
EXTENDS LoggingActuators, SequenceTheorems, WellFoundedInduction, TLAPS

Sequence(p) == \E S : p \in Seq(S)

Listed(names) == {names[i] : i \in 1 .. Len(names)}

Secrets == {"mr-event-logger-secret", "mr-rbac-proxy-secret", "mr-controlplane-secret"}

\* A ManagedResource directly follows its secret when both are written, and directly
\* precedes it when both are deleted; the errors of manifests are collected after them.
Ordered(p) ==
    \A i \in 1 .. Len(p) :
       /\ p[i].verb = "apply" /\ p[i].obj \in ManagedResources
          => i > 1 /\ p[i-1].verb = "apply" /\ p[i-1].obj = SecretOf[p[i].obj]
       /\ p[i].verb = "delete" /\ p[i].obj \in Secrets
          => /\ i > 1 /\ p[i-1].verb = "delete"
             /\ p[i-1].obj \in ManagedResources /\ p[i].obj = SecretOf[p[i-1].obj]
       /\ p[i].verb = "manifest"
          => /\ p[i].obj \notin ManagedResources
             /\ i < Len(p) /\ p[i+1].verb \in {"manifest", "collect"}

\* A part of a plan, with the objects that it writes, deletes and resizes.
Piece(p, written, deleted, resized) ==
    /\ Sequence(p) /\ Ordered(p)
    /\ Named(p, {"apply", "manifest"}) = written
    /\ Named(p, {"delete"}) = deleted
    /\ Named(p, {"resize"}) = resized

----------------------------------------------------------------------------
(* Sequences. *)

LEMMA SequenceIs ==
  ASSUME NEW p, Sequence(p)
  PROVE  Len(p) \in Nat /\ DOMAIN p = 1 .. Len(p)
<1>1. PICK S : p \in Seq(S)
  BY DEF Sequence
<1>2. QED
  BY <1>1, LenProperties

LEMMA ConcatIs ==
  ASSUME NEW p, NEW q, Sequence(p), Sequence(q)
  PROVE  /\ Sequence(p \o q)
         /\ Len(p \o q) = Len(p) + Len(q)
         /\ \A i \in 1 .. Len(p) : (p \o q)[i] = p[i]
         /\ \A i \in 1 .. Len(q) : (p \o q)[Len(p) + i] = q[i]
<1>1. PICK S, T : p \in Seq(S) /\ q \in Seq(T)
  BY DEF Sequence
<1>2. p \in Seq(S \cup T) /\ q \in Seq(S \cup T)
  BY <1>1, SeqMonotonic
<1>3. Len(p) \in Nat /\ Len(q) \in Nat
  BY <1>2, LenProperties
<1>4. /\ p \o q \in Seq(S \cup T)
      /\ Len(p \o q) = Len(p) + Len(q)
      /\ \A i \in 1 .. Len(p) + Len(q) :
            (p \o q)[i] = IF i <= Len(p) THEN p[i] ELSE q[i - Len(p)]
  BY <1>2, ConcatProperties
<1>5. ASSUME NEW i \in 1 .. Len(p) PROVE (p \o q)[i] = p[i]
  BY <1>3, <1>4
<1>6. ASSUME NEW i \in 1 .. Len(q) PROVE (p \o q)[Len(p) + i] = q[i]
  BY <1>3, <1>4
<1>7. QED
  BY <1>4, <1>5, <1>6 DEF Sequence

LEMMA RequestsAre ==
  ASSUME NEW verb, NEW names, Sequence(names)
  PROVE  /\ Sequence(Requests(verb, names))
         /\ Len(Requests(verb, names)) = Len(names)
         /\ \A i \in 1 .. Len(names) : /\ Requests(verb, names)[i].verb = verb
                                       /\ Requests(verb, names)[i].obj = names[i]
<1> DEFINE n == Len(names)
           p == [i \in 1 .. n |-> [verb |-> verb, obj |-> names[i]]]
           S == {[verb |-> verb, obj |-> names[i]] : i \in 1 .. n}
<1>1. n \in Nat /\ DOMAIN names = 1 .. n
  BY SequenceIs
<1>2. Requests(verb, names) = p
  BY <1>1 DEF Requests
<1>3. p \in [1 .. n -> S]
  OBVIOUS
<1>4. p \in Seq(S)
  BY <1>1, <1>3, SeqDef
<1>5. Len(p) = n
  BY <1>1, <1>3, <1>4, LenProperties
<1>6. \A i \in 1 .. n : p[i].verb = verb /\ p[i].obj = names[i]
  OBVIOUS
<1> HIDE DEF p
<1>7. QED
  BY <1>2, <1>4, <1>5, <1>6 DEF Sequence

----------------------------------------------------------------------------
(* Pieces. *)

LEMMA NamedRequests ==
  ASSUME NEW verb, NEW names, Sequence(names), NEW verbs
  PROVE  Named(Requests(verb, names), verbs)
           = IF verb \in verbs THEN Listed(names) ELSE {}
<1> DEFINE p == Requests(verb, names)
<1>1. /\ DOMAIN p = 1 .. Len(names)
      /\ \A i \in 1 .. Len(names) : p[i].verb = verb /\ p[i].obj = names[i]
  BY RequestsAre, SequenceIs
<1> HIDE DEF p
<1>2. Named(p, verbs) = IF verb \in verbs THEN Listed(names) ELSE {}
  BY <1>1 DEF Named, Listed
<1>3. QED
  BY <1>2 DEF p

LEMMA NamedIs ==
  ASSUME NEW p, Sequence(p), NEW verbs
  PROVE  /\ \A i \in 1 .. Len(p) : p[i].verb \in verbs => p[i].obj \in Named(p, verbs)
         /\ \A o \in Named(p, verbs) : \E i \in 1 .. Len(p) : p[i].verb \in verbs /\ p[i].obj = o
  BY SequenceIs DEF Named

LEMMA NamedConcat ==
  ASSUME NEW p, NEW q, Sequence(p), Sequence(q), NEW verbs
  PROVE  Named(p \o q, verbs) = Named(p, verbs) \cup Named(q, verbs)
<1> DEFINE r == p \o q
<1>1. /\ Len(p) \in Nat /\ DOMAIN p = 1 .. Len(p)
      /\ Len(q) \in Nat /\ DOMAIN q = 1 .. Len(q)
  BY SequenceIs
<1>2. /\ DOMAIN r = 1 .. Len(p) + Len(q)
      /\ \A i \in 1 .. Len(p) : r[i] = p[i]
      /\ \A i \in 1 .. Len(q) : r[Len(p) + i] = q[i]
  BY ConcatIs, SequenceIs
<1> HIDE DEF r
<1>3. ASSUME NEW o \in Named(r, verbs) PROVE o \in Named(p, verbs) \cup Named(q, verbs)
  <2>1. PICK i \in 1 .. Len(p) + Len(q) : r[i].verb \in verbs /\ r[i].obj = o
    BY <1>2, <1>3 DEF Named
  <2>2. CASE i <= Len(p)
    BY <1>1, <1>2, <2>1, <2>2 DEF Named
  <2>3. CASE i > Len(p)
    <3>1. i - Len(p) \in 1 .. Len(q) /\ r[i] = q[i - Len(p)]
      BY <1>1, <1>2, <2>1, <2>3
    <3>2. QED
      BY <1>1, <2>1, <3>1 DEF Named
  <2>4. QED
    BY <1>1, <2>1, <2>2, <2>3
<1>4. ASSUME NEW o \in Named(p, verbs) PROVE o \in Named(r, verbs)
  <2>1. PICK i \in 1 .. Len(p) : p[i].verb \in verbs /\ p[i].obj = o
    BY <1>1, <1>4 DEF Named
  <2>2. i \in DOMAIN r /\ r[i] = p[i]
    BY <1>1, <1>2, <2>1
  <2>3. QED
    BY <2>1, <2>2 DEF Named
<1>5. ASSUME NEW o \in Named(q, verbs) PROVE o \in Named(r, verbs)
  <2>1. PICK i \in 1 .. Len(q) : q[i].verb \in verbs /\ q[i].obj = o
    BY <1>1, <1>5 DEF Named
  <2>2. Len(p) + i \in DOMAIN r /\ r[Len(p) + i] = q[i]
    BY <1>1, <1>2, <2>1
  <2>3. QED
    BY <2>1, <2>2 DEF Named
<1>6. QED
  BY <1>3, <1>4, <1>5 DEF r

LEMMA OrderedConcat ==
  ASSUME NEW p, NEW q, Sequence(p), Sequence(q), Ordered(p), Ordered(q)
  PROVE  Ordered(p \o q)
<1> DEFINE r == p \o q
<1>1. Len(p) \in Nat /\ Len(q) \in Nat
  BY SequenceIs
<1>2. /\ Len(r) = Len(p) + Len(q)
      /\ \A i \in 1 .. Len(p) : r[i] = p[i]
      /\ \A i \in 1 .. Len(q) : r[Len(p) + i] = q[i]
  BY ConcatIs
<1> HIDE DEF r
<1>3. ASSUME NEW i \in 1 .. Len(r)
      PROVE  \/ /\ i \in 1 .. Len(p) /\ r[i] = p[i]
                /\ i > 1 => r[i-1] = p[i-1]
                /\ i < Len(p) => i < Len(r) /\ r[i+1] = p[i+1]
             \/ \E j \in 1 .. Len(q) :
                   /\ i >= j /\ r[i] = q[j]
                   /\ j > 1 => r[i-1] = q[j-1]
                   /\ j < Len(q) => i < Len(r) /\ r[i+1] = q[j+1]
  <2>1. CASE i <= Len(p)
    BY <1>1, <1>2, <2>1
  <2>2. CASE i > Len(p)
    <3>1. PICK j \in 1 .. Len(q) : i = Len(p) + j
      <4>1. i - Len(p) \in 1 .. Len(q) /\ i = Len(p) + (i - Len(p))
        BY <1>1, <1>2, <2>2
      <4>2. QED
        BY <4>1
    <3>2. j > 1 => j - 1 \in 1 .. Len(q) /\ i - 1 = Len(p) + (j - 1)
      BY <1>1, <3>1
    <3>3. j < Len(q) => j + 1 \in 1 .. Len(q) /\ i + 1 = Len(p) + (j + 1)
      BY <1>1, <3>1
    <3>4. j > 1 => r[i-1] = q[j-1]
      BY <1>2, <3>2
    <3>5. j < Len(q) => i < Len(r) /\ r[i+1] = q[j+1]
      BY <1>1, <1>2, <3>1, <3>3
    <3>6. i >= j /\ r[i] = q[j]
      BY <1>1, <1>2, <3>1
    <3>7. QED
      BY <3>4, <3>5, <3>6
  <2>3. QED
    BY <1>1, <1>2, <2>1, <2>2
<1>4. Ordered(r)
  <2> SUFFICES ASSUME NEW i \in 1 .. Len(r)
               PROVE  /\ r[i].verb = "apply" /\ r[i].obj \in ManagedResources
                         => /\ i > 1 /\ r[i-1].verb = "apply"
                            /\ r[i-1].obj = SecretOf[r[i].obj]
                      /\ r[i].verb = "delete" /\ r[i].obj \in Secrets
                         => /\ i > 1 /\ r[i-1].verb = "delete"
                            /\ r[i-1].obj \in ManagedResources
                            /\ r[i].obj = SecretOf[r[i-1].obj]
                      /\ r[i].verb = "manifest"
                         => /\ r[i].obj \notin ManagedResources
                            /\ i < Len(r) /\ r[i+1].verb \in {"manifest", "collect"}
    BY DEF Ordered
  <2>1. CASE i \in 1 .. Len(p) /\ r[i] = p[i] /\ (i > 1 => r[i-1] = p[i-1])
              /\ (i < Len(p) => i < Len(r) /\ r[i+1] = p[i+1])
    BY <2>1 DEF Ordered
  <2>2. CASE \E j \in 1 .. Len(q) :
                   /\ i >= j /\ r[i] = q[j]
                   /\ j > 1 => r[i-1] = q[j-1]
                   /\ j < Len(q) => i < Len(r) /\ r[i+1] = q[j+1]
    <3>1. PICK j \in 1 .. Len(q) :
                   /\ i >= j /\ r[i] = q[j]
                   /\ j > 1 => r[i-1] = q[j-1]
                   /\ j < Len(q) => i < Len(r) /\ r[i+1] = q[j+1]
      BY <2>2
    <3>2. j > 1 => i > 1
      BY <1>1, <1>2, <3>1
    <3>3. QED
      BY <3>1, <3>2 DEF Ordered
  <2>3. QED
    BY <1>3, <2>1, <2>2
<1>5. QED
  BY <1>4 DEF r

LEMMA Compose ==
  ASSUME NEW p, NEW wp, NEW dp, NEW rp, Piece(p, wp, dp, rp),
         NEW q, NEW wq, NEW dq, NEW rq, Piece(q, wq, dq, rq)
  PROVE  Piece(p \o q, wp \cup wq, dp \cup dq, rp \cup rq)
  BY ConcatIs, OrderedConcat, NamedConcat DEF Piece

LEMMA ComposeWritten ==
  ASSUME NEW p, NEW wp, Piece(p, wp, {}, {}),
         NEW q, NEW wq, Piece(q, wq, {}, {})
  PROVE  Piece(p \o q, wp \cup wq, {}, {})
<1>1. Piece(p \o q, wp \cup wq, {} \cup {}, {} \cup {})
  BY Compose
<1>2. {} \cup {} = {}
  OBVIOUS
<1>3. QED
  BY <1>1, <1>2

LEMMA ComposeDeleted ==
  ASSUME NEW p, NEW dp, Piece(p, {}, dp, {}),
         NEW q, NEW dq, Piece(q, {}, dq, {})
  PROVE  Piece(p \o q, {}, dp \cup dq, {})
<1>1. Piece(p \o q, {} \cup {}, dp \cup dq, {} \cup {})
  BY Compose
<1>2. {} \cup {} = {}
  OBVIOUS
<1>3. QED
  BY <1>1, <1>2

----------------------------------------------------------------------------
(* The plans of the components. *)

LEMMA PlainOrdered ==
  ASSUME NEW verb \in {"apply", "delete", "collect", "healthy", "gone", "resize"},
         NEW names, Sequence(names),
         Listed(names) \cap (ManagedResources \cup Secrets) = {}
  PROVE  Sequence(Requests(verb, names)) /\ Ordered(Requests(verb, names))
<1> DEFINE p == Requests(verb, names)
<1>1. /\ Sequence(p) /\ Len(p) = Len(names)
      /\ \A i \in 1 .. Len(p) : p[i].verb = verb /\ p[i].obj = names[i]
  BY RequestsAre
<1> HIDE DEF p
<1>2. \A i \in 1 .. Len(p) : /\ p[i].verb = verb /\ verb # "manifest"
                             /\ p[i].obj \notin ManagedResources \cup Secrets
  BY <1>1 DEF Listed
<1>3. Ordered(p)
  BY <1>2 DEF Ordered
<1>4. QED
  BY <1>1, <1>3 DEF p

LEMMA ApplyPiece ==
  ASSUME NEW names, Sequence(names),
         Listed(names) \cap (ManagedResources \cup Secrets) = {}
  PROVE  Piece(Requests("apply", names), Listed(names), {}, {})
  BY PlainOrdered, NamedRequests DEF Piece

LEMMA ErasePiece ==
  ASSUME NEW names, Sequence(names),
         Listed(names) \cap (ManagedResources \cup Secrets) = {}
  PROVE  Piece(Requests("delete", names), {}, Listed(names), {})
  BY PlainOrdered, NamedRequests DEF Piece

LEMMA WaitPiece ==
  ASSUME NEW verb \in {"healthy", "gone"}, NEW obj \in ManagedResources
  PROVE  Piece(Requests(verb, <<obj>>), {}, {}, {})
<1> DEFINE p == Requests(verb, <<obj>>)
<1>1. Sequence(<<obj>>) /\ Len(<<obj>>) = 1
  <2>1. <<obj>> \in Seq({obj})
    OBVIOUS
  <2>2. QED
    BY <2>1 DEF Sequence
<1>2. Sequence(p) /\ Len(p) = 1 /\ p[1].verb = verb
  BY <1>1, RequestsAre
<1>3. Ordered(p)
  BY <1>2 DEF Ordered
<1>4. QED
  BY <1>1, <1>2, <1>3, NamedRequests DEF Piece

LEMMA DeployPiece ==
  ASSUME NEW mr \in ManagedResources
  PROVE  Piece(DeployManagedResource(mr, SecretOf[mr]), {mr, SecretOf[mr]}, {}, {})
<1> DEFINE names == <<SecretOf[mr], mr>>
           p == Requests("apply", names)
<1>1. Sequence(names) /\ Len(names) = 2 /\ names[1] = SecretOf[mr] /\ names[2] = mr
  <2>1. names \in Seq({SecretOf[mr], mr})
    OBVIOUS
  <2>2. QED
    BY <2>1 DEF Sequence
<1>2. SecretOf[mr] \notin ManagedResources
  BY DEF ManagedResources, SecretOf
<1> HIDE DEF names
<1>3. Sequence(p) /\ Len(p) = 2
      /\ p[1].verb = "apply" /\ p[1].obj = SecretOf[mr]
      /\ p[2].verb = "apply" /\ p[2].obj = mr
  BY <1>1, RequestsAre
<1>4. Ordered(p)
  BY <1>2, <1>3 DEF Ordered
<1>5. Listed(names) = {mr, SecretOf[mr]}
  BY <1>1 DEF Listed
<1>6. QED
  BY <1>1, <1>3, <1>4, <1>5, NamedRequests DEF Piece, DeployManagedResource, names

LEMMA DeletePiece ==
  ASSUME NEW mr \in ManagedResources
  PROVE  Piece(DeleteManagedResource(mr, SecretOf[mr]), {}, {mr, SecretOf[mr]}, {})
<1> DEFINE names == <<mr, SecretOf[mr]>>
           p == Requests("delete", names)
<1>1. Sequence(names) /\ Len(names) = 2 /\ names[1] = mr /\ names[2] = SecretOf[mr]
  <2>1. names \in Seq({SecretOf[mr], mr})
    OBVIOUS
  <2>2. QED
    BY <2>1 DEF Sequence
<1>2. mr \notin Secrets
  BY DEF ManagedResources, SecretOf, Secrets
<1> HIDE DEF names
<1>3. Sequence(p) /\ Len(p) = 2
      /\ p[1].verb = "delete" /\ p[1].obj = mr
      /\ p[2].verb = "delete" /\ p[2].obj = SecretOf[mr]
  BY <1>1, RequestsAre
<1>4. Ordered(p)
  BY <1>2, <1>3 DEF Ordered
<1>5. Listed(names) = {mr, SecretOf[mr]}
  BY <1>1 DEF Listed
<1>6. QED
  BY <1>1, <1>3, <1>4, <1>5, NamedRequests DEF Piece, DeleteManagedResource, names

\* A chart: its manifests and the collection of their errors.
LEMMA ChartPiece ==
  ASSUME NEW names, Sequence(names),
         Listed(names) \cap (ManagedResources \cup Secrets) = {}
  PROVE  Piece(ChartApply(Requests("manifest", names)),
               Listed(names), {}, {})
<1> DEFINE p == Requests("manifest", names)
           c == Requests("collect", <<"errors">>)
           r == p \o c
<1>1. /\ Sequence(p) /\ Len(p) = Len(names) /\ Len(p) \in Nat
      /\ \A i \in 1 .. Len(p) : p[i].verb = "manifest" /\ p[i].obj = names[i]
  BY RequestsAre, SequenceIs
<1>2. Sequence(<<"errors">>) /\ Len(<<"errors">>) = 1 /\ <<"errors">>[1] = "errors"
  <2>1. <<"errors">> \in Seq({"errors"})
    OBVIOUS
  <2>2. QED
    BY <2>1 DEF Sequence
<1>3. Sequence(c) /\ Len(c) = 1 /\ c[1].verb = "collect"
  BY <1>2, RequestsAre
<1>4. /\ Sequence(r) /\ Len(r) = Len(p) + 1
      /\ \A i \in 1 .. Len(p) : r[i].verb = "manifest" /\ r[i].obj = names[i]
      /\ r[Len(p) + 1].verb = "collect"
  <2> HIDE DEF p, c
  <2>1. /\ Sequence(r) /\ Len(r) = Len(p) + Len(c)
        /\ \A i \in 1 .. Len(p) : r[i] = p[i]
        /\ \A i \in 1 .. Len(c) : r[Len(p) + i] = c[i]
    <3>1. Sequence(p) /\ Sequence(c)
      BY <1>1, <1>3
    <3>2. QED
      BY <3>1, ConcatIs
  <2>2. r[Len(p) + 1] = c[1]
    BY <1>3, <2>1
  <2>3. QED
    BY <1>1, <1>3, <2>1, <2>2
<1>5. Ordered(r)
  <2> HIDE DEF p, r
  <2>1. ASSUME NEW i \in 1 .. Len(r)
        PROVE  \/ i = Len(p) + 1 /\ r[i].verb = "collect"
               \/ /\ i \in 1 .. Len(p)
                  /\ r[i].verb = "manifest" /\ r[i].obj = names[i]
                  /\ i < Len(r) /\ r[i+1].verb \in {"manifest", "collect"}
    <3>1. CASE i = Len(p) + 1
      BY <1>4, <3>1
    <3>2. CASE i \in 1 .. Len(p)
      <4>1. i + 1 \in 1 .. Len(p) \/ i + 1 = Len(p) + 1
        BY <1>1, <3>2
      <4>2. r[i+1].verb \in {"manifest", "collect"}
        BY <1>4, <4>1
      <4>3. i < Len(r)
        BY <1>1, <1>4, <3>2
      <4>4. QED
        BY <1>4, <3>2, <4>2, <4>3
    <3>3. QED
      BY <1>1, <1>4, <3>1, <3>2
  <2>2. QED
    BY <1>1, <2>1 DEF Ordered, Listed
<1>6. /\ Named(r, {"apply", "manifest"}) = Listed(names)
      /\ Named(r, {"delete"}) = {} /\ Named(r, {"resize"}) = {}
  <2>1. /\ Named(p, {"apply", "manifest"}) = Listed(names)
        /\ Named(p, {"delete"}) = {} /\ Named(p, {"resize"}) = {}
    BY NamedRequests
  <2>2. /\ Named(c, {"apply", "manifest"}) = {}
        /\ Named(c, {"delete"}) = {} /\ Named(c, {"resize"}) = {}
    BY <1>2, NamedRequests
  <2> HIDE DEF p, c
  <2>3. Sequence(p) /\ Sequence(c)
    BY <1>1, <1>3
  <2>4. \A verbs : Named(r, verbs) = Named(p, verbs) \cup Named(c, verbs)
    BY <2>3, NamedConcat
  <2> HIDE DEF r
  <2>5. QED
    BY <2>1, <2>2, <2>4
<1>7. QED
  BY <1>4, <1>5, <1>6 DEF Piece, ChartApply

LEMMA ListedConcat ==
  ASSUME NEW p, NEW q, Sequence(p), Sequence(q)
  PROVE  Sequence(p \o q) /\ Listed(p \o q) = Listed(p) \cup Listed(q)
<1> DEFINE r == p \o q
<1>1. Len(p) \in Nat /\ Len(q) \in Nat
  BY SequenceIs
<1>2. /\ Sequence(r) /\ Len(r) = Len(p) + Len(q)
      /\ \A i \in 1 .. Len(p) : r[i] = p[i]
      /\ \A i \in 1 .. Len(q) : r[Len(p) + i] = q[i]
  BY ConcatIs
<1> HIDE DEF r
<1>3. ASSUME NEW i \in 1 .. Len(r) PROVE r[i] \in Listed(p) \cup Listed(q)
  <2>1. CASE i <= Len(p)
    BY <1>1, <1>2, <2>1 DEF Listed
  <2>2. CASE i > Len(p)
    <3>1. i - Len(p) \in 1 .. Len(q) /\ i = Len(p) + (i - Len(p))
      BY <1>1, <1>2, <2>2
    <3>2. r[i] = q[i - Len(p)]
      BY <1>2, <3>1
    <3>3. QED
      BY <3>1, <3>2 DEF Listed
  <2>3. QED
    BY <1>1, <1>2, <2>1, <2>2
<1>4. ASSUME NEW i \in 1 .. Len(p) PROVE p[i] \in Listed(r)
  <2>1. i \in 1 .. Len(r) /\ r[i] = p[i]
    BY <1>1, <1>2
  <2>2. QED
    BY <2>1 DEF Listed
<1>5. ASSUME NEW i \in 1 .. Len(q) PROVE q[i] \in Listed(r)
  <2>1. Len(p) + i \in 1 .. Len(r) /\ r[Len(p) + i] = q[i]
    BY <1>1, <1>2
  <2>2. QED
    BY <2>1 DEF Listed
<1>6. Listed(r) = Listed(p) \cup Listed(q)
  BY <1>3, <1>4, <1>5 DEF Listed
<1>7. QED
  BY <1>2, <1>6 DEF r

LEMMA Resources ==
  /\ ManagedResources = {"mr-event-logger", "mr-rbac-proxy", "mr-controlplane"}
  /\ SecretOf["mr-event-logger"] = "mr-event-logger-secret"
  /\ SecretOf["mr-rbac-proxy"] = "mr-rbac-proxy-secret"
  /\ SecretOf["mr-controlplane"] = "mr-controlplane-secret"
<1>1. ManagedResources = {"mr-event-logger", "mr-rbac-proxy", "mr-controlplane"}
  BY DEF ManagedResources, SecretOf
<1>2. QED
  BY <1>1 DEF SecretOf

LEMMA List1 ==
  ASSUME NEW a
  PROVE  Sequence(<<a>>) /\ Listed(<<a>>) = {a}
<1> DEFINE s == <<a>>
<1>1. s \in Seq({a}) /\ Len(s) = 1
  OBVIOUS
<1>2. {s[x] : x \in 1 .. 1} = {a}
  OBVIOUS
<1> HIDE DEF s
<1>3. Sequence(s) /\ Listed(s) = {a}
  BY <1>1, <1>2 DEF Sequence, Listed
<1>4. QED
  BY <1>3 DEF s

LEMMA List2 ==
  ASSUME NEW a, NEW b
  PROVE  Sequence(<<a, b>>) /\ Listed(<<a, b>>) = {a, b}
<1> DEFINE s == <<a, b>>
<1>1. s \in Seq({a, b}) /\ Len(s) = 2
  OBVIOUS
<1>2. {s[x] : x \in 1 .. 2} = {a, b}
  OBVIOUS
<1> HIDE DEF s
<1>3. Sequence(s) /\ Listed(s) = {a, b}
  BY <1>1, <1>2 DEF Sequence, Listed
<1>4. QED
  BY <1>3 DEF s

LEMMA List3 ==
  ASSUME NEW a, NEW b, NEW c
  PROVE  Sequence(<<a, b, c>>) /\ Listed(<<a, b, c>>) = {a, b, c}
<1> DEFINE s == <<a, b, c>>
<1>1. s \in Seq({a, b, c}) /\ Len(s) = 3
  OBVIOUS
<1>2. {s[x] : x \in 1 .. 3} = {a, b, c}
  OBVIOUS
<1> HIDE DEF s
<1>3. Sequence(s) /\ Listed(s) = {a, b, c}
  BY <1>1, <1>2 DEF Sequence, Listed
<1>4. QED
  BY <1>3 DEF s

LEMMA List4 ==
  ASSUME NEW a, NEW b, NEW c, NEW d
  PROVE  Sequence(<<a, b, c, d>>) /\ Listed(<<a, b, c, d>>) = {a, b, c, d}
<1> DEFINE s == <<a, b, c, d>>
<1>1. s \in Seq({a, b, c, d}) /\ Len(s) = 4
  OBVIOUS
<1>2. {s[x] : x \in 1 .. 4} = {a, b, c, d}
  OBVIOUS
<1> HIDE DEF s
<1>3. Sequence(s) /\ Listed(s) = {a, b, c, d}
  BY <1>1, <1>2 DEF Sequence, Listed
<1>4. QED
  BY <1>3 DEF s

LEMMA List5 ==
  ASSUME NEW a, NEW b, NEW c, NEW d, NEW e
  PROVE  Sequence(<<a, b, c, d, e>>) /\ Listed(<<a, b, c, d, e>>) = {a, b, c, d, e}
<1> DEFINE s == <<a, b, c, d, e>>
<1>1. s \in Seq({a, b, c, d, e}) /\ Len(s) = 5
  OBVIOUS
<1>2. {s[x] : x \in 1 .. 5} = {a, b, c, d, e}
  OBVIOUS
<1> HIDE DEF s
<1>3. Sequence(s) /\ Listed(s) = {a, b, c, d, e}
  BY <1>1, <1>2 DEF Sequence, Listed
<1>4. QED
  BY <1>3 DEF s

LEMMA List7 ==
  ASSUME NEW a, NEW b, NEW c, NEW d, NEW e, NEW f, NEW g
  PROVE  Sequence(<<a, b, c, d, e, f, g>>) /\ Listed(<<a, b, c, d, e, f, g>>) = {a, b, c, d, e, f, g}
<1> DEFINE s == <<a, b, c, d, e, f, g>>
<1>1. s \in Seq({a, b, c, d, e, f, g}) /\ Len(s) = 7
  OBVIOUS
<1>2. {s[x] : x \in 1 .. 7} = {a, b, c, d, e, f, g}
  OBVIOUS
<1> HIDE DEF s
<1>3. Sequence(s) /\ Listed(s) = {a, b, c, d, e, f, g}
  BY <1>1, <1>2 DEF Sequence, Listed
<1>4. QED
  BY <1>3 DEF s

LEMMA List9 ==
  ASSUME NEW a, NEW b, NEW c, NEW d, NEW e, NEW f, NEW g, NEW h, NEW i
  PROVE  Sequence(<<a, b, c, d, e, f, g, h, i>>) /\ Listed(<<a, b, c, d, e, f, g, h, i>>) = {a, b, c, d, e, f, g, h, i}
<1> DEFINE s == <<a, b, c, d, e, f, g, h, i>>
<1>1. s \in Seq({a, b, c, d, e, f, g, h, i}) /\ Len(s) = 9
  OBVIOUS
<1>2. {s[x] : x \in 1 .. 9} = {a, b, c, d, e, f, g, h, i}
  OBVIOUS
<1> HIDE DEF s
<1>3. Sequence(s) /\ Listed(s) = {a, b, c, d, e, f, g, h, i}
  BY <1>1, <1>2 DEF Sequence, Listed
<1>4. QED
  BY <1>3 DEF s

LEMMA List11 ==
  ASSUME NEW a, NEW b, NEW c, NEW d, NEW e, NEW f, NEW g, NEW h, NEW i, NEW j,
         NEW k
  PROVE  Sequence(<<a, b, c, d, e, f, g, h, i, j, k>>) /\ Listed(<<a, b, c, d, e, f, g, h, i, j, k>>) = {a, b, c, d, e, f, g, h, i, j, k}
<1> DEFINE s == <<a, b, c, d, e, f, g, h, i, j, k>>
<1>1. s \in Seq({a, b, c, d, e, f, g, h, i, j, k}) /\ Len(s) = 11
  OBVIOUS
<1>2. {s[x] : x \in 1 .. 11} = {a, b, c, d, e, f, g, h, i, j, k}
  OBVIOUS
<1> HIDE DEF s
<1>3. Sequence(s) /\ Listed(s) = {a, b, c, d, e, f, g, h, i, j, k}
  BY <1>1, <1>2 DEF Sequence, Listed
<1>4. QED
  BY <1>3 DEF s

LEMMA List14 ==
  ASSUME NEW a, NEW b, NEW c, NEW d, NEW e, NEW f, NEW g, NEW h, NEW i, NEW j,
         NEW k, NEW l, NEW m, NEW n
  PROVE  Sequence(<<a, b, c, d, e, f, g, h, i, j, k, l, m, n>>) /\ Listed(<<a, b, c, d, e, f, g, h, i, j, k, l, m, n>>) = {a, b, c, d, e, f, g, h, i, j, k, l, m, n}
<1> DEFINE s == <<a, b, c, d, e, f, g, h, i, j, k, l, m, n>>
<1>1. s \in Seq({a, b, c, d, e, f, g, h, i, j, k, l, m, n}) /\ Len(s) = 14
  OBVIOUS
<1>2. {s[x] : x \in 1 .. 14} = {a, b, c, d, e, f, g, h, i, j, k, l, m, n}
  OBVIOUS
<1> HIDE DEF s
<1>3. Sequence(s) /\ Listed(s) = {a, b, c, d, e, f, g, h, i, j, k, l, m, n}
  BY <1>1, <1>2 DEF Sequence, Listed
<1>4. QED
  BY <1>3 DEF s

LEMMA EventLoggerPieces ==
  /\ Piece(DeployEventLogger, Parts.eventLogger, {}, {})
  /\ Piece(DestroyEventLogger, {}, Parts.eventLogger, {})
<1> DEFINE account == <<"access-event-logger">>
           rbac == <<"event-logger-sa", "event-logger-role", "event-logger-binding">>
           deployment == <<"event-logger">>
           vpa == <<"event-logger-vpa">>
           rest == <<"event-logger-sa", "event-logger-role", "event-logger-binding",
                     "event-logger-vpa", "event-logger">>
           mr == {"mr-event-logger", "mr-event-logger-secret"}
<1>1. /\ Sequence(account) /\ Listed(account) = {"access-event-logger"}
      /\ Sequence(rbac)
      /\ Listed(rbac) = {"event-logger-sa", "event-logger-role", "event-logger-binding"}
      /\ Sequence(deployment) /\ Listed(deployment) = {"event-logger"}
      /\ Sequence(vpa) /\ Listed(vpa) = {"event-logger-vpa"}
      /\ Sequence(rest)
      /\ Listed(rest) = {"event-logger-sa", "event-logger-role", "event-logger-binding",
                         "event-logger-vpa", "event-logger"}
  BY List1, List3, List5
<1> HIDE DEF account, rbac, deployment, vpa, rest
<1>2. /\ Piece(Requests("apply", account), Listed(account), {}, {})
      /\ Piece(Requests("delete", account), {}, Listed(account), {})
      /\ Piece(Requests("apply", rbac), Listed(rbac), {}, {})
      /\ Piece(Requests("apply", deployment), Listed(deployment), {}, {})
      /\ Piece(Requests("apply", vpa), Listed(vpa), {}, {})
      /\ Piece(Requests("delete", rest), {}, Listed(rest), {})
  BY <1>1, ApplyPiece, ErasePiece, Resources DEF Secrets
<1>3. /\ Piece(DeployManagedResource("mr-event-logger", "mr-event-logger-secret"), mr, {}, {})
      /\ Piece(DeleteManagedResource("mr-event-logger", "mr-event-logger-secret"), {}, mr, {})
  BY DeployPiece, DeletePiece, Resources
<1> HIDE DEF mr
<1>4. Piece(ReconcileRBACForShoot, Listed(account) \cup mr, {}, {})
  BY <1>2, <1>3, ComposeWritten DEF ReconcileRBACForShoot, account
<1>5. Piece(ReconcileRBACForShoot \o ReconcileRBACForSeed,
            (Listed(account) \cup mr) \cup Listed(rbac), {}, {})
  BY <1>2, <1>4, ComposeWritten DEF ReconcileRBACForSeed, rbac
<1>6. Piece(ReconcileRBACForShoot \o ReconcileRBACForSeed \o ReconcileDeployment,
            ((Listed(account) \cup mr) \cup Listed(rbac)) \cup Listed(deployment), {}, {})
  BY <1>2, <1>5, ComposeWritten DEF ReconcileDeployment, deployment
<1>7. Piece(DeployEventLogger,
            (((Listed(account) \cup mr) \cup Listed(rbac)) \cup Listed(deployment))
            \cup Listed(vpa), {}, {})
  BY <1>2, <1>6, ComposeWritten DEF DeployEventLogger, ReconcileVPA, vpa
<1>8. (((Listed(account) \cup mr) \cup Listed(rbac)) \cup Listed(deployment)) \cup Listed(vpa)
        = Parts.eventLogger
  BY <1>1 DEF mr, Parts
<1>9. Piece(DeleteRBACForShoot, {}, mr \cup Listed(account), {})
  BY <1>2, <1>3, ComposeDeleted DEF DeleteRBACForShoot, account
<1>10. Piece(DestroyEventLogger, {}, (mr \cup Listed(account)) \cup Listed(rest), {})
  BY <1>2, <1>9, ComposeDeleted DEF DestroyEventLogger, rest
<1>11. (mr \cup Listed(account)) \cup Listed(rest) = Parts.eventLogger
  BY <1>1 DEF mr, Parts
<1>12. QED
  BY <1>7, <1>8, <1>10, <1>11

LEMMA RBACProxyPieces ==
  /\ Piece(DeployRBACProxy, Parts.rbacProxy, {}, {})
  /\ Piece(DestroyRBACProxy, {}, Parts.rbacProxy, {})
<1> DEFINE accounts == <<"access-rbac-proxy", "access-promtail">>
           mr == {"mr-rbac-proxy", "mr-rbac-proxy-secret"}
<1>1. Sequence(accounts) /\ Listed(accounts) = {"access-rbac-proxy", "access-promtail"}
  BY List2
<1> HIDE DEF accounts
<1>2. /\ Piece(Requests("apply", accounts), Listed(accounts), {}, {})
      /\ Piece(Requests("delete", accounts), {}, Listed(accounts), {})
  BY <1>1, ApplyPiece, ErasePiece, Resources DEF Secrets
<1>3. /\ Piece(DeployManagedResource("mr-rbac-proxy", "mr-rbac-proxy-secret"), mr, {}, {})
      /\ Piece(DeleteManagedResource("mr-rbac-proxy", "mr-rbac-proxy-secret"), {}, mr, {})
  BY DeployPiece, DeletePiece, Resources
<1> HIDE DEF mr
<1>4. Piece(DeployRBACProxy, Listed(accounts) \cup mr, {}, {})
  BY <1>2, <1>3, ComposeWritten DEF DeployRBACProxy, accounts
<1>5. Piece(DestroyRBACProxy, {}, mr \cup Listed(accounts), {})
  BY <1>2, <1>3, ComposeDeleted DEF DestroyRBACProxy, accounts
<1>6. Listed(accounts) \cup mr = Parts.rbacProxy
  BY <1>1 DEF mr, Parts
<1>7. QED
  BY <1>4, <1>5, <1>6

\* What the two charts apply beyond what the parts name.
ShootChartRest(in) ==
    {"allow-to-loki", "loki-config-hash", "telegraf-config-hash"}
    \cup (IF in.hvpa THEN {"loki-hvpa"} ELSE {})

SeedChartRest(in) ==
    {"allow-to-loki", "loki-config-hash", "fluent-bit-config-hash",
     "fluent-bit-monitoring-config"}
    \cup (IF in.hvpa THEN {"loki-hvpa"} ELSE {})

LEMMA HvpaIs ==
  ASSUME NEW in
  PROVE  Sequence(Hvpa(in)) /\ Listed(Hvpa(in)) = IF in.hvpa THEN {"loki-hvpa"} ELSE {}
<1>1. Sequence(<<>>) /\ Listed(<<>>) = {}
  <2>1. <<>> \in Seq({}) /\ Len(<<>>) = 0
    OBVIOUS
  <2>2. QED
    BY <2>1 DEF Sequence, Listed
<1>2. CASE in.hvpa
  BY <1>2, List1 DEF Hvpa
<1>3. CASE ~in.hvpa
  BY <1>1, <1>3 DEF Hvpa
<1>4. QED
  BY <1>2, <1>3

LEMMA ShootChartPieces ==
  ASSUME NEW in
  PROVE  /\ Piece(ChartApply(ShootChartManifest(in)),
                  Parts.loki \cup Parts.access \cup ShootChartRest(in), {}, {})
         /\ Piece(ChartDelete(ShootChartObjects), {},
                  Parts.loki \cup Parts.access \cup {" allow-to-loki"}, {})
<1> DEFINE names == <<"allow-loki", "allow-to-loki", "allow-telegraf", "loki-config-hash",
                      "telegraf-config-hash", "loki-service", "loki", "loki-ingress",
                      "monitoring-config">>
<1>1. /\ Sequence(names)
      /\ Listed(names) = {"allow-loki", "allow-to-loki", "allow-telegraf", "loki-config-hash",
                          "telegraf-config-hash", "loki-service", "loki", "loki-ingress",
                          "monitoring-config"}
  BY List9
<1> HIDE DEF names
<1>2. /\ Sequence(names \o Hvpa(in))
      /\ Listed(names \o Hvpa(in)) = Listed(names) \cup Listed(Hvpa(in))
  BY <1>1, HvpaIs, ListedConcat
<1>3. Listed(names \o Hvpa(in)) = Parts.loki \cup Parts.access \cup ShootChartRest(in)
  BY <1>1, <1>2, HvpaIs DEF Parts, ShootChartRest
<1>4. Listed(names \o Hvpa(in)) \cap (ManagedResources \cup Secrets) = {}
  BY <1>1, <1>2, HvpaIs, Resources DEF Secrets
<1>5. Piece(ChartApply(ShootChartManifest(in)),
            Parts.loki \cup Parts.access \cup ShootChartRest(in), {}, {})
  BY <1>2, <1>3, <1>4, ChartPiece DEF ShootChartManifest, names
<1>6. /\ Sequence(ShootChartObjects)
      /\ Listed(ShootChartObjects) = Parts.loki \cup Parts.access \cup {" allow-to-loki"}
      /\ Listed(ShootChartObjects) \cap (ManagedResources \cup Secrets) = {}
  <2> DEFINE misnamed == " allow-to-loki"
  <2> HIDE DEF misnamed
  <2>1. /\ Sequence(ShootChartObjects)
        /\ Listed(ShootChartObjects) =
              {"loki", "loki-service", "allow-loki", misnamed, "allow-telegraf",
               "loki-ingress", "monitoring-config"}
    <3>1. ShootChartObjects = <<"loki", "loki-service", "allow-loki", misnamed,
                                "allow-telegraf", "loki-ingress", "monitoring-config">>
      BY DEF ShootChartObjects, misnamed
    <3>2. QED
      BY <3>1, List7
  <2>2. QED
    BY <2>1, Resources DEF Parts, Secrets, misnamed
<1>7. QED
  BY <1>5, <1>6, ErasePiece DEF ChartDelete

LEMMA SeedChartPieces ==
  ASSUME NEW in
  PROVE  /\ Piece(ChartApply(SeedChartManifest(in)),
                  Parts.loki \cup Parts.fluentBit \cup SeedChartRest(in), {}, {})
         /\ Piece(ChartDelete(SeedChartObjects), {},
                  Parts.loki \cup Parts.fluentBit \cup {" allow-to-loki"}, {})
<1> DEFINE names == <<"allow-fluentbit", "fluent-bit-sa", "fluent-bit-role",
                      "fluent-bit-binding", "fluent-bit-config-hash",
                      "fluent-bit-monitoring-config", "fluent-bit-service", "fluent-bit",
                      "allow-loki", "allow-to-loki", "loki-config-hash", "loki-service",
                      "loki", "monitoring-config">>
<1>1. /\ Sequence(names)
      /\ Listed(names) = {"allow-fluentbit", "fluent-bit-sa", "fluent-bit-role",
                      "fluent-bit-binding", "fluent-bit-config-hash",
                      "fluent-bit-monitoring-config", "fluent-bit-service", "fluent-bit",
                      "allow-loki", "allow-to-loki", "loki-config-hash", "loki-service",
                      "loki", "monitoring-config"}
  BY List14
<1> HIDE DEF names
<1>2. /\ Sequence(names \o Hvpa(in))
      /\ Listed(names \o Hvpa(in)) = Listed(names) \cup Listed(Hvpa(in))
  BY <1>1, HvpaIs, ListedConcat
<1>3. Listed(names \o Hvpa(in)) = Parts.loki \cup Parts.fluentBit \cup SeedChartRest(in)
  BY <1>1, <1>2, HvpaIs DEF Parts, SeedChartRest
<1>4. Listed(names \o Hvpa(in)) \cap (ManagedResources \cup Secrets) = {}
  BY <1>1, <1>2, HvpaIs, Resources DEF Secrets
<1>5. Piece(ChartApply(SeedChartManifest(in)),
            Parts.loki \cup Parts.fluentBit \cup SeedChartRest(in), {}, {})
  BY <1>2, <1>3, <1>4, ChartPiece DEF SeedChartManifest, names
<1>6. /\ Sequence(SeedChartObjects)
      /\ Listed(SeedChartObjects) = Parts.loki \cup Parts.fluentBit \cup {" allow-to-loki"}
      /\ Listed(SeedChartObjects) \cap (ManagedResources \cup Secrets) = {}
  <2> DEFINE misnamed == " allow-to-loki"
  <2> HIDE DEF misnamed
  <2>1. /\ Sequence(SeedChartObjects)
        /\ Listed(SeedChartObjects) =
              {"fluent-bit", "allow-fluentbit", "fluent-bit-role", "fluent-bit-binding",
               "fluent-bit-sa", "fluent-bit-service", "loki", "loki-service", "allow-loki",
               misnamed, "monitoring-config"}
    <3>1. SeedChartObjects =
            <<"fluent-bit", "allow-fluentbit", "fluent-bit-role", "fluent-bit-binding",
              "fluent-bit-sa", "fluent-bit-service", "loki", "loki-service", "allow-loki",
              misnamed, "monitoring-config">>
      BY DEF SeedChartObjects, misnamed
    <3>2. QED
      BY <3>1, List11
  <2>2. QED
    BY <2>1, Resources DEF Parts, Secrets, misnamed
<1>7. QED
  BY <1>5, <1>6, ErasePiece DEF ChartDelete

----------------------------------------------------------------------------
(* The plans of the calls. *)

\* What promtail and the access to Loki consist of, apart from the event logger.
NodeObjects(in) ==
    Parts.rbacProxy \cup Parts.secrets \cup Parts.loki \cup Parts.access
    \cup Parts.promtail \cup {"osc"} \cup ShootChartRest(in)

Writes(t, operation, in) ==
    IF operation = "Delete" THEN {}
    ELSE IF t = "seed" THEN Parts.loki \cup Parts.fluentBit \cup SeedChartRest(in)
    ELSE (IF in.events THEN Parts.eventLogger ELSE {})
         \cup (IF in.nodes THEN NodeObjects(in) ELSE {})

Deletes(t, operation, in) ==
    IF operation = "Delete"
    THEN IF t = "seed" THEN Parts.loki \cup Parts.fluentBit \cup {" allow-to-loki"}
         ELSE Parts.eventLogger \cup Parts.rbacProxy \cup Parts.secrets \cup Parts.loki
              \cup Parts.access \cup Parts.promtail \cup {" allow-to-loki"}
    ELSE IF t = "seed" THEN {}
    ELSE (IF in.events THEN {} ELSE Parts.eventLogger)
         \cup (IF in.nodes THEN {}
               ELSE Parts.rbacProxy \cup Parts.access \cup {"webhook-config", "telegraf-config"})

Resizes(t, operation, in) ==
    IF t = "seed" /\ operation = "Reconcile" THEN {"loki"} ELSE {}

LEMMA ShootNodeLoggingPiece ==
  ASSUME NEW in
  PROVE  Piece(ShootNodeLogging(in), NodeObjects(in), {}, {})
<1> DEFINE tls == <<"ca", "loki-tls">>
           osc == <<"osc">>
           chart == Parts.loki \cup Parts.access \cup ShootChartRest(in)
           mr == {"mr-controlplane", "mr-controlplane-secret"}
<1>1. /\ Sequence(tls) /\ Listed(tls) = {"ca", "loki-tls"}
      /\ Sequence(osc) /\ Listed(osc) = {"osc"}
  BY List1, List2
<1> HIDE DEF tls, osc
<1>2. /\ Piece(Requests("apply", tls), Listed(tls), {}, {})
      /\ Piece(Requests("apply", osc), Listed(osc), {}, {})
  BY <1>1, ApplyPiece, Resources DEF Secrets
<1>3. Piece(DeployManagedResource("mr-controlplane", "mr-controlplane-secret"), mr, {}, {})
  BY DeployPiece, Resources
<1>4. Piece(Requests("healthy", <<"mr-controlplane">>), {}, {}, {})
  BY WaitPiece, Resources
<1>5. Piece(ChartApply(ShootChartManifest(in)), chart, {}, {})
  BY ShootChartPieces
<1>6. Piece(DeployRBACProxy, Parts.rbacProxy, {}, {})
  BY RBACProxyPieces
<1> HIDE DEF mr, chart
<1>7. Piece(DeployRBACProxy \o Requests("apply", tls), Parts.rbacProxy \cup Listed(tls), {}, {})
  BY <1>2, <1>6, ComposeWritten
<1>8. Piece(DeployRBACProxy \o Requests("apply", tls) \o ChartApply(ShootChartManifest(in)),
            (Parts.rbacProxy \cup Listed(tls)) \cup chart, {}, {})
  BY <1>5, <1>7, ComposeWritten
<1>9. Piece(DeployRBACProxy \o Requests("apply", tls) \o ChartApply(ShootChartManifest(in))
               \o DeployManagedResource("mr-controlplane", "mr-controlplane-secret"),
            ((Parts.rbacProxy \cup Listed(tls)) \cup chart) \cup mr, {}, {})
  BY <1>3, <1>8, ComposeWritten
<1>10. Piece(DeployRBACProxy \o Requests("apply", tls) \o ChartApply(ShootChartManifest(in))
               \o DeployManagedResource("mr-controlplane", "mr-controlplane-secret")
               \o Requests("healthy", <<"mr-controlplane">>),
            (((Parts.rbacProxy \cup Listed(tls)) \cup chart) \cup mr) \cup {}, {}, {})
  BY <1>4, <1>9, ComposeWritten
<1>11. Piece(ShootNodeLogging(in),
            ((((Parts.rbacProxy \cup Listed(tls)) \cup chart) \cup mr) \cup {}) \cup Listed(osc),
            {}, {})
  BY <1>2, <1>10, ComposeWritten DEF ShootNodeLogging, tls, osc
<1>12. ((((Parts.rbacProxy \cup Listed(tls)) \cup chart) \cup mr) \cup {}) \cup Listed(osc)
         = NodeObjects(in)
  <2>1. mr = Parts.promtail /\ Listed(tls) = Parts.secrets
    BY <1>1 DEF mr, Parts
  <2>2. QED
    BY <1>1, <2>1 DEF chart, NodeObjects
<1>13. QED
  BY <1>11, <1>12

LEMMA ShootNoNodeLoggingPiece ==
  Piece(ShootNoNodeLogging, {},
        Parts.rbacProxy \cup (Parts.access \cup {"webhook-config", "telegraf-config"}), {})
<1> DEFINE names == <<"webhook-config", "loki-ingress", "allow-telegraf", "telegraf-config">>
<1>1. /\ Sequence(names)
      /\ Listed(names) = {"webhook-config", "loki-ingress", "allow-telegraf", "telegraf-config"}
  BY List4
<1> HIDE DEF names
<1>2. Piece(Requests("delete", names), {}, Listed(names), {})
  BY <1>1, ErasePiece, Resources DEF Secrets
<1>3. Listed(names) = Parts.access \cup {"webhook-config", "telegraf-config"}
  BY <1>1 DEF Parts
<1>4. QED
  BY <1>2, <1>3, RBACProxyPieces, ComposeDeleted DEF ShootNoNodeLogging, names

LEMMA ShootReconcilePiece ==
  ASSUME NEW in \in Inputs
  PROVE  Piece(ShootReconcile(in), Writes("shoot", "Reconcile", in),
               Deletes("shoot", "Reconcile", in), {})
<1>1. in.events \in BOOLEAN /\ in.nodes \in BOOLEAN
  BY ActuatorAssumption
<1> DEFINE events == IF in.events THEN DeployEventLogger ELSE DestroyEventLogger
           we == IF in.events THEN Parts.eventLogger ELSE {}
           de == IF in.events THEN {} ELSE Parts.eventLogger
           nodes == IF in.nodes THEN ShootNodeLogging(in) ELSE ShootNoNodeLogging
           wn == IF in.nodes THEN NodeObjects(in) ELSE {}
           dn == IF in.nodes THEN {}
                 ELSE Parts.rbacProxy \cup (Parts.access \cup {"webhook-config", "telegraf-config"})
<1>2. Piece(events, we, de, {})
  <2>1. CASE in.events
    BY <2>1, EventLoggerPieces
  <2>2. CASE ~in.events
    BY <2>2, EventLoggerPieces
  <2>3. QED
    BY <2>1, <2>2
<1>3. Piece(nodes, wn, dn, {})
  <2>1. CASE in.nodes
    BY <2>1, ShootNodeLoggingPiece
  <2>2. CASE ~in.nodes
    BY <2>2, ShootNoNodeLoggingPiece
  <2>3. QED
    BY <2>1, <2>2
<1>4. ShootReconcile(in) = events \o nodes
  BY DEF ShootReconcile
<1> HIDE DEF events, nodes, we, de, wn, dn
<1>5. Piece(ShootReconcile(in), we \cup wn, de \cup dn, {} \cup {})
  BY <1>2, <1>3, <1>4, Compose
<1>6. we \cup wn = Writes("shoot", "Reconcile", in)
  BY DEF we, wn, Writes
<1>7. de \cup dn = Deletes("shoot", "Reconcile", in)
  BY DEF de, dn, Deletes
<1>8. {} \cup {} = {}
  OBVIOUS
<1>9. QED
  BY <1>5, <1>6, <1>7, <1>8

LEMMA ShootDeletePiece ==
  ASSUME NEW in
  PROVE  Piece(ShootDelete, {}, Deletes("shoot", "Delete", in), {})
<1> DEFINE tls == <<"ca", "loki-tls">>
           chart == Parts.loki \cup Parts.access \cup {" allow-to-loki"}
           mr == {"mr-controlplane", "mr-controlplane-secret"}
<1>1. Sequence(tls) /\ Listed(tls) = {"ca", "loki-tls"}
  BY List2
<1> HIDE DEF tls
<1>2. Piece(Requests("delete", tls), {}, Listed(tls), {})
  BY <1>1, ErasePiece, Resources DEF Secrets
<1>3. Piece(DeleteManagedResource("mr-controlplane", "mr-controlplane-secret"), {}, mr, {})
  BY DeletePiece, Resources
<1>4. Piece(Requests("gone", <<"mr-controlplane">>), {}, {}, {})
  BY WaitPiece, Resources
<1>5. Piece(ChartDelete(ShootChartObjects), {}, chart, {})
  BY ShootChartPieces
<1> HIDE DEF mr, chart
<1>6. Piece(DestroyEventLogger \o DestroyRBACProxy, {},
            Parts.eventLogger \cup Parts.rbacProxy, {})
  BY EventLoggerPieces, RBACProxyPieces, ComposeDeleted
<1>7. Piece(DestroyEventLogger \o DestroyRBACProxy \o Requests("delete", tls), {},
            (Parts.eventLogger \cup Parts.rbacProxy) \cup Listed(tls), {})
  BY <1>2, <1>6, ComposeDeleted
<1>8. Piece(DestroyEventLogger \o DestroyRBACProxy \o Requests("delete", tls)
               \o ChartDelete(ShootChartObjects), {},
            ((Parts.eventLogger \cup Parts.rbacProxy) \cup Listed(tls)) \cup chart, {})
  BY <1>5, <1>7, ComposeDeleted
<1>9. Piece(DestroyEventLogger \o DestroyRBACProxy \o Requests("delete", tls)
               \o ChartDelete(ShootChartObjects)
               \o DeleteManagedResource("mr-controlplane", "mr-controlplane-secret"), {},
            (((Parts.eventLogger \cup Parts.rbacProxy) \cup Listed(tls)) \cup chart) \cup mr, {})
  BY <1>3, <1>8, ComposeDeleted
<1>10. Piece(ShootDelete, {},
            ((((Parts.eventLogger \cup Parts.rbacProxy) \cup Listed(tls)) \cup chart) \cup mr)
               \cup {}, {})
  BY <1>4, <1>9, ComposeDeleted DEF ShootDelete, tls
<1>11. ((((Parts.eventLogger \cup Parts.rbacProxy) \cup Listed(tls)) \cup chart) \cup mr) \cup {}
         = Deletes("shoot", "Delete", in)
  <2>1. mr = Parts.promtail /\ Listed(tls) = Parts.secrets
    BY <1>1 DEF mr, Parts
  <2>2. QED
    BY <2>1 DEF chart, Deletes
<1>12. QED
  BY <1>10, <1>11

LEMMA SeedReconcilePiece ==
  ASSUME NEW in
  PROVE  /\ Piece(SeedReconcile(in), Writes("seed", "Reconcile", in), {}, {"loki"})
         /\ \A i \in 2 .. Len(SeedReconcile(in)) : SeedReconcile(in)[i].verb # "resize"
<1> DEFINE p == Requests("resize", <<"loki">>)
           q == ChartApply(SeedChartManifest(in))
<1>1. Sequence(<<"loki">>) /\ Len(<<"loki">>) = 1 /\ Listed(<<"loki">>) = {"loki"}
  BY List1
<1>2. Piece(q, Writes("seed", "Reconcile", in), {}, {})
  BY SeedChartPieces DEF Writes
<1>3. Sequence(p) /\ Len(p) = 1 /\ p[1].verb = "resize"
  BY <1>1, RequestsAre
<1>4. Ordered(p)
  BY <1>3 DEF Ordered
<1>5. Piece(p, {}, {}, {"loki"})
  BY <1>1, <1>3, <1>4, NamedRequests DEF Piece
<1>6. SeedReconcile(in) = p \o q
  BY DEF SeedReconcile
<1> HIDE DEF p, q
<1>7. Piece(p \o q, {} \cup Writes("seed", "Reconcile", in), {} \cup {}, {"loki"} \cup {})
  BY <1>2, <1>5, Compose
<1>8. /\ {} \cup Writes("seed", "Reconcile", in) = Writes("seed", "Reconcile", in)
      /\ {} \cup {} = {} /\ {"loki"} \cup {} = {"loki"}
  OBVIOUS
<1>9. ASSUME NEW i \in 2 .. Len(p \o q) PROVE (p \o q)[i].verb # "resize"
  <2>1. Sequence(q) /\ Len(q) \in Nat /\ DOMAIN q = 1 .. Len(q)
    BY <1>2, SequenceIs DEF Piece
  <2>2. i - 1 \in 1 .. Len(q) /\ i = Len(p) + (i - 1)
    BY <1>3, <2>1, ConcatIs
  <2>3. \A j \in 1 .. Len(q) : (p \o q)[Len(p) + j] = q[j]
    <3>1. Sequence(p) /\ Sequence(q)
      BY <1>3, <2>1
    <3>2. QED
      BY <3>1, ConcatIs
  <2>4. (p \o q)[i] = q[i - 1]
    BY <2>2, <2>3
  <2>5. Named(q, {"resize"}) = {}
    BY <1>2 DEF Piece
  <2>6. q[i - 1].verb \notin {"resize"}
    BY <2>1, <2>2, <2>5, NamedIs
  <2>7. QED
    BY <2>4, <2>6
<1>10. QED
  BY <1>6, <1>7, <1>8, <1>9

LEMMA PlanPiece ==
  ASSUME NEW t \in Types, NEW operation \in Operations, NEW in \in Inputs
  PROVE  /\ Piece(Plans[<<t, operation, in>>], Writes(t, operation, in),
                  Deletes(t, operation, in), Resizes(t, operation, in))
         /\ \A i \in 2 .. Len(Plans[<<t, operation, in>>]) :
               Plans[<<t, operation, in>>][i].verb # "resize"
<1> DEFINE p == Plans[<<t, operation, in>>]
<1>1. p = Plan(t, operation, in)
  BY DEF Plans
<1>2. /\ t = "shoot" /\ operation = "Reconcile" => p = ShootReconcile(in)
      /\ t = "shoot" /\ operation = "Delete" => p = ShootDelete
      /\ t = "seed" /\ operation = "Reconcile" => p = SeedReconcile(in)
      /\ t = "seed" /\ operation = "Delete" => p = SeedDelete
  BY <1>1 DEF Plan
<1>3. /\ t = "shoot" \/ operation = "Delete" => Resizes(t, operation, in) = {}
      /\ operation = "Delete" => Writes(t, operation, in) = {}
      /\ t = "seed" /\ operation = "Reconcile"
            => Resizes(t, operation, in) = {"loki"} /\ Deletes(t, operation, in) = {}
  BY DEF Resizes, Writes, Deletes
<1> HIDE DEF p
<1> DEFINE Goal == Piece(p, Writes(t, operation, in), Deletes(t, operation, in),
                         Resizes(t, operation, in))
<1>4. t = "shoot" /\ operation = "Reconcile" => Goal
  BY <1>2, <1>3, ShootReconcilePiece
<1>5. t = "shoot" /\ operation = "Delete" => Goal
  BY <1>2, <1>3, ShootDeletePiece
<1>6. t = "seed" /\ operation = "Delete" => Goal
  BY <1>2, <1>3, SeedChartPieces DEF SeedDelete, Deletes
<1>7. t = "seed" /\ operation = "Reconcile" => Goal
  BY <1>2, <1>3, SeedReconcilePiece
<1>8. Goal
  BY <1>4, <1>5, <1>6, <1>7 DEF Types, Operations
<1>9. \A i \in 2 .. Len(p) : p[i].verb # "resize"
  <2>1. CASE Resizes(t, operation, in) = {}
    <3>1. Sequence(p) /\ Len(p) \in Nat /\ Named(p, {"resize"}) = {}
      BY <1>8, <2>1, SequenceIs DEF Piece
    <3>2. QED
      BY <3>1, NamedIs
  <2>2. CASE t = "seed" /\ operation = "Reconcile"
    BY <1>2, <2>2, SeedReconcilePiece
  <2>3. QED
    BY <2>1, <2>2 DEF Types, Operations, Resizes
<1>10. QED
  BY <1>8, <1>9 DEF p

LEMMA WrittenKept ==
  ASSUME NEW t \in Types, NEW operation \in Operations, NEW in \in Inputs
  PROVE  Writes(t, operation, in) \cap Deletes(t, operation, in) = {}
<1>1. CASE operation = "Delete" \/ t = "seed"
  BY <1>1 DEF Writes, Deletes, Types, Operations
<1>2. CASE operation = "Reconcile" /\ t = "shoot"
  <2> DEFINE nodes == NodeObjects(in)
             others == Parts.rbacProxy \cup Parts.access \cup {"webhook-config", "telegraf-config"}
  <2>1. Parts.eventLogger \cap others = {}
    BY DEF Parts
  <2>2. Parts.eventLogger \cap nodes = {}
    BY DEF NodeObjects, ShootChartRest, Parts
  <2> HIDE DEF nodes, others
  <2>3. QED
    BY <1>2, <2>1, <2>2 DEF Writes, Deletes, nodes, others
<1>3. QED
  BY <1>1, <1>2 DEF Types, Operations

----------------------------------------------------------------------------
(* The inductive invariant. *)

\* Every object that calls for a resource of the type write.
Owned(t) ==
    {"webhook-config"} \cup
    IF t = "seed"
    THEN Parts.loki \cup Parts.fluentBit
         \cup {"allow-to-loki", "loki-config-hash", "fluent-bit-config-hash",
               "fluent-bit-monitoring-config", "loki-hvpa"}
    ELSE Parts.eventLogger \cup Parts.rbacProxy \cup Parts.secrets \cup Parts.loki
         \cup Parts.access \cup Parts.promtail
         \cup {"osc", "allow-to-loki", "loki-config-hash", "telegraf-config-hash", "loki-hvpa"}

\* What exists was written by one of the calls so far, for a resource of this type.
Existing ==
    \A o \in Objects :
       have[o] # 0 => o \in Owned(type) /\ (o = "webhook-config" \/ have[o] <= calls)

\* What the running call has deleted stays deleted.
Deleted ==
    \A i \in 1 .. pc - 1 : plan[i].verb = "delete" => Alive(plan[i].obj) = 0

\* What it has written is from this call.  A ManagedResource that was being deleted
\* when it was written is finalized, which PromptGRM excludes.
Applied ==
    \A i \in 1 .. pc - 1 :
       /\ plan[i].verb = "apply" \/ (plan[i].verb = "manifest" /\ ~errors)
       /\ PromptGRM \/ plan[i].obj \notin ManagedResources
       => Alive(plan[i].obj) = calls

\* The resource manager only finalizes what this call deletes.
Prompt ==
    PromptGRM /\ call.operation = "Reconcile"
    => dying \subseteq Deletes(type, call.operation, call.in)

InCall ==
    /\ call.operation \in Operations
    /\ pc \in 1 .. Len(plan)
    /\ calls > 0
    /\ errors => request.verb \in {"manifest", "collect"}
    /\ Deleted /\ Applied /\ Prompt

AInv ==
    /\ TypeOK
    /\ Existing
    /\ Running => InCall
    /\ SecretsResolve
    /\ OnlyKnownLeftovers

LEMMA WritesOwned ==
  ASSUME NEW t \in Types, NEW operation \in Operations, NEW in \in Inputs
  PROVE  Writes(t, operation, in) \subseteq Owned(t)
<1>1. SeedChartRest(in) \subseteq {"allow-to-loki", "loki-config-hash", "fluent-bit-config-hash",
                                  "fluent-bit-monitoring-config", "loki-hvpa"}
  BY DEF SeedChartRest
<1>2. ShootChartRest(in) \subseteq {"allow-to-loki", "loki-config-hash", "telegraf-config-hash",
                                   "loki-hvpa"}
  BY DEF ShootChartRest
<1>3. CASE t = "seed"
  BY <1>1, <1>3 DEF Writes, Owned
<1>4. CASE t = "shoot"
  <2>1. NodeObjects(in) \subseteq Owned(t)
    BY <1>2, <1>4 DEF NodeObjects, Owned
  <2>2. QED
    BY <1>4, <2>1 DEF Writes, Owned
<1>5. QED
  BY <1>3, <1>4 DEF Types

LEMMA Leftovers ==
  ASSUME NEW t \in Types, NEW in \in Inputs
  PROVE  Owned(t) \ Deletes(t, "Delete", in)
            \subseteq {"webhook-config", "osc", "allow-to-loki", "loki-config-hash",
                      "telegraf-config-hash", "loki-hvpa", "fluent-bit-config-hash",
                      "fluent-bit-monitoring-config"}
  BY DEF Owned, Deletes, Types

LEMMA PlanObjects ==
  ASSUME NEW t \in Types, NEW operation \in Operations, NEW in \in Inputs
  PROVE  Writes(t, operation, in) \cup Deletes(t, operation, in) \subseteq Objects
<1> DEFINE k == <<t, operation, in>>
           p == Plans[k]
<1>1. k \in DOMAIN Plans
  BY DEF Plans
<1>2. Named(p, {"apply", "manifest", "delete"}) \subseteq Objects
  BY <1>1 DEF Objects
<1>3. /\ Named(p, {"apply", "manifest"}) = Writes(t, operation, in)
      /\ Named(p, {"delete"}) = Deletes(t, operation, in)
  BY PlanPiece DEF Piece
<1> HIDE DEF p
<1>4. /\ Named(p, {"apply", "manifest"}) \subseteq Named(p, {"apply", "manifest", "delete"})
      /\ Named(p, {"delete"}) \subseteq Named(p, {"apply", "manifest", "delete"})
  BY DEF Named
<1>5. QED
  BY <1>2, <1>3, <1>4

LEMMA AllObjects == ManagedResources \cup Secrets \subseteq Objects
<1>1. PICK in \in Inputs : TRUE
  BY ActuatorAssumption
<1>2. Deletes("shoot", "Delete", in) \subseteq Objects
  BY PlanObjects DEF Types, Operations
<1>3. ManagedResources \cup Secrets \subseteq Deletes("shoot", "Delete", in)
  BY Resources DEF Deletes, Parts, Secrets
<1>4. QED
  BY <1>2, <1>3

\* The plan of a running call, and its next request.
LEMMA RunningPlan ==
  ASSUME TypeOK, Running, InCall
  PROVE  LET W == Writes(type, call.operation, call.in)
             D == Deletes(type, call.operation, call.in)
         IN  /\ Sequence(plan) /\ Ordered(plan) /\ Len(plan) \in Nat
             /\ Named(plan, {"apply", "manifest"}) = W
             /\ Named(plan, {"delete"}) = D
             /\ W \cap D = {}
             /\ \A i \in 1 .. Len(plan) :
                   /\ plan[i].verb \in {"apply", "manifest"} => plan[i].obj \in W
                   /\ plan[i].verb = "delete" => plan[i].obj \in D
             /\ W \subseteq Owned(type) /\ W \cup D \subseteq Objects
             /\ request.verb = "resize" => pc = 1 /\ request.obj = "loki" /\ "loki" \in W
<1> DEFINE W == Writes(type, call.operation, call.in)
           D == Deletes(type, call.operation, call.in)
           R == Resizes(type, call.operation, call.in)
<1>1. type \in Types /\ call.operation \in Operations /\ call.in \in Inputs
  BY DEF TypeOK, InCall
<1>2. Piece(plan, W, D, R) /\ \A i \in 2 .. Len(plan) : plan[i].verb # "resize"
  BY <1>1, PlanPiece DEF plan
<1>3. W \cap D = {} /\ W \subseteq Owned(type) /\ W \cup D \subseteq Objects
  BY <1>1, WrittenKept, WritesOwned, PlanObjects
<1>4. R \subseteq {"loki"} /\ R \subseteq W
  BY <1>1 DEF Resizes, Writes, Parts, Operations
<1> HIDE DEF W, D, R
<1>5. Sequence(plan) /\ Ordered(plan) /\ Len(plan) \in Nat
  BY <1>2, SequenceIs DEF Piece
<1>6. \A verbs : \A i \in 1 .. Len(plan) :
         plan[i].verb \in verbs => plan[i].obj \in Named(plan, verbs)
  BY <1>5, NamedIs
<1>7. /\ Named(plan, {"apply", "manifest"}) = W
      /\ Named(plan, {"delete"}) = D
      /\ Named(plan, {"resize"}) = R
  BY <1>2 DEF Piece
<1>8. ASSUME NEW i \in 1 .. Len(plan)
      PROVE  /\ plan[i].verb \in {"apply", "manifest"} => plan[i].obj \in W
             /\ plan[i].verb = "delete" => plan[i].obj \in D
             /\ plan[i].verb = "resize" => plan[i].obj \in R
  BY <1>6, <1>7
<1>9. pc \in 1 .. Len(plan)
  BY DEF InCall
<1>10. request.verb = "resize" => pc = 1 /\ request.obj = "loki" /\ "loki" \in W
  <2>1. pc \in 2 .. Len(plan) => request.verb # "resize"
    BY <1>2 DEF request
  <2>2. request.verb = "resize" => request.obj \in R
    BY <1>8, <1>9 DEF request
  <2>3. pc \notin 2 .. Len(plan) => pc = 1
    BY <1>5, <1>9
  <2>4. QED
    BY <1>4, <2>1, <2>2, <2>3
<1>11. QED
  BY <1>3, <1>5, <1>7, <1>8, <1>10 DEF W, D

----------------------------------------------------------------------------
(* Steps. *)

\* What a request may do to the API server, when it is executed or fails.
Touch ==
    \/ UNCHANGED <<have, dying, target>>
    \/ request.verb \in {"apply", "manifest", "delete"} /\ Effect
    \/ /\ request.verb = "resize"
       /\ have' \in {have, [have EXCEPT ![request.obj] = 0]}
       /\ UNCHANGED <<dying, target>>

\* The request has been executed.
Done ==
    /\ request.verb \in {"apply", "manifest"} => Written(request.obj)
    /\ request.verb = "delete" => Erased(request.obj)
    /\ request.verb = "collect" => ~errors

\* A step of a running call: on to the next request, or the end of the call.
CallStep ==
    /\ Running /\ Touch
    /\ fails' \in Nat /\ fails' <= MaxFails
    /\ UNCHANGED <<type, calls>>
    /\ \/ Done /\ pc < Len(plan) /\ pc' = pc + 1 /\ UNCHANGED <<call, errors, last>>
       \/ Done /\ pc >= Len(plan) /\ End(TRUE)
       \/ End(FALSE)
       \/ /\ request.verb = "manifest" /\ errors' = TRUE /\ pc' = pc + 1
          /\ UNCHANGED <<call, last, have, dying, target>>

LEMMA StepIsCallStep ==
  ASSUME TypeOK, Running => InCall
  PROVE  Step \/ CallFails \/ ManifestFails => CallStep
<1>1. fails \in Nat /\ MaxFails \in Nat /\ fails <= MaxFails
  BY ActuatorAssumption DEF TypeOK
<1>2. Running => pc \in Nat /\ Len(plan) \in Nat
  BY RunningPlan, SequenceIs DEF TypeOK
<1>3. ASSUME Apply PROVE CallStep
  <2>1. Touch /\ Done
    BY <1>3 DEF Apply, Effect, Touch, Done
  <2>2. QED
    BY <1>1, <1>2, <1>3, <2>1 DEF Apply, Advance, CallStep, End, caller
<1>4. ASSUME Collect PROVE CallStep
  <2>1. Touch
    BY <1>4 DEF Collect, Touch
  <2>2. ~errors => Done
    BY <1>4 DEF Collect, Done
  <2>3. QED
    BY <1>1, <1>2, <1>4, <2>1, <2>2 DEF Collect, Advance, CallStep, End, caller
<1>5. ASSUME WaitUntilHealthy \/ WaitUntilDeleted PROVE CallStep
  <2>1. Touch /\ Done
    BY <1>5 DEF WaitUntilHealthy, WaitUntilDeleted, Touch, Done
  <2>2. QED
    BY <1>1, <1>2, <1>5, <2>1
    DEF WaitUntilHealthy, WaitUntilDeleted, Advance, CallStep, End, caller
<1>6. ASSUME ResizeOrDeleteLokiDataVolumeIfStorageNotTheSame PROVE CallStep
  <2>1. Touch /\ Done
    BY <1>6 DEF ResizeOrDeleteLokiDataVolumeIfStorageNotTheSame, Touch, Done
  <2>2. QED
    BY <1>1, <1>2, <1>6, <2>1
    DEF ResizeOrDeleteLokiDataVolumeIfStorageNotTheSame, Advance, CallStep, End, caller
<1>7. ASSUME CallFails PROVE CallStep
  <2>1. Touch
    BY <1>7 DEF CallFails, Touch
  <2>2. QED
    BY <1>1, <1>7, <2>1 DEF CallFails, CallStep, End
<1>8. ASSUME ManifestFails PROVE CallStep
  <2>1. Touch
    BY <1>8 DEF ManifestFails, Touch
  <2>2. QED
    BY <1>1, <1>8, <2>1 DEF ManifestFails, CallStep, caller
<1>9. QED
  BY <1>3, <1>4, <1>5, <1>6, <1>7, <1>8 DEF Step

LEMMA Except ==
  ASSUME NEW S, NEW T, NEW f \in [S -> T], NEW x, NEW v \in T
  PROVE  /\ [f EXCEPT ![x] = v] \in [S -> T]
         /\ \A o \in S : [f EXCEPT ![x] = v][o] = IF o = x THEN v ELSE f[o]
  OBVIOUS

\* Alive, of an object named now, in the next state.
AliveAfter(o) == IF o \in dying' THEN 0 ELSE have'[o]

\* What a touched API server looks like.
LEMMA Touched ==
  ASSUME TypeOK, Existing, Running, InCall, Touch, UNCHANGED calls
  PROVE  /\ have' \in [Objects -> 0 .. MaxCalls]
         /\ dying \subseteq dying' /\ dying' \subseteq ManagedResources /\ UNCHANGED target
         /\ \A o \in Objects : have'[o] = have[o] \/ (o = request.obj /\ have'[o] \in {0, calls})
         /\ \A o : o # request.obj => (o \in dying' <=> o \in dying)
         /\ dying' # dying => request.verb = "delete"
         /\ \A o \in Objects :
               have'[o] # have[o] /\ have'[o] # 0 => request.verb \in {"apply", "manifest"}
         /\ \A o \in Objects : o # request.obj => AliveAfter(o) = Alive(o)
<1>1. have \in [Objects -> 0 .. MaxCalls] /\ calls \in 0 .. MaxCalls
      /\ dying \subseteq ManagedResources /\ MaxCalls \in Nat
  BY ActuatorAssumption DEF TypeOK
<1> DEFINE e == [have EXCEPT ![request.obj] = 0]
<1>0. /\ e \in [Objects -> 0 .. MaxCalls]
      /\ \A o \in Objects : e[o] = IF o = request.obj THEN 0 ELSE have[o]
  BY <1>1, Except
<1> HIDE DEF e
<1>2. CASE UNCHANGED <<have, dying, target>>
  BY <1>1, <1>2 DEF Alive, AliveAfter
<1>3. CASE request.verb \in {"apply", "manifest"} /\ Written(request.obj)
  BY <1>1, <1>3 DEF Written, Alive, AliveAfter
<1>4. CASE request.verb = "delete" /\ Erased(request.obj)
  <2>1. CASE /\ request.obj \in ManagedResources
             /\ dying' = dying \cup {request.obj} /\ UNCHANGED <<have, target>>
    BY <1>1, <1>4, <2>1 DEF Alive, AliveAfter
  <2>2. CASE have' = e /\ UNCHANGED <<dying, target>>
    BY <1>0, <1>1, <2>2 DEF Alive, AliveAfter
  <2>3. QED
    BY <1>4, <2>1, <2>2 DEF Erased, e
<1>5. CASE have' = e /\ UNCHANGED <<dying, target>>
  BY <1>0, <1>1, <1>5 DEF Alive, AliveAfter
<1>6. QED
  BY <1>2, <1>3, <1>4, <1>5 DEF Touch, Effect, e

LEMMA DoneAlive ==
  ASSUME TypeOK, Running, InCall, Done
  PROVE  /\ request.verb = "delete" => AliveAfter(request.obj) = 0
         /\ /\ request.verb \in {"apply", "manifest"}
            /\ PromptGRM \/ request.obj \notin ManagedResources
            => AliveAfter(request.obj) = calls
<1>1. /\ have \in [Objects -> 0 .. MaxCalls] /\ calls \in 0 .. MaxCalls
      /\ dying \subseteq ManagedResources /\ type \in Types
  BY DEF TypeOK
<1>2. ASSUME request.verb = "delete" PROVE AliveAfter(request.obj) = 0
  <2>1. request.obj \in Objects
    BY <1>2, RunningPlan DEF InCall, request
  <2>2. CASE request.obj \in dying'
    BY <2>2 DEF Alive, AliveAfter
  <2>3. CASE request.obj \notin dying'
    <3>1. have' = [have EXCEPT ![request.obj] = 0]
      BY <1>2, <2>3 DEF Done, Erased
    <3>2. have'[request.obj] = 0
      BY <1>1, <2>1, <3>1
    <3>3. QED
      BY <2>3, <3>2 DEF Alive, AliveAfter
  <2>4. QED
    BY <2>2, <2>3
<1>3. ASSUME request.verb \in {"apply", "manifest"},
             PromptGRM \/ request.obj \notin ManagedResources
      PROVE  AliveAfter(request.obj) = calls
  <2>1. /\ request.obj \in Objects
        /\ request.obj \in Writes(type, call.operation, call.in)
        /\ request.obj \notin Deletes(type, call.operation, call.in)
    BY <1>3, RunningPlan DEF InCall, request
  <2>2. have' = [have EXCEPT ![request.obj] = calls] /\ dying' = dying
    BY <1>3 DEF Done, Written
  <2>3. have'[request.obj] = calls
    BY <1>1, <2>1, <2>2
  <2>4. call.operation = "Reconcile"
    BY <2>1 DEF InCall, Operations, Writes
  <2>5. request.obj \notin dying
    BY <1>1, <1>3, <2>1, <2>4 DEF InCall, Prompt
  <2>6. QED
    BY <2>2, <2>3, <2>5 DEF Alive, AliveAfter
<1>4. QED
  BY <1>2, <1>3

\* A request that does not end the call.
Goes ==
    /\ UNCHANGED <<type, calls, call>> /\ pc < Len(plan) /\ pc' = pc + 1
    /\ \/ Done /\ UNCHANGED errors
       \/ request.verb = "manifest" /\ errors' = TRUE

\* A request that was executed, or a manifest that failed, leaves deleted what was
\* deleted before, and with it what it deletes.
LEMMA DeletedAfter ==
  ASSUME TypeOK, Existing, Running, InCall, Touch, UNCHANGED calls,
         Done \/ request.verb = "manifest",
         NEW i \in 1 .. pc, plan[i].verb = "delete"
  PROVE  AliveAfter(plan[i].obj) = 0
<1>1. pc \in 1 .. Len(plan) /\ pc \in Nat
  BY DEF InCall, TypeOK
<1>2. CASE i = pc
  BY <1>2, DoneAlive DEF request
<1>3. CASE i \in 1 .. pc - 1
  <2>1. Alive(plan[i].obj) = 0
    BY <1>3 DEF InCall, Deleted
  <2>2. plan[i].obj \in Deletes(type, call.operation, call.in) /\ plan[i].obj \in Objects
    BY <1>1, <1>3, RunningPlan
  <2>3. CASE plan[i].obj # request.obj
    BY <2>1, <2>2, <2>3, Touched
  <2>4. CASE plan[i].obj = request.obj
    <3>1. request.verb \notin {"apply", "manifest"}
      BY <1>1, <2>2, <2>4, RunningPlan DEF request
    <3>2. request.verb # "resize"
      BY <1>1, <1>3, RunningPlan
    <3>3. request.verb = "delete" => AliveAfter(plan[i].obj) = 0
      BY <2>4, <3>1, DoneAlive
    <3>4. request.verb # "delete" => UNCHANGED <<have, dying>>
      BY <3>1, <3>2 DEF Touch
    <3>5. QED
      BY <2>1, <3>3, <3>4 DEF Alive, AliveAfter
  <2>5. QED
    BY <2>3, <2>4
<1>4. QED
  BY <1>1, <1>2, <1>3

\* The same of what was written, by requests that did not fail.
LEMMA AppliedAfter ==
  ASSUME TypeOK, Existing, Running, InCall, Touch, UNCHANGED calls,
         Done \/ request.verb = "manifest",
         NEW i \in 1 .. pc,
         plan[i].verb = "apply" \/ (plan[i].verb = "manifest" /\ ~errors /\ Done),
         PromptGRM \/ plan[i].obj \notin ManagedResources
  PROVE  AliveAfter(plan[i].obj) = calls
<1>1. pc \in 1 .. Len(plan) /\ pc \in Nat
  BY DEF InCall, TypeOK
<1>2. CASE i = pc
  BY <1>2, DoneAlive DEF request
<1>3. CASE i \in 1 .. pc - 1
  <2>1. Alive(plan[i].obj) = calls
    BY <1>3 DEF InCall, Applied
  <2>2. plan[i].obj \in Writes(type, call.operation, call.in) /\ plan[i].obj \in Objects
    BY <1>1, <1>3, RunningPlan
  <2>3. CASE plan[i].obj # request.obj
    BY <2>1, <2>2, <2>3, Touched
  <2>4. CASE plan[i].obj = request.obj
    <3>1. request.verb # "delete"
      BY <1>1, <2>2, <2>4, RunningPlan DEF request
    <3>2. request.verb # "resize"
      BY <1>1, <1>3, RunningPlan
    <3>3. \/ UNCHANGED <<have, dying>>
          \/ have' = [have EXCEPT ![request.obj] = calls] /\ dying' = dying
      BY <3>1, <3>2 DEF Touch, Effect, Written
    <3>4. calls # 0 /\ have \in [Objects -> 0 .. MaxCalls]
      BY DEF InCall, TypeOK
    <3>5. QED
      BY <2>1, <2>2, <2>4, <3>3, <3>4 DEF Alive, AliveAfter
  <2>5. QED
    BY <2>3, <2>4
<1>4. QED
  BY <1>1, <1>2, <1>3

LEMMA DeletedGoes ==
  ASSUME TypeOK, Existing, Running, InCall, Touch, Goes
  PROVE  Deleted'
<1>1. plan' = plan /\ pc' - 1 = pc
  BY DEF plan, Goes, TypeOK
<1>2. QED
  BY <1>1, DeletedAfter DEF Deleted, Goes, Alive, AliveAfter

LEMMA AppliedGoes ==
  ASSUME TypeOK, Existing, Running, InCall, Touch, Goes
  PROVE  Applied'
<1>1. plan' = plan /\ pc' - 1 = pc /\ calls' = calls
  BY DEF plan, Goes, TypeOK
<1>2. SUFFICES ASSUME NEW i \in 1 .. pc,
                      plan[i].verb = "apply" \/ (plan[i].verb = "manifest" /\ ~errors'),
                      PromptGRM \/ plan[i].obj \notin ManagedResources
               PROVE  AliveAfter(plan[i].obj) = calls
  BY <1>1 DEF Applied, Alive, AliveAfter
<1>3. ~errors' => ~errors /\ Done
  BY DEF Goes
<1>4. QED
  BY <1>1, <1>2, <1>3, AppliedAfter DEF Goes

LEMMA InCallGoes ==
  ASSUME TypeOK, Existing, Running, InCall, Touch, Goes
  PROVE  InCall'
<1>1. /\ plan' = plan /\ pc \in 1 .. Len(plan) /\ pc \in Nat /\ Len(plan) \in Nat
      /\ pc' = pc + 1 /\ pc < Len(plan)
  BY RunningPlan DEF plan, Goes, InCall, TypeOK
<1>2. call'.operation \in Operations /\ calls' > 0 /\ pc' \in 1 .. Len(plan')
  BY <1>1 DEF Goes, InCall
<1>3. errors' => request'.verb \in {"manifest", "collect"}
  <2>1. request' = plan[pc + 1]
    BY <1>1 DEF request
  <2>2. request.verb = "manifest" => plan[pc + 1].verb \in {"manifest", "collect"}
    BY <1>1, RunningPlan DEF Ordered, request
  <2>3. errors' => request.verb = "manifest"
    BY DEF Goes, InCall, Done
  <2>4. QED
    BY <2>1, <2>2, <2>3
<1>4. Prompt'
  <2>1. CASE dying' = dying
    BY <2>1 DEF Goes, InCall, Prompt
  <2>2. CASE request.verb = "delete"
    <3>1. request.obj \in Deletes(type, call.operation, call.in)
      BY <1>1, <2>2, RunningPlan DEF request
    <3>2. dying' \subseteq dying \cup {request.obj}
      BY Touched DEF Goes
    <3>3. QED
      BY <3>1, <3>2 DEF Goes, InCall, Prompt
  <2>3. QED
    BY <2>1, <2>2, Touched DEF Goes
<1>5. QED
  BY <1>2, <1>3, <1>4, DeletedGoes, AppliedGoes DEF InCall

LEMMA SecretsStep ==
  ASSUME TypeOK, Existing, SecretsResolve, Running, InCall, Touch, UNCHANGED calls
  PROVE  SecretsResolve'
<1>1. /\ have \in [Objects -> 0 .. MaxCalls] /\ dying \subseteq ManagedResources
      /\ calls \in Nat /\ calls # 0 /\ MaxCalls \in Nat
      /\ pc \in 1 .. Len(plan) /\ pc \in Nat /\ Sequence(plan) /\ Ordered(plan)
      /\ Len(plan) \in Nat
  BY RunningPlan, ActuatorAssumption DEF TypeOK, InCall
<1>2. SUFFICES ASSUME NEW mr \in ManagedResources, have'[mr] # 0, mr \notin dying'
               PROVE  have'[SecretOf[mr]] # 0
  BY DEF SecretsResolve
<1>3. /\ SecretOf[mr] \in Secrets /\ SecretOf[mr] \notin ManagedResources
      /\ mr \in Objects /\ SecretOf[mr] \in Objects
      /\ \A other \in ManagedResources : SecretOf[other] = SecretOf[mr] => other = mr
  BY Resources, AllObjects DEF Secrets
<1>4. CASE UNCHANGED <<have, dying>>
  BY <1>2, <1>4 DEF SecretsResolve
<1>5. CASE request.verb \in {"apply", "manifest"} /\ Written(request.obj)
  <2>1. /\ dying' = dying
        /\ \A o \in Objects : have'[o] = IF o = request.obj THEN calls ELSE have[o]
    BY <1>1, <1>5 DEF Written
  <2>2. CASE request.obj = mr
    <3>1. /\ pc > 1 /\ plan[pc-1].verb = "apply" /\ plan[pc-1].obj = SecretOf[mr]
      BY <1>1, <1>5, <2>2 DEF Ordered, request
    <3>2. Alive(SecretOf[mr]) = calls
      BY <1>1, <1>3, <3>1 DEF InCall, Applied
    <3>3. have[SecretOf[mr]] # 0
      BY <1>1, <1>3, <3>2 DEF Alive
    <3>4. QED
      BY <1>1, <1>3, <2>1, <3>3
  <2>3. CASE request.obj # mr
    <3>1. have[SecretOf[mr]] # 0
      BY <1>2, <1>3, <2>1, <2>3 DEF SecretsResolve
    <3>2. QED
      BY <1>1, <1>3, <2>1, <3>1
  <2>4. QED
    BY <2>2, <2>3
<1>6. CASE request.verb = "delete" /\ Erased(request.obj)
  <2>1. /\ dying \subseteq dying'
        /\ \A o \in Objects : have'[o] = have[o] \/ (o = request.obj /\ have'[o] = 0)
    <3>1. \/ dying' = dying \cup {request.obj} /\ UNCHANGED have
          \/ dying' = dying /\ have' = [have EXCEPT ![request.obj] = 0]
      BY <1>6 DEF Erased
    <3>2. QED
      BY <1>1, <3>1
  <2>2. have[mr] # 0 /\ mr \notin dying
    BY <1>2, <1>3, <2>1
  <2>3. have[SecretOf[mr]] # 0
    BY <2>2 DEF SecretsResolve
  <2>4. request.obj # SecretOf[mr]
    <3>1. SUFFICES ASSUME request.obj = SecretOf[mr] PROVE FALSE
      OBVIOUS
    <3>2. /\ pc > 1 /\ plan[pc-1].verb = "delete" /\ plan[pc-1].obj \in ManagedResources
          /\ request.obj = SecretOf[plan[pc-1].obj]
      BY <1>1, <1>3, <1>6, <3>1 DEF Ordered, request
    <3>3. plan[pc-1].obj = mr
      BY <1>3, <3>1, <3>2
    <3>4. Alive(mr) = 0
      BY <1>1, <3>2, <3>3 DEF InCall, Deleted
    <3>5. QED
      BY <2>2, <3>4 DEF Alive
  <2>5. QED
    BY <1>3, <2>1, <2>3, <2>4
<1>7. CASE /\ request.verb = "resize" /\ UNCHANGED dying
           /\ have' = [have EXCEPT ![request.obj] = 0]
  <2>1. request.obj = "loki"
    BY <1>7, RunningPlan
  <2>2. mr # "loki" /\ SecretOf[mr] # "loki"
    BY <1>3, Resources DEF Secrets
  <2>3. have'[mr] = have[mr] /\ have'[SecretOf[mr]] = have[SecretOf[mr]]
    BY <1>1, <1>3, <1>7, <2>1, <2>2
  <2>4. QED
    BY <1>2, <1>7, <2>3 DEF SecretsResolve
<1>8. QED
  BY <1>4, <1>5, <1>6, <1>7 DEF Touch, Effect

LEMMA ExistingStep ==
  ASSUME TypeOK, Existing, Running, InCall, Touch, UNCHANGED <<type, calls>>
  PROVE  Existing'
<1>1. SUFFICES ASSUME NEW o \in Objects, have'[o] # 0
               PROVE  o \in Owned(type) /\ (o = "webhook-config" \/ have'[o] <= calls)
  BY DEF Existing
<1>2. CASE have'[o] = have[o]
  BY <1>1, <1>2 DEF Existing
<1>3. CASE have'[o] # have[o]
  <2>1. o = request.obj /\ have'[o] = calls /\ request.verb \in {"apply", "manifest"}
    BY <1>1, <1>3, Touched
  <2>2. o \in Owned(type)
    BY <2>1, RunningPlan DEF InCall, request
  <2>3. calls \in Nat
    BY ActuatorAssumption DEF TypeOK
  <2>4. QED
    BY <2>1, <2>2, <2>3
<1>4. QED
  BY <1>2, <1>3

\* The last request of a removal: everything that it deletes is gone.
LEMMA LeftoversEnd ==
  ASSUME TypeOK, Existing, Running, InCall, Touch, UNCHANGED <<type, calls>>,
         call.operation = "Delete", Done, pc >= Len(plan)
  PROVE  \A o \in Objects : AliveAfter(o) # 0
            => o \in {"webhook-config", "osc", "allow-to-loki", "loki-config-hash",
                     "telegraf-config-hash", "loki-hvpa", "fluent-bit-config-hash",
                     "fluent-bit-monitoring-config"}
<1>1. /\ type \in Types /\ call.in \in Inputs /\ pc \in 1 .. Len(plan) /\ pc \in Nat
      /\ Len(plan) \in Nat /\ Sequence(plan)
      /\ Named(plan, {"delete"}) = Deletes(type, "Delete", call.in)
      /\ Named(plan, {"apply", "manifest"}) = {}
  BY RunningPlan DEF TypeOK, InCall, Writes
<1>2. SUFFICES ASSUME NEW o \in Objects, AliveAfter(o) # 0
               PROVE  o \in Owned(type) \ Deletes(type, "Delete", call.in)
  BY <1>1, Leftovers
<1>3. o \in Owned(type)
  BY <1>2, ExistingStep DEF Existing, AliveAfter
<1>4. ASSUME o \in Deletes(type, "Delete", call.in) PROVE FALSE
  <2>1. PICK i \in 1 .. Len(plan) : plan[i].verb = "delete" /\ plan[i].obj = o
    BY <1>1, <1>4, NamedIs
  <2>2. i \in 1 .. pc
    BY <1>1
  <2>3. QED
    BY <1>2, <2>1, <2>2, DeletedAfter
<1>5. QED
  BY <1>3, <1>4

LEMMA IdleIs ==
  /\ NoInput \in Inputs
  /\ Idle \in [operation : Operations \cup {"none"}, in : Inputs]
  /\ Idle.operation = "none"
<1>1. NoInput \in Inputs
  BY ActuatorAssumption DEF NoInput
<1>2. QED
  BY <1>1 DEF Idle

LEMMA TypeOKStep ==
  ASSUME TypeOK, Existing, InCall, CallStep
  PROVE  TypeOK'
<1>1. /\ have' \in [Objects -> 0 .. MaxCalls]
      /\ dying' \subseteq ManagedResources /\ UNCHANGED target
  BY Touched DEF CallStep
<1>2. fails' \in 0 .. MaxFails
  BY ActuatorAssumption DEF CallStep
<1> DEFINE Calls == [operation : Operations \cup {"none"}, in : Inputs]
<1>3. call \in Calls /\ Idle \in Calls
  BY IdleIs DEF TypeOK
<1>4. last \in [call : Calls, ok : BOOLEAN] /\ pc \in Nat /\ errors \in BOOLEAN
  BY DEF TypeOK
<1> HIDE DEF Calls
<1>5. /\ pc' \in Nat /\ errors' \in BOOLEAN /\ call' \in Calls
      /\ last' \in [call : Calls, ok : BOOLEAN]
  <2>1. CASE UNCHANGED <<call, errors, last>> /\ pc' = pc + 1
    BY <1>3, <1>4, <2>1
  <2>2. ASSUME NEW ok \in BOOLEAN, End(ok)
        PROVE  /\ pc' \in Nat /\ errors' \in BOOLEAN /\ call' \in Calls
               /\ last' \in [call : Calls, ok : BOOLEAN]
    BY <1>3, <1>4, <2>2 DEF End
  <2>3. CASE UNCHANGED <<call, last>> /\ pc' = pc + 1 /\ errors' = TRUE
    BY <1>3, <1>4, <2>3
  <2>4. QED
    BY <2>1, <2>2, <2>3 DEF CallStep
<1>7. UNCHANGED <<type, calls>>
  BY DEF CallStep
<1>6. QED
  BY <1>1, <1>2, <1>5, <1>7 DEF TypeOK, Calls

\* A call goes on or ends.
LEMMA CallStepGoes ==
  ASSUME TypeOK, Running, InCall, CallStep
  PROVE  (Goes /\ UNCHANGED last) \/ End(TRUE) \/ End(FALSE)
<1>1. request.verb = "manifest" => pc < Len(plan)
  BY RunningPlan DEF InCall, Ordered, request
<1>2. QED
  BY <1>1 DEF CallStep, Goes

LEMMA CallStepInvariant ==
  ASSUME AInv, CallStep
  PROVE  AInv'
<1>1. Running /\ InCall /\ Touch /\ TypeOK /\ Existing /\ UNCHANGED <<type, calls>>
  BY DEF AInv, CallStep
<1>2. TypeOK'
  BY <1>1, TypeOKStep
<1>3. Existing' /\ SecretsResolve'
  BY <1>1, ExistingStep, SecretsStep DEF AInv
<1>4. Running' => InCall'
  <2>1. Goes => InCall'
    BY <1>1, InCallGoes
  <2>2. End(TRUE) \/ End(FALSE) => ~Running'
    BY DEF End, Running
  <2>3. QED
    BY <1>1, <2>1, <2>2, CallStepGoes
<1>5. OnlyKnownLeftovers'
  <2>1. CASE Goes
    BY <1>1, <2>1 DEF Goes, Running, OnlyKnownLeftovers
  <2>2. CASE End(FALSE)
    BY <2>2 DEF End, OnlyKnownLeftovers
  <2>3. CASE End(TRUE)
    <3>1. last'.call = call /\ call' # call
      BY <1>1, <2>3 DEF End, Running
    <3>2. Done /\ pc >= Len(plan)
      BY <2>3, <3>1 DEF CallStep, End
    <3>3. SUFFICES ASSUME call.operation = "Delete",
                          NEW o \in Objects, AliveAfter(o) # 0
                   PROVE  o \in {"webhook-config", "osc", "allow-to-loki", "loki-config-hash",
                                 "telegraf-config-hash", "loki-hvpa", "fluent-bit-config-hash",
                                 "fluent-bit-monitoring-config"}
      BY <3>1 DEF OnlyKnownLeftovers, Alive, AliveAfter
    <3>4. QED
      BY <1>1, <3>2, <3>3, LeftoversEnd
  <2>4. QED
    BY <1>1, <2>1, <2>2, <2>3, CallStepGoes
<1>6. QED
  BY <1>2, <1>3, <1>4, <1>5 DEF AInv

LEMMA StartInvariant ==
  ASSUME AInv, NEW operation \in Operations, NEW in \in Inputs, Start(operation, in)
  PROVE  AInv'
<1>1. /\ TypeOK /\ Existing /\ SecretsResolve
      /\ calls \in Nat /\ calls < MaxCalls /\ MaxCalls \in Nat /\ calls' = calls + 1
      /\ UNCHANGED <<type, have, dying, target, fails, last>>
      /\ call' = [operation |-> operation, in |-> in] /\ pc' = 1 /\ errors' = FALSE
  BY ActuatorAssumption DEF AInv, Start, TypeOK
<1>2. type \in Types /\ call'.operation = operation /\ call'.in = in
  BY <1>1 DEF TypeOK
<1>3. TypeOK'
  <2>1. calls' \in 0 .. MaxCalls
    BY <1>1
  <2>2. call' \in [operation : Operations \cup {"none"}, in : Inputs]
    BY <1>1
  <2>3. QED
    BY <1>1, <2>1, <2>2 DEF TypeOK
<1>4. Existing'
  <2>1. have \in [Objects -> 0 .. MaxCalls]
    BY <1>1 DEF TypeOK
  <2>2. QED
    BY <1>1, <2>1 DEF Existing
<1>5. SecretsResolve'
  BY <1>1 DEF SecretsResolve
<1>6. OnlyKnownLeftovers'
  <2>1. Running'
    BY <1>2, IdleIs DEF Running, Operations
  <2>2. QED
    BY <2>1 DEF OnlyKnownLeftovers
<1>7. plan' = Plans[<<type, operation, in>>]
  BY <1>1, <1>2 DEF plan
<1>8. Len(plan') \in Nat /\ Len(plan') > 0
  <2> DEFINE p == Plans[<<type, operation, in>>]
  <2>1. Piece(p, Writes(type, operation, in), Deletes(type, operation, in),
              Resizes(type, operation, in))
    BY <1>2, PlanPiece
  <2>2. \E o : o \in Writes(type, operation, in) \cup Deletes(type, operation, in)
    BY <1>2 DEF Writes, Deletes, Parts, Types, Operations
  <2> HIDE DEF p
  <2>3. Sequence(p) /\ Len(p) \in Nat
    BY <2>1, SequenceIs DEF Piece
  <2>4. \E i : i \in 1 .. Len(p)
    BY <2>1, <2>2, <2>3, NamedIs DEF Piece
  <2>5. QED
    BY <1>7, <2>3, <2>4 DEF p
<1>9. InCall'
  <2>1. call'.operation \in Operations /\ pc' \in 1 .. Len(plan') /\ calls' > 0 /\ ~errors'
    BY <1>1, <1>2, <1>8
  <2>2. Deleted' /\ Applied'
    BY <1>1 DEF Deleted, Applied
  <2>3. Prompt'
    BY <1>2 DEF Prompt, Start
  <2>4. QED
    BY <2>1, <2>2, <2>3 DEF InCall
<1>10. QED
  BY <1>3, <1>4, <1>5, <1>6, <1>9 DEF AInv

\* A step beside the calls, which sees the same objects.
LEMMA BesideInvariant ==
  ASSUME AInv, UNCHANGED <<type, call, pc, errors, calls, last>>, dying' \subseteq dying,
         \A o \in Objects : AliveAfter(o) = Alive(o)
  PROVE  (Running' => InCall') /\ OnlyKnownLeftovers'
<1>1. plan' = plan /\ request' = request /\ Running' = Running
  BY DEF plan, request, Running
<1>2. OnlyKnownLeftovers'
  BY <1>1 DEF AInv, OnlyKnownLeftovers, Alive, AliveAfter
<1>3. ASSUME Running PROVE InCall'
  <2>1. TypeOK /\ InCall /\ pc \in 1 .. Len(plan) /\ pc \in Nat /\ Len(plan) \in Nat
    BY <1>3, RunningPlan DEF AInv, InCall, TypeOK
  <2>2. \A i \in 1 .. pc - 1 : plan[i].verb \in {"apply", "manifest", "delete"}
                               => AliveAfter(plan[i].obj) = Alive(plan[i].obj)
    BY <1>3, <2>1, RunningPlan
  <2>3. Deleted'
    BY <1>1, <2>1, <2>2 DEF InCall, Deleted, Alive, AliveAfter
  <2>4. Applied'
    <3>1. SUFFICES ASSUME NEW i \in 1 .. pc - 1,
                          plan[i].verb = "apply" \/ (plan[i].verb = "manifest" /\ ~errors),
                          PromptGRM \/ plan[i].obj \notin ManagedResources
                   PROVE  AliveAfter(plan[i].obj) = calls
      BY <1>1 DEF Applied, Alive, AliveAfter
    <3>2. QED
      BY <2>1, <2>2, <3>1 DEF InCall, Applied
  <2>5. Prompt'
    BY <2>1 DEF InCall, Prompt
  <2>6. QED
    BY <1>1, <2>1, <2>3, <2>4, <2>5 DEF InCall
<1>4. QED
  BY <1>1, <1>2, <1>3

\* The resource manager changes nothing that a call looks at, except for the object
\* that it finalizes.
LEMMA GRMAlive ==
  ASSUME TypeOK, NEW mr \in ManagedResources, Sync(mr) \/ Finalize(mr)
  PROVE  /\ dying' \subseteq dying
         /\ \A o \in Objects : AliveAfter(o) = Alive(o)
         /\ \A o \in Objects : have'[o] = IF o = mr /\ mr \in dying THEN 0 ELSE have[o]
         /\ have' \in [Objects -> 0 .. MaxCalls]
<1>1. have \in [Objects -> 0 .. MaxCalls] /\ MaxCalls \in Nat
  BY ActuatorAssumption DEF TypeOK
<1>2. CASE Sync(mr)
  BY <1>1, <1>2 DEF Sync, Alive, AliveAfter
<1>3. CASE Finalize(mr)
  <2>1. /\ mr \in dying /\ dying' = dying \ {mr} /\ have' \in [Objects -> 0 .. MaxCalls]
        /\ \A o \in Objects : have'[o] = IF o = mr THEN 0 ELSE have[o]
    BY <1>1, <1>3, Except DEF Finalize
  <2>2. QED
    BY <2>1 DEF Alive, AliveAfter
<1>4. QED
  BY <1>2, <1>3

LEMMA GRMInvariant ==
  ASSUME AInv, NEW mr \in ManagedResources, Sync(mr) \/ Finalize(mr)
  PROVE  AInv'
<1>1. /\ TypeOK /\ Existing /\ SecretsResolve
      /\ UNCHANGED <<type, call, pc, errors, calls, fails, last>>
  BY DEF AInv, Sync, Finalize, caller
<1>2. /\ dying' \subseteq dying
      /\ \A o \in Objects : AliveAfter(o) = Alive(o)
      /\ \A o \in Objects : have'[o] = IF o = mr /\ mr \in dying THEN 0 ELSE have[o]
      /\ have' \in [Objects -> 0 .. MaxCalls]
  BY <1>1, GRMAlive
<1>3. /\ have \in [Objects -> 0 .. MaxCalls] /\ target \in [ManagedResources -> 0 .. MaxCalls]
      /\ \A r \in ManagedResources : r \in Objects /\ SecretOf[r] \in Objects
                                     /\ SecretOf[r] \notin ManagedResources
  BY <1>1, Resources, AllObjects DEF TypeOK, Secrets
<1>4. target' \in [ManagedResources -> 0 .. MaxCalls]
  <2>1. have[SecretOf[mr]] \in 0 .. MaxCalls /\ 0 \in 0 .. MaxCalls
    BY <1>3, ActuatorAssumption
  <2>2. CASE Sync(mr)
    BY <1>3, <2>1, <2>2, Except DEF Sync
  <2>3. CASE Finalize(mr)
    BY <1>3, <2>1, <2>3, Except DEF Finalize
  <2>4. QED
    BY <2>2, <2>3
<1>5. TypeOK'
  BY <1>1, <1>2, <1>4 DEF TypeOK
<1>6. Existing'
  <2>1. SUFFICES ASSUME NEW o \in Objects, have'[o] # 0
                 PROVE  o \in Owned(type) /\ (o = "webhook-config" \/ have'[o] <= calls)
    BY <1>1 DEF Existing
  <2>2. have'[o] = have[o]
    BY <1>2, <2>1
  <2>3. QED
    BY <1>1, <2>1, <2>2 DEF Existing
<1>7. SecretsResolve'
  <2>1. SUFFICES ASSUME NEW r \in ManagedResources, have'[r] # 0, r \notin dying'
                 PROVE  have'[SecretOf[r]] # 0
    BY DEF SecretsResolve
  <2>2. have[r] # 0 /\ r \notin dying
    <3>1. CASE Sync(mr)
      BY <1>2, <1>3, <2>1, <3>1 DEF Sync
    <3>2. CASE Finalize(mr)
      BY <1>2, <1>3, <2>1, <3>2 DEF Finalize
    <3>3. QED
      BY <3>1, <3>2
  <2>3. have[SecretOf[r]] # 0
    BY <1>1, <2>2 DEF SecretsResolve
  <2>4. QED
    BY <1>2, <1>3, <2>3
<1>8. QED
  BY <1>1, <1>2, <1>5, <1>6, <1>7, BesideInvariant DEF AInv

LEMMA InitInvariant == Init => AInv
<1> SUFFICES ASSUME Init PROVE AInv
  OBVIOUS
<1>1. TypeOK
  <2>1. have \in [Objects -> 0 .. MaxCalls]
    BY ActuatorAssumption DEF Init
  <2>2. target \in [ManagedResources -> 0 .. MaxCalls] /\ calls \in 0 .. MaxCalls
        /\ fails \in 0 .. MaxFails
    BY ActuatorAssumption DEF Init
  <2>3. QED
    BY <2>1, <2>2, IdleIs DEF Init, TypeOK
<1>2. \A o \in Objects : have[o] # 0 => o = "webhook-config"
  BY DEF Init
<1>3. Existing
  BY <1>2 DEF Existing, Owned
<1>4. ~Running
  BY DEF Init, Running
<1>5. SecretsResolve
  <2>1. \A mr \in ManagedResources : mr \in Objects /\ mr # "webhook-config"
    BY Resources, AllObjects
  <2>2. QED
    BY <1>2, <2>1 DEF SecretsResolve
<1>6. OnlyKnownLeftovers
  BY IdleIs DEF Init, OnlyKnownLeftovers
<1>7. QED
  BY <1>1, <1>3, <1>4, <1>5, <1>6 DEF AInv

LEMMA UnchangedInvariant == AInv /\ UNCHANGED vars => AInv'
<1> SUFFICES ASSUME AInv, UNCHANGED vars PROVE AInv'
  OBVIOUS
<1>1. (Running' => InCall') /\ OnlyKnownLeftovers'
  BY BesideInvariant DEF vars, Alive, AliveAfter
<1>2. TypeOK'
  BY DEF AInv, vars, TypeOK
<1>3. Existing'
  BY DEF AInv, vars, Existing
<1>4. SecretsResolve'
  BY DEF AInv, vars, SecretsResolve
<1>5. QED
  BY <1>1, <1>2, <1>3, <1>4 DEF AInv

LEMMA NextInvariant == AInv /\ [Next]_vars => AInv'
<1> SUFFICES ASSUME AInv, [Next]_vars PROVE AInv'
  OBVIOUS
<1>1. ASSUME NEW operation \in Operations, NEW in \in Inputs, Start(operation, in)
      PROVE  AInv'
  BY <1>1, StartInvariant
<1>2. ASSUME Step \/ CallFails \/ ManifestFails
      PROVE  AInv'
  BY <1>2, StepIsCallStep, CallStepInvariant DEF AInv
<1>3. ASSUME GRM
      PROVE  AInv'
  BY <1>3, GRMInvariant DEF GRM
<1>4. ASSUME UNCHANGED vars
      PROVE  AInv'
  BY <1>4, UnchangedInvariant
<1>5. QED
  BY <1>1, <1>2, <1>3, <1>4 DEF Next

LEMMA Invariant == Spec => []AInv
<1>1. QED
  BY InitInvariant, NextInvariant, PTL DEF Spec

----------------------------------------------------------------------------
(* The theorems. *)

\* The API server only ever holds objects of the plans, each with the number of a call,
\* and only ManagedResources are ever seen as being deleted.
THEOREM ActuatorTypes == Spec => []TypeOK
<1>1. AInv => TypeOK
  BY DEF AInv
<1>2. QED
  BY <1>1, Invariant, PTL

\* Wherever a call ends, by a failed request, an expired wait or a crash, and whatever
\* was asked before, the resource manager finds the secret of every ManagedResource
\* that is not being deleted.
THEOREM SecretsAlwaysResolve == Spec => []SecretsResolve
<1>1. AInv => SecretsResolve
  BY DEF AInv
<1>2. QED
  BY <1>1, Invariant, PTL

\* A removal that reports success leaves, of everything that any earlier call wrote,
\* only the objects listed in OnlyKnownLeftovers.
THEOREM RemovalLeavesTheKnown == Spec => []OnlyKnownLeftovers
<1>1. AInv => OnlyKnownLeftovers
  BY DEF AInv
<1>2. QED
  BY <1>1, Invariant, PTL
===============

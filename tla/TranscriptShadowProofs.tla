------------------------ MODULE TranscriptShadowProofs ------------------------
(***************************************************************************)
(* Proofs about TranscriptShadow, for any set of conversations, any caps   *)
(* of the lanes and of the dirty set, and any number of mutations,         *)
(* failures and exits: the types, that a quiet conversation has an exact   *)
(* copy, that no message is sent twice, and that the copies only ever      *)
(* follow their files (TranscriptMirror).                                  *)
(*                                                                         *)
(* The invariant is one formula per conversation, stated of values:        *)
(*   c    the conversation          lg   the documents its file has been   *)
(*   sh   the version its copy shows            rm   the copy              *)
(*   ln   its lane                  sd   the operation on the wire         *)
(*   L    the lost conversations    D    the dirty ones                    *)
(*   T    the operations given up that are on their way                    *)
(*   m    the mutations so far          fl   the file                      *)
(***************************************************************************)
EXTENDS TranscriptShadow, WellFoundedInduction, TLAPS

-----------------------------------------------------------------------------
(* The types.                                                              *)

Roles == {"user", "assistant", "summary"}
MessageType == [turn : Nat, role : Roles]
DocType == [exists : BOOLEAN, msgs : Seq(MessageType), title : Nat]
OpType == [kind : Kinds, turn : Nat, title : Nat, count : Nat,
           doc : DocType, at : Nat, torn : BOOLEAN]
LaneType == [pending : Seq(OpType), repair : BOOLEAN, draining : BOOLEAN]

-----------------------------------------------------------------------------
(* The invariant.                                                          *)

\* A document: what is not there is empty, and no turn is yet to come.
DocOK(d, m) ==
  /\ d \in DocType
  /\ d.msgs # <<>> => d.exists
  /\ \A i \in 1..Len(d.msgs) : d.msgs[i].turn <= m

\* The documents of a file the shadow was told of or has read.
FileOK(lg, m) ==
  /\ lg \in Seq(DocType)
  /\ lg # <<>>
  /\ \A v \in 1..Len(lg) : DocOK(lg[v], m)

\* An operation takes the version before it to its own, unless it is torn; a
\* message it carries is in that version and in none before.
OpOK(lg, op) ==
  /\ op \in OpType
  /\ op.kind # "none"
  /\ op.at \in 1..Len(lg)
  /\ op.kind \in Whole => op.doc = lg[op.at]
  /\ op.kind \notin Whole /\ ~ op.torn =>
       /\ op.at > 1
       /\ Accepts(lg[op.at - 1], op)
       /\ Applied(lg[op.at - 1], op) = lg[op.at]
  /\ op.kind \in {"user", "assistant"} =>
       /\ Has(lg[op.at], Message(op.turn, op.kind))
       /\ \A w \in 1..op.at - 1 : ~ Has(lg[w], Message(op.turn, op.kind))

\* What waits in a lane is what it says, up to the file as it is now.
Deltas(ln) == ~ ln.repair /\ (ln.pending = <<>> \/ ln.pending[1].kind # "delete")

LaneOK(lg, ln, sd) ==
  /\ ln \in LaneType
  /\ ln.repair => ln.pending = <<>>
  /\ Len(ln.pending) <= MAX_PENDING_OPERATIONS
  /\ Len(ln.pending) < Len(lg)
  /\ \A i \in 1..Len(ln.pending) :
       /\ OpOK(lg, ln.pending[i])
       /\ ln.pending[i].kind # "repair"
       /\ ln.pending[i].at = Len(lg) - Len(ln.pending) + i
  /\ ~ ln.draining => ~ Waiting(ln) /\ sd = NoOp

\* What is on the wire lies before what waits, and right before it unless
\* that replaces the whole document.
SendOK(lg, ln, sd) ==
  sd # NoOp =>
    /\ OpOK(lg, sd)
    /\ sd.at <= Len(lg) - Len(ln.pending)
    /\ Deltas(ln) => sd.at = Len(lg) - Len(ln.pending)

\* The version up to which something may have reached the remote by now, the
\* operation on the wire excepted when it is a delta.
Behind(lg, ln, sd) ==
  IF sd = NoOp THEN Len(lg) - Len(ln.pending)
  ELSE IF sd.kind \in Whole THEN sd.at ELSE sd.at - 1

\* The copy: a version of the file unless the conversation is lost, and in no
\* case a message of a version later than b.
CopyOK(c, lg, sh, rm, b, L) ==
  /\ b <= Len(lg)
  /\ sh \in 1..b
  /\ rm \in DocType
  /\ \A i \in 1..Len(rm.msgs) : \E w \in 1..b : Has(lg[w], rm.msgs[i])
  /\ c \notin L => rm = lg[sh]

\* A dirty conversation sends whole documents only; one that is neither dirty
\* nor lost has a copy of the version before the delta to come.
ExactOK(c, sh, b, ln, sd, L, D) ==
  /\ c \in D => sd = NoOp \/ sd.kind \in Whole
  /\ c \notin L /\ c \notin D /\ sd.kind \notin Whole /\ (sd = NoOp => Deltas(ln))
       => sh = b

\* What was given up and may still land: it is in the copy, or the copy is
\* marked and it is the one delta the copy lacks, or a whole document.
LateOK(c, lg, sh, b, L, D, T) ==
  \A op \in T :
    /\ OpOK(lg, op)
    /\ op.at <= b
    /\ c \notin L => \/ op.at <= sh
                     \/ c \in D /\ (op.kind \in Whole \/ op.at = sh + 1)

ConvOK(c, lg, sh, rm, ln, sd, L, D, T, m) ==
  /\ FileOK(lg, m)
  /\ LaneOK(lg, ln, sd)
  /\ SendOK(lg, ln, sd)
  /\ CopyOK(c, lg, sh, rm, Behind(lg, ln, sd), L)
  /\ ExactOK(c, sh, Behind(lg, ln, sd), ln, sd, L, D)
  /\ LateOK(c, lg, sh, Behind(lg, ln, sd), L, D, T)

\* The dirty conversations, and the late operations of one.
Dirty == {x \in Conversations : IsDirty(dirty, x)}
LateOf(c) == {l[2] : l \in {k \in late : k[1] = c}}

DirtyOK ==
  /\ dirty \in Seq(Conversations)
  /\ Len(dirty) <= MAX_DIRTY_CONVERSATIONS
  /\ \A i, j \in 1..Len(dirty) : dirty[i] = dirty[j] => i = j

Shapes ==
  /\ log = [c \in Conversations |-> log[c]]
  /\ shown = [c \in Conversations |-> shown[c]]
  /\ file = [c \in Conversations |-> file[c]]
  /\ remote = [c \in Conversations |-> remote[c]]
  /\ lane = [c \in Conversations |-> lane[c]]
  /\ sending = [c \in Conversations |-> sending[c]]
  /\ lost \subseteq Conversations
  /\ \A given \in late : given[1] \in Conversations
  /\ mutations \in 0..MaxMutations
  /\ process \in {"up", "stopping", "flushed", "cut"}

ShadowInv ==
  /\ \A c \in Conversations :
       ConvOK(c, log[c], shown[c], remote[c], lane[c], sending[c], lost, Dirty,
              LateOf(c), mutations)
  /\ \A c \in Conversations : DocOK(file[c], mutations)
  /\ DirtyOK
  /\ Shapes

-----------------------------------------------------------------------------
(* Documents.                                                              *)

\* A set of numbers that is not empty has a least element.
LEMMA LeastOf ==
  ASSUME NEW S \in SUBSET Nat, S # {}
  PROVE  \E x \in S : \A y \in S : x <= y
<1> DEFINE Less == OpToRel(<, Nat)
<1>1. \A x, y \in Nat : y < x => <<y, x>> \in Less
  BY DEF OpToRel
<1>2. PICK x \in S : \A y \in S : <<y, x>> \notin Less
  <2> HIDE DEF Less
  <2>1. IsWellFoundedOn(Less, Nat)
    BY NatLessThanWellFounded DEF Less
  <2> QED BY <2>1, WFMin
<1> HIDE DEF Less
<1>3. ASSUME NEW y \in S PROVE x <= y
  <2>1. x \in Nat /\ y \in Nat /\ ~ (y < x)
    BY <1>1, <1>2
  <2> QED BY <2>1
<1> QED BY <1>3

\* A bounded one has a greatest.
LEMMA GreatestOf ==
  ASSUME NEW n \in Nat, NEW S \in SUBSET (0..n), S # {}
  PROVE  \E x \in S : \A y \in S : y <= x
<1> DEFINE R == {n - y : y \in S}
<1>1. R \in SUBSET Nat /\ R # {}
  <2>1. \A y \in S : n - y \in Nat
    OBVIOUS
  <2> QED BY <2>1
<1>2. PICK r \in R : \A q \in R : r <= q
  <2> HIDE DEF R
  <2> QED BY <1>1, LeastOf
<1>3. PICK x \in S : r = n - x
  OBVIOUS
<1>4. \A y \in S : n - x <= n - y
  BY <1>2, <1>3
<1> QED BY <1>4

\* CutAt keeps what stands before the first message of the turn.
LEMMA CutIs ==
  ASSUME NEW d \in DocType, NEW t \in Nat
  PROVE  \E n \in 0..Len(d.msgs) :
           /\ CutAt(d, t) = [d EXCEPT !.msgs = SubSeq(@, 1, n)]
           /\ \A j \in 1..n : d.msgs[j].turn # t
           /\ n < Len(d.msgs) => d.msgs[n + 1].turn = t
<1> DEFINE N == Len(d.msgs)
           before == {i \in 0..N : \A j \in 1..i : d.msgs[j].turn # t}
           n == CHOOSE i \in before : \A k \in before : k <= i
<1>1. N \in Nat
  BY DEF DocType
<1>2. CutAt(d, t) = [d EXCEPT !.msgs = SubSeq(@, 1, n)]
  BY DEF CutAt
<1>3. 0 \in before
  BY <1>1
<1>4. n \in before /\ \A k \in before : k <= n
  <2>1. before \in SUBSET (0..N) /\ before # {}
    BY <1>3
  <2> HIDE DEF before, N
  <2>2. \E x \in before : \A y \in before : y <= x
    BY <1>1, <2>1, GreatestOf
  <2> QED BY <2>2
<1>5. n + 1 \notin before
  <2> HIDE DEF before, n, N
  <2>1. n \in Nat
    BY <1>1, <1>4 DEF before
  <2> QED BY <1>4, <2>1
<1>6. ASSUME n < N PROVE d.msgs[n + 1].turn = t
  <2> HIDE DEF n, N
  <2>1. n \in 0..N /\ \A j \in 1..n : d.msgs[j].turn # t
    BY <1>4
  <2>2. n + 1 \in 0..N
    BY <1>1, <1>6, <2>1
  <2>3. PICK j \in 1..n + 1 : d.msgs[j].turn = t
    BY <1>5, <2>2
  <2>4. j = n + 1
    BY <1>1, <2>1, <2>2, <2>3
  <2> QED BY <2>3, <2>4
<1> HIDE DEF n
<1> QED BY <1>2, <1>4, <1>6

\* A prefix of a document.
LEMMA PrefixIs ==
  ASSUME NEW d \in DocType, NEW n \in 0..Len(d.msgs), NEW e,
         e = [d EXCEPT !.msgs = SubSeq(@, 1, n)]
  PROVE  /\ e \in DocType
         /\ e.exists = d.exists /\ e.title = d.title
         /\ Len(e.msgs) = n
         /\ \A i \in 1..n : e.msgs[i] = d.msgs[i]
<1>1. d.msgs \in Seq(MessageType) /\ d.exists \in BOOLEAN /\ d.title \in Nat
      /\ d = [exists |-> d.exists, msgs |-> d.msgs, title |-> d.title]
  BY DEF DocType
<1>2. SubSeq(d.msgs, 1, n) \in Seq(MessageType)
      /\ Len(SubSeq(d.msgs, 1, n)) = n
      /\ \A i \in 1..n : SubSeq(d.msgs, 1, n)[i] = d.msgs[i]
  BY <1>1
<1>3. e = [exists |-> d.exists, msgs |-> SubSeq(d.msgs, 1, n), title |-> d.title]
  BY <1>1
<1> QED BY <1>1, <1>2, <1>3 DEF DocType

\* A document with one more message.
LEMMA WithMessageIs ==
  ASSUME NEW d \in DocType, NEW x \in MessageType
  PROVE  /\ WithMessage(d, x) \in DocType
         /\ WithMessage(d, x).exists = d.exists
         /\ WithMessage(d, x).title = d.title
         /\ Len(WithMessage(d, x).msgs) = Len(d.msgs) + 1
         /\ \A i \in 1..Len(d.msgs) : WithMessage(d, x).msgs[i] = d.msgs[i]
         /\ WithMessage(d, x).msgs[Len(d.msgs) + 1] = x
<1>1. d.msgs \in Seq(MessageType) /\ d.exists \in BOOLEAN /\ d.title \in Nat
      /\ d = [exists |-> d.exists, msgs |-> d.msgs, title |-> d.title]
  BY DEF DocType
<1>2. Append(d.msgs, x) \in Seq(MessageType)
      /\ Len(Append(d.msgs, x)) = Len(d.msgs) + 1
      /\ \A i \in 1..Len(d.msgs) : Append(d.msgs, x)[i] = d.msgs[i]
      /\ Append(d.msgs, x)[Len(d.msgs) + 1] = x
  BY <1>1
<1>3. WithMessage(d, x)
        = [exists |-> d.exists, msgs |-> Append(d.msgs, x), title |-> d.title]
  BY <1>1 DEF WithMessage
<1> QED BY <1>1, <1>2, <1>3 DEF DocType

\* Who has a message, after one more.
LEMMA WithMessageHas ==
  ASSUME NEW d \in DocType, NEW x \in MessageType, NEW y
  PROVE  Has(WithMessage(d, x), y) <=> Has(d, y) \/ y = x
<1> DEFINE e == WithMessage(d, x)
<1>1. /\ Len(e.msgs) = Len(d.msgs) + 1
      /\ \A i \in 1..Len(d.msgs) : e.msgs[i] = d.msgs[i]
      /\ e.msgs[Len(d.msgs) + 1] = x
      /\ Len(d.msgs) \in Nat
  <2>1. Len(d.msgs) \in Nat
    BY DEF DocType
  <2>2. /\ Len(e.msgs) = Len(d.msgs) + 1
        /\ \A i \in 1..Len(d.msgs) : e.msgs[i] = d.msgs[i]
        /\ e.msgs[Len(d.msgs) + 1] = x
    BY WithMessageIs, Zenon
  <2> QED BY <2>1, <2>2
<1> HIDE DEF e
<1>2. \A i \in 1..Len(e.msgs) : i \in 1..Len(d.msgs) \/ i = Len(d.msgs) + 1
  BY <1>1
<1>3. \A i \in 1..Len(d.msgs) : i \in 1..Len(e.msgs)
  BY <1>1
<1>4. Len(d.msgs) + 1 \in 1..Len(e.msgs)
  BY <1>1
<1>5. Has(e, y) <=> Has(d, y) \/ y = x
  BY <1>1, <1>2, <1>3, <1>4 DEF Has
<1> QED BY <1>5 DEF e

\* A message of a given turn and role is a message.
LEMMA MessageIs ==
  ASSUME NEW t \in Nat, NEW role \in Roles
  PROVE  /\ Message(t, role) \in MessageType
         /\ Message(t, role).turn = t /\ Message(t, role).role = role
         /\ \A x \in MessageType : x.turn = t /\ x.role = role => x = Message(t, role)
BY DEF Message, MessageType

\* What a well-formed document says of one message.
LEMMA DocSays ==
  ASSUME NEW m \in Nat, NEW d, DocOK(d, m)
  PROVE  /\ d \in DocType /\ Len(d.msgs) \in Nat
         /\ \A i \in 1..Len(d.msgs) : d.msgs[i] \in MessageType
         /\ \A x : Has(d, x) => x \in MessageType /\ x.turn <= m
<1>1. d \in DocType /\ Len(d.msgs) \in Nat
      /\ \A i \in 1..Len(d.msgs) : d.msgs[i] \in MessageType
  BY DEF DocOK, DocType
<1>2. \A x : Has(d, x) => x \in MessageType /\ x.turn <= m
  BY <1>1 DEF DocOK, Has
<1> QED BY <1>1, <1>2

\* A later bound is a weaker one.
LEMMA DocWeaker ==
  ASSUME NEW m \in Nat, NEW n \in Nat, m <= n, NEW d, DocOK(d, m)
  PROVE  DocOK(d, n)
<1>1. \A i \in 1..Len(d.msgs) : d.msgs[i].turn \in Nat
  BY DocSays DEF MessageType
<1> QED BY <1>1 DEF DocOK

\* One more message, of a turn that is not to come.
LEMMA LongerDoc ==
  ASSUME NEW m \in Nat, NEW d, DocOK(d, m), d.exists, NEW x \in MessageType,
         x.turn <= m
  PROVE  /\ DocOK(WithMessage(d, x), m)
         /\ Has(WithMessage(d, x), x)
<1> DEFINE e == WithMessage(d, x)
           n == Len(d.msgs)
<1>1. /\ d \in DocType /\ n \in Nat
      /\ \A i \in 1..n : d.msgs[i].turn <= m
  BY DocSays DEF DocOK
<1>2. /\ e \in DocType /\ e.exists = d.exists
      /\ Len(e.msgs) = n + 1
      /\ \A i \in 1..n : e.msgs[i] = d.msgs[i]
      /\ e.msgs[n + 1] = x
  BY <1>1, WithMessageIs
<1>3. Has(e, x)
  BY <1>1, WithMessageHas
<1> HIDE DEF e, n
<1>4. \A i \in 1..n + 1 : i \in 1..n \/ i = n + 1
  BY <1>1
<1>5. \A i \in 1..Len(e.msgs) : e.msgs[i].turn <= m
  BY <1>1, <1>2, <1>4
<1>6. DocOK(e, m)
  BY <1>2, <1>5 DEF DocOK
<1> QED BY <1>3, <1>6 DEF e

\* A message of the user with a new turn.
LEMMA UserDoc ==
  ASSUME NEW m \in Nat, NEW d, DocOK(d, m), NEW t \in Nat, m <= t,
         NEW title \in Nat
  PROVE  /\ DocOK(UserAdded(d, t, title), t)
         /\ Has(UserAdded(d, t, title), Message(t, "user"))
<1> DEFINE x == Message(t, "user")
           b == [exists |-> TRUE, msgs |-> d.msgs,
                 title |-> IF d.exists THEN d.title ELSE title]
<1>1. x \in MessageType /\ x.turn <= t
  BY MessageIs DEF Roles
<1>2. DocOK(d, t)
  BY DocWeaker
<1>3. b \in DocType /\ b.msgs = d.msgs /\ b.exists
  BY <1>2 DEF DocOK, DocType
<1>4. UserAdded(d, t, title) = WithMessage(b, x)
  BY DEF UserAdded
<1> HIDE DEF b, x
<1>5. DocOK(b, t)
  BY <1>2, <1>3 DEF DocOK
<1>6. DocOK(WithMessage(b, x), t) /\ Has(WithMessage(b, x), x)
  BY <1>1, <1>3, <1>5, LongerDoc
<1> QED BY <1>4, <1>6 DEF x

\* A checkpoint that a turn claims.
LEMMA StampedDoc ==
  ASSUME NEW m \in Nat, NEW d, DocOK(d, m), NEW t \in Nat, t <= m,
         NEW k \in 1..Len(d.msgs)
  PROVE  /\ DocOK(Stamped(d, k, t), m)
         /\ Stamped(d, k, t).exists
         /\ Has(Stamped(d, k, t), Message(t, "assistant"))
<1> DEFINE x == Message(t, "assistant")
           e == Stamped(d, k, t)
<1>1. /\ d \in DocType /\ d.msgs \in Seq(MessageType) /\ d.exists \in BOOLEAN
      /\ d.title \in Nat
      /\ d = [exists |-> d.exists, msgs |-> d.msgs, title |-> d.title]
      /\ x \in MessageType /\ x.turn = t
      /\ \A i \in 1..Len(d.msgs) : d.msgs[i].turn <= m
  BY MessageIs DEF DocOK, DocType, Roles
<1>2. PICK q : q = [d.msgs EXCEPT ![k] = x]
  OBVIOUS
<1>3. /\ q \in Seq(MessageType) /\ Len(q) = Len(d.msgs) /\ q[k] = x
      /\ \A i \in 1..Len(q) : q[i] = x \/ q[i] = d.msgs[i]
  <2> HIDE DEF x
  <2> QED BY <1>1, <1>2
<1>4. e = [exists |-> d.exists, msgs |-> q, title |-> d.title]
  <2>1. e = [d EXCEPT !.msgs = q]
    BY <1>2, Zenon DEF Stamped
  <2>2. \A r, a, b, f, v : r = [exists |-> a, msgs |-> b, title |-> f] =>
          [r EXCEPT !.msgs = v] = [exists |-> a, msgs |-> v, title |-> f]
    OBVIOUS
  <2>3. PICK a, b, f : a = d.exists /\ b = d.msgs /\ f = d.title
    OBVIOUS
  <2>4. d = [exists |-> a, msgs |-> b, title |-> f]
    BY <1>1, <2>3
  <2>5. [d EXCEPT !.msgs = q] = [exists |-> a, msgs |-> q, title |-> f]
    BY <2>2, <2>4
  <2> QED BY <2>1, <2>3, <2>5
<1> HIDE DEF e, x
<1>5. e \in DocType /\ e.msgs = q /\ e.exists = d.exists
  BY <1>1, <1>3, <1>4 DEF DocType
<1>6. d.exists
  BY <1>1 DEF DocOK
<1>7. DocOK(e, m) /\ Has(e, x)
  BY <1>1, <1>3, <1>5, <1>6 DEF DocOK, Has
<1> QED BY <1>5, <1>6, <1>7 DEF e, x

\* Another title, and no document at all.
LEMMA RenamedDoc ==
  ASSUME NEW m \in Nat, NEW d, DocOK(d, m), NEW title \in Nat
  PROVE  DocOK([d EXCEPT !.title = title], m)
<1> DEFINE e == [d EXCEPT !.title = title]
<1>1. /\ e \in DocType
      /\ e.msgs = d.msgs /\ e.exists = d.exists
  BY DEF DocOK, DocType
<1> HIDE DEF e
<1>2. DocOK(e, m)
  BY <1>1 DEF DocOK
<1> QED BY <1>2 DEF e

LEMMA AbsentDoc ==
  ASSUME NEW m \in Nat
  PROVE  DocOK(NoDoc, m) /\ NoDoc \in DocType
<1>1. NoDoc.msgs = <<>> /\ Len(NoDoc.msgs) = 0
  BY DEF NoDoc
<1>2. NoDoc \in DocType
  BY DEF NoDoc, DocType
<1> QED BY <1>1, <1>2 DEF DocOK

\* A document cut at the first message of a turn.
LEMMA CutDoc ==
  ASSUME NEW m \in Nat, NEW d, DocOK(d, m), NEW t \in Nat
  PROVE  DocOK(CutAt(d, t), m)
<1> DEFINE e == CutAt(d, t)
<1>1. d \in DocType /\ Len(d.msgs) \in Nat
  BY DocSays
<1>2. PICK n \in 0..Len(d.msgs) : e = [d EXCEPT !.msgs = SubSeq(@, 1, n)]
  BY <1>1, CutIs
<1>3. /\ e \in DocType /\ e.exists = d.exists
      /\ Len(e.msgs) = n
      /\ \A i \in 1..n : e.msgs[i] = d.msgs[i]
  BY <1>1, <1>2, PrefixIs
<1> HIDE DEF e
<1>4. n \in Nat /\ \A i \in 1..n : i \in 1..Len(d.msgs)
  BY <1>1
<1>5. e.msgs # <<>> => d.msgs # <<>>
  BY <1>1, <1>3, <1>4 DEF DocType
<1>6. DocOK(e, m)
  BY <1>3, <1>4, <1>5 DEF DocOK
<1> QED BY <1>6 DEF e

-----------------------------------------------------------------------------
(* Operations and the versions of a file.                                  *)

\* What each kind of operation asks of a document, and does to it.
LEMMA KindsDo ==
  ASSUME NEW d, NEW op, op.kind \in Kinds
  PROVE  /\ op.kind = "user" =>
              /\ Accepts(d, op) <=> Has(d, Message(op.turn, "user"))
                                    \/ Len(d.msgs) = op.count
              /\ Applied(d, op) = IF Has(d, Message(op.turn, "user")) THEN d
                                  ELSE UserAdded(d, op.turn, op.title)
         /\ op.kind = "assistant" =>
              /\ Accepts(d, op) <=> d.exists
              /\ Applied(d, op) =
                   IF Has(d, Message(op.turn, "assistant")) THEN d
                   ELSE WithMessage(d, Message(op.turn, "assistant"))
         /\ op.kind = "truncate" =>
              /\ Accepts(d, op) <=> \E i \in 1..Len(d.msgs) : d.msgs[i].turn = op.turn
              /\ Applied(d, op) = CutAt(d, op.turn)
         /\ op.kind = "rename" =>
              /\ Accepts(d, op) <=> d.exists
              /\ Applied(d, op) = [d EXCEPT !.title = op.title]
         /\ op.kind \in Whole => Accepts(d, op) /\ Applied(d, op) = op.doc
<1>1. CASE op.kind = "user"
  BY <1>1 DEF Accepts, Applied, Whole
<1>2. CASE op.kind = "assistant"
  BY <1>2 DEF Accepts, Applied, Whole
<1>3. CASE op.kind = "truncate"
  BY <1>3 DEF Accepts, Applied, Whole
<1>4. CASE op.kind = "rename"
  BY <1>4 DEF Accepts, Applied, Whole
<1>5. CASE op.kind \in {"none", "delete", "repair"}
  BY <1>5 DEF Accepts, Applied, Whole
<1> QED BY <1>1, <1>2, <1>3, <1>4, <1>5 DEF Kinds

\* The versions of a file, and one more.
LEMMA LogGrows ==
  ASSUME NEW lg \in Seq(DocType), NEW doc \in DocType
  PROVE  /\ Append(lg, doc) \in Seq(DocType)
         /\ Len(lg) \in Nat
         /\ Len(Append(lg, doc)) = Len(lg) + 1
         /\ \A v \in 1..Len(lg) : Append(lg, doc)[v] = lg[v]
         /\ Append(lg, doc)[Len(lg) + 1] = doc
OBVIOUS

\* The file becomes a further document.
LEMMA FileGrows ==
  ASSUME NEW m \in Nat, NEW n \in Nat, m <= n, NEW lg, FileOK(lg, m),
         NEW doc, DocOK(doc, n)
  PROVE  FileOK(Append(lg, doc), n)
<1>1. lg \in Seq(DocType) /\ doc \in DocType
  BY DEF FileOK, DocOK
<1> DEFINE l == Append(lg, doc)
           k == Len(lg)
<1>2. /\ l \in Seq(DocType) /\ k \in Nat /\ Len(l) = k + 1
      /\ \A v \in 1..k : l[v] = lg[v]
      /\ l[k + 1] = doc
  BY <1>1, LogGrows
<1>3. \A v \in 1..k : DocOK(lg[v], n)
  BY DocWeaker DEF FileOK
<1> HIDE DEF l
<1>4. \A v \in 1..Len(l) : DocOK(l[v], n)
  BY <1>2, <1>3
<1>5. l # <<>>
  BY <1>2
<1>6. FileOK(l, n)
  BY <1>2, <1>4, <1>5 DEF FileOK
<1> QED BY <1>6 DEF l

\* An operation stays what it is when the file goes on.
LEMMA OpStays ==
  ASSUME NEW lg \in Seq(DocType), NEW doc \in DocType, NEW op, OpOK(lg, op)
  PROVE  OpOK(Append(lg, doc), op)
<1> DEFINE l == Append(lg, doc)
<1>1. /\ Len(lg) \in Nat /\ Len(l) = Len(lg) + 1
      /\ \A v \in 1..Len(lg) : l[v] = lg[v]
  BY LogGrows
<1> HIDE DEF l
<1>2. op.at \in Nat /\ op.at \in 1..Len(lg) /\ op.at \in 1..Len(l)
  BY <1>1 DEF OpOK
<1>3. l[op.at] = lg[op.at]
  BY <1>1, <1>2
<1>4. \A w \in 1..op.at - 1 : l[w] = lg[w]
  BY <1>1, <1>2
<1>5. op.at > 1 => l[op.at - 1] = lg[op.at - 1]
  BY <1>2, <1>4
<1>6. OpOK(l, op)
  BY <1>2, <1>3, <1>4, <1>5 DEF OpOK
<1> QED BY <1>6 DEF l

\* What an operation puts into a document comes from its own version.
LEMMA AppliedIs ==
  ASSUME NEW lg \in Seq(DocType), NEW op, OpOK(lg, op), NEW d \in DocType
  PROVE  /\ Applied(d, op) \in DocType
         /\ \A i \in 1..Len(Applied(d, op).msgs) :
              Has(d, Applied(d, op).msgs[i]) \/ Has(lg[op.at], Applied(d, op).msgs[i])
<1>1. op \in OpType /\ op.kind \in Kinds /\ op.turn \in Nat /\ op.title \in Nat
      /\ op.doc \in DocType /\ op.at \in 1..Len(lg) /\ op.kind # "none"
  BY DEF OpOK, OpType
<1>2. op.kind \in {"user", "assistant"} => Has(lg[op.at], Message(op.turn, op.kind))
  BY DEF OpOK
<1>3. \A e \in DocType : \A i \in 1..Len(e.msgs) : Has(e, e.msgs[i])
  BY DEF Has
<1>4. CASE op.kind = "user"
  <2> DEFINE x == Message(op.turn, "user")
             base == [exists |-> TRUE, msgs |-> d.msgs,
                      title |-> IF d.exists THEN d.title ELSE op.title]
  <2>1. x \in MessageType
    BY <1>1, MessageIs DEF Roles
  <2>2. base \in DocType /\ base.msgs = d.msgs
    BY <1>1 DEF DocType
  <2>3. UserAdded(d, op.turn, op.title) = WithMessage(base, x)
    BY DEF UserAdded
  <2>4. Has(lg[op.at], x)
    BY <1>2, <1>4
  <2> HIDE DEF x, base
  <2>5. /\ UserAdded(d, op.turn, op.title) \in DocType
        /\ \A y : Has(UserAdded(d, op.turn, op.title), y) <=> Has(base, y) \/ y = x
    BY <2>1, <2>2, <2>3, WithMessageIs, WithMessageHas
  <2>6. \A y : Has(base, y) <=> Has(d, y)
    BY <2>2 DEF Has
  <2>7. Applied(d, op) = d \/ Applied(d, op) = UserAdded(d, op.turn, op.title)
    BY <1>1, <1>4, KindsDo
  <2> QED BY <1>3, <2>4, <2>5, <2>6, <2>7
<1>5. CASE op.kind = "assistant"
  <2> DEFINE x == Message(op.turn, "assistant")
  <2>1. x \in MessageType
    BY <1>1, MessageIs DEF Roles
  <2>2. /\ WithMessage(d, x) \in DocType
        /\ \A y : Has(WithMessage(d, x), y) <=> Has(d, y) \/ y = x
    BY <2>1, WithMessageIs, WithMessageHas
  <2>3. Has(lg[op.at], x)
    BY <1>2, <1>5
  <2>4. Applied(d, op) = d \/ Applied(d, op) = WithMessage(d, x)
    BY <1>1, <1>5, KindsDo
  <2> HIDE DEF x
  <2> QED BY <1>3, <2>2, <2>3, <2>4
<1>6. CASE op.kind = "truncate"
  <2>1. PICK n \in 0..Len(d.msgs) : CutAt(d, op.turn) = [d EXCEPT !.msgs = SubSeq(@, 1, n)]
    BY <1>1, CutIs
  <2>2. Applied(d, op) = CutAt(d, op.turn)
    BY <1>1, <1>6, KindsDo
  <2>3. /\ Applied(d, op) \in DocType
        /\ Len(Applied(d, op).msgs) = n
        /\ \A i \in 1..n : Applied(d, op).msgs[i] = d.msgs[i]
    BY <2>1, <2>2, PrefixIs
  <2>4. Len(d.msgs) \in Nat
    BY DEF DocType
  <2> QED BY <2>3, <2>4 DEF Has
<1>7. CASE op.kind = "rename"
  <2>1. Applied(d, op) = [d EXCEPT !.title = op.title]
    BY <1>1, <1>7, KindsDo
  <2>2. Applied(d, op) \in DocType /\ Applied(d, op).msgs = d.msgs
    BY <1>1, <2>1 DEF DocType
  <2> QED BY <2>2 DEF Has
<1>8. CASE op.kind \in Whole
  <2>1. Applied(d, op) = op.doc /\ op.doc = lg[op.at]
    BY <1>1, <1>8, KindsDo DEF OpOK
  <2> QED BY <1>1, <1>3, <2>1
<1> QED BY <1>1, <1>4, <1>5, <1>6, <1>7, <1>8 DEF Kinds, Whole

\* A mutation that the file `lg` can take: the document it leads to and the
\* operation that carries it.
MutationOK(lg, n, doc, op) ==
  /\ DocOK(doc, n)
  /\ OpOK(Append(lg, doc), op)
  /\ op.at = Len(lg) + 1

LEMMA MutationFits ==
  ASSUME NEW m \in Nat, NEW lg, FileOK(lg, m), NEW n, NEW doc, DocOK(doc, n),
         NEW op \in OpType, op.kind # "none",
         op.at = Len(lg) + 1,
         op.kind \in Whole => op.doc = doc,
         op.kind \notin Whole /\ ~ op.torn =>
           /\ Accepts(lg[Len(lg)], op)
           /\ Applied(lg[Len(lg)], op) = doc,
         op.kind \in {"user", "assistant"} =>
           /\ Has(doc, Message(op.turn, op.kind))
           /\ \A w \in 1..Len(lg) : ~ Has(lg[w], Message(op.turn, op.kind))
  PROVE  MutationOK(lg, n, doc, op)
<1> DEFINE l == Append(lg, doc)
<1>1. /\ lg \in Seq(DocType) /\ doc \in DocType /\ Len(lg) \in Nat /\ Len(lg) >= 1
      /\ Len(l) = Len(lg) + 1
      /\ \A v \in 1..Len(lg) : l[v] = lg[v]
      /\ l[Len(lg) + 1] = doc
  BY LogGrows DEF FileOK, DocOK
<1> HIDE DEF l
<1>2. /\ op.at - 1 = Len(lg) /\ op.at \in 1..Len(l) /\ op.at > 1
      /\ l[op.at] = doc /\ l[op.at - 1] = lg[Len(lg)]
  BY <1>1
<1>3. OpOK(l, op)
  BY <1>1, <1>2 DEF OpOK
<1> QED BY <1>3 DEF MutationOK, l

\* The last version is one of them.
LEMMA LastOK ==
  ASSUME NEW m \in Nat, NEW lg, FileOK(lg, m)
  PROVE  /\ Len(lg) \in Nat /\ Len(lg) >= 1 /\ Len(lg) \in 1..Len(lg)
         /\ DocOK(lg[Len(lg)], m) /\ lg[Len(lg)] \in DocType
<1>1. Len(lg) \in Nat /\ Len(lg) >= 1 /\ Len(lg) \in 1..Len(lg)
  BY DEF FileOK
<1> QED BY <1>1 DEF FileOK, DocOK

\* In the mutations that follow, d is the file before, and the operation is
\* torn when d is not the last document the shadow knows of.
LEMMA UserMutation ==
  ASSUME NEW m \in Nat, NEW lg, FileOK(lg, m), NEW d, DocOK(d, m),
         NEW torn \in BOOLEAN, ~ torn => d = lg[Len(lg)], NEW doc, NEW op,
         doc = UserAdded(d, m + 1, m + 1),
         op = [kind |-> "user", turn |-> m + 1, title |-> doc.title,
               count |-> Len(d.msgs), doc |-> doc, at |-> Len(lg) + 1, torn |-> torn]
  PROVE  MutationOK(lg, m + 1, doc, op)
<1>1. d \in DocType /\ Len(d.msgs) \in Nat /\ Len(lg) \in Nat
  BY LastOK, DocSays
<1>2. DocOK(doc, m + 1) /\ Has(doc, Message(m + 1, "user"))
  BY UserDoc
<1>3. doc \in DocType /\ op \in OpType
  BY <1>1, <1>2 DEF DocOK, DocType, OpType, Kinds
<1>4. \A w \in 1..Len(lg) : ~ Has(lg[w], Message(m + 1, "user"))
  <2>1. \A w \in 1..Len(lg) : \A x : Has(lg[w], x) => x.turn <= m
    BY DocSays DEF FileOK
  <2>2. Message(m + 1, "user").turn = m + 1
    BY MessageIs DEF Roles
  <2> QED BY <2>1, <2>2
<1>5. op.title = IF d.exists THEN d.title ELSE m + 1
  BY DEF UserAdded, WithMessage
<1>6. ASSUME ~ torn PROVE Applied(d, op) = doc /\ Accepts(d, op)
  <2>1. ~ Has(d, Message(op.turn, "user"))
    BY <1>4, <1>6, LastOK
  <2>2. UserAdded(d, m + 1, op.title) = UserAdded(d, m + 1, m + 1)
    BY <1>5 DEF UserAdded
  <2> QED BY <1>3, <2>1, <2>2, KindsDo DEF OpType
<1> QED BY <1>2, <1>3, <1>4, <1>6, MutationFits DEF Whole

LEMMA AssistantMutation ==
  ASSUME NEW m \in Nat, NEW lg, FileOK(lg, m), NEW d, DocOK(d, m), d.msgs # <<>>,
         NEW torn \in BOOLEAN, ~ torn => d = lg[Len(lg)], NEW doc, NEW op,
         NEW t \in Nat,
         \A w \in 1..Len(lg) : ~ Has(lg[w], Message(t, "assistant")),
         DocOK(doc, m), Has(doc, Message(t, "assistant")),
         ~ torn => doc = WithMessage(d, Message(t, "assistant")),
         op = [kind |-> "assistant", turn |-> t, title |-> 0, count |-> 0,
               doc |-> doc, at |-> Len(lg) + 1, torn |-> torn]
  PROVE  MutationOK(lg, m + 1, doc, op)
<1>1. Len(lg) \in 1..Len(lg) /\ Len(lg) \in Nat
  BY LastOK
<1>2. DocOK(doc, m + 1)
  BY DocWeaker
<1>3. op \in OpType /\ op.kind \in Kinds
  BY <1>1, <1>2 DEF OpType, Kinds, DocOK
<1>4. ASSUME ~ torn PROVE Accepts(lg[Len(lg)], op) /\ Applied(lg[Len(lg)], op) = doc
  <2>1. d.exists
    BY DEF DocOK
  <2> QED BY <1>1, <1>3, <1>4, <2>1, KindsDo
<1> QED BY <1>2, <1>3, <1>4, MutationFits DEF Whole

LEMMA StopMutation ==
  ASSUME NEW m \in Nat, NEW lg, FileOK(lg, m), NEW d, DocOK(d, m), d.exists,
         NEW torn \in BOOLEAN, NEW doc, NEW op,
         doc = WithMessage(d, Message(0, "assistant")),
         op = [kind |-> "repair", turn |-> 0, title |-> 0, count |-> 0,
               doc |-> doc, at |-> Len(lg) + 1, torn |-> torn]
  PROVE  MutationOK(lg, m + 1, doc, op)
<1>1. DocOK(doc, m + 1)
  <2>1. Message(0, "assistant") \in MessageType /\ Message(0, "assistant").turn <= m
    BY MessageIs DEF Roles
  <2> QED BY <2>1, LongerDoc, DocWeaker
<1>2. Len(lg) \in Nat
  BY LastOK
<1>3. op \in OpType
  BY <1>1, <1>2 DEF OpType, Kinds, DocOK
<1> QED BY <1>1, <1>3, MutationFits DEF Whole

LEMMA RenameMutation ==
  ASSUME NEW m \in Nat, NEW lg, FileOK(lg, m), NEW d, DocOK(d, m), d.exists,
         NEW torn \in BOOLEAN, ~ torn => d = lg[Len(lg)], NEW doc, NEW op,
         doc = [d EXCEPT !.title = m + 1],
         op = [kind |-> "rename", turn |-> 0, title |-> m + 1, count |-> 0,
               doc |-> doc, at |-> Len(lg) + 1, torn |-> torn]
  PROVE  MutationOK(lg, m + 1, doc, op)
<1>1. Len(lg) \in Nat
  BY LastOK
<1>2. DocOK(doc, m + 1)
  <2>1. m + 1 \in Nat /\ m <= m + 1 /\ DocOK(d, m + 1)
    BY DocWeaker
  <2> QED BY <2>1, RenamedDoc
<1>3. op \in OpType /\ op.kind \in Kinds
  BY <1>1, <1>2 DEF OpType, Kinds, DocOK
<1>4. Accepts(d, op) /\ Applied(d, op) = doc
  BY <1>3, KindsDo
<1> QED BY <1>2, <1>3, <1>4, MutationFits DEF Whole

LEMMA TruncateMutation ==
  ASSUME NEW m \in Nat, NEW lg, FileOK(lg, m), NEW d, DocOK(d, m),
         NEW torn \in BOOLEAN, ~ torn => d = lg[Len(lg)], NEW doc, NEW op,
         NEW i \in 1..Len(d.msgs), NEW t \in Nat, t = d.msgs[i].turn,
         doc = CutAt(d, t),
         op = [kind |-> "truncate", turn |-> t, title |-> 0, count |-> 0,
               doc |-> doc, at |-> Len(lg) + 1, torn |-> torn]
  PROVE  MutationOK(lg, m + 1, doc, op)
<1>1. Len(lg) \in Nat
  BY LastOK
<1>2. DocOK(doc, m + 1)
  BY CutDoc, DocWeaker
<1>3. op \in OpType /\ op.kind \in Kinds
  BY <1>1, <1>2 DEF OpType, Kinds, DocOK
<1>4. Accepts(d, op) /\ Applied(d, op) = doc
  BY <1>3, KindsDo
<1> QED BY <1>2, <1>3, <1>4, MutationFits DEF Whole

LEMMA DeleteMutation ==
  ASSUME NEW m \in Nat, NEW lg, FileOK(lg, m), NEW torn \in BOOLEAN, NEW op,
         op = [kind |-> "delete", turn |-> 0, title |-> 0, count |-> 0,
               doc |-> NoDoc, at |-> Len(lg) + 1, torn |-> torn]
  PROVE  MutationOK(lg, m + 1, NoDoc, op)
<1>1. DocOK(NoDoc, m + 1) /\ NoDoc \in DocType
  BY AbsentDoc
<1>2. Len(lg) \in Nat
  BY LastOK
<1>3. op \in OpType
  BY <1>1, <1>2 DEF OpType, Kinds
<1> QED BY <1>1, <1>3, MutationFits DEF Whole

-----------------------------------------------------------------------------
(* The invariant of one conversation, step by step.                        *)

\* NoOp is none of the operations.
LEMMA NoOpIs ==
  /\ NoOp.kind = "none" /\ NoOp.kind \notin Whole
  /\ NoOp \in OpType
  /\ \A lg, op : OpOK(lg, op) => op # NoOp
<1>1. NoOp.kind = "none" /\ NoOp.kind \notin Whole
  BY DEF NoOp, Whole
<1>2. NoOp \in OpType
  BY AbsentDoc DEF NoOp, OpType, Kinds
<1> QED BY <1>1, <1>2 DEF OpOK

\* Where things are, in numbers.
LEMMA Numbers ==
  ASSUME NEW m \in Nat, NEW lg, NEW ln, NEW sd,
         FileOK(lg, m), LaneOK(lg, ln, sd), SendOK(lg, ln, sd)
  PROVE  /\ Len(lg) \in Nat /\ Len(lg) >= 1
         /\ Len(ln.pending) \in Nat /\ Len(ln.pending) < Len(lg)
         /\ Behind(lg, ln, sd) \in Nat
         /\ Behind(lg, ln, sd) <= Len(lg) - Len(ln.pending)
         /\ sd # NoOp => /\ sd.at \in 1..Len(lg)
                         /\ sd.at <= Len(lg) - Len(ln.pending)
                         /\ Behind(lg, ln, sd) \in {sd.at - 1, sd.at}
<1>1. Len(lg) \in Nat /\ Len(lg) >= 1
  BY DEF FileOK
<1>2. Len(ln.pending) \in Nat /\ Len(ln.pending) < Len(lg)
  BY DEF LaneOK, LaneType
<1>3. sd # NoOp => sd.at \in 1..Len(lg) /\ sd.at <= Len(lg) - Len(ln.pending)
  BY DEF SendOK, OpOK
<1> QED BY <1>1, <1>2, <1>3 DEF Behind

\* The copy and what is late, when the lane has moved on.
LEMMA CopyCarries ==
  ASSUME NEW c, NEW lg, NEW sh, NEW rm, NEW b \in Nat, NEW e \in Nat, NEW L,
         CopyOK(c, lg, sh, rm, b, L), b <= e, e <= Len(lg)
  PROVE  CopyOK(c, lg, sh, rm, e, L)
<1>1. sh \in 1..e /\ \A w \in 1..b : w \in 1..e
  BY DEF CopyOK
<1> QED BY <1>1 DEF CopyOK

LEMMA LateCarries ==
  ASSUME NEW c, NEW lg, NEW sh, NEW b \in Nat, NEW e \in Nat, NEW L, NEW D, NEW T,
         LateOK(c, lg, sh, b, L, D, T), b <= e
  PROVE  LateOK(c, lg, sh, e, L, D, T)
<1>1. \A op \in T : op.at \in Nat
  BY DEF LateOK, OpOK, OpType
<1> QED BY <1>1 DEF LateOK

\* What the loop takes next from a lane, and what it leaves.
NextLane(l, isDirty) ==
  IF ~ Waiting(l) THEN l
  ELSE IF Settled(l, isDirty).repair THEN [Settled(l, isDirty) EXCEPT !.repair = FALSE]
  ELSE [Settled(l, isDirty) EXCEPT !.pending = Tail(@)]

NextSend(l, isDirty, doc, at) ==
  IF ~ Waiting(l) THEN NoOp
  ELSE IF Settled(l, isDirty).repair THEN RepairSend(doc, at)
  ELSE Settled(l, isDirty).pending[1]

\* A send of the whole file.
LEMMA RepairFits ==
  ASSUME NEW m \in Nat, NEW lg, FileOK(lg, m)
  PROVE  /\ OpOK(lg, RepairSend(lg[Len(lg)], Len(lg)))
         /\ RepairSend(lg[Len(lg)], Len(lg)).kind \in Whole
         /\ RepairSend(lg[Len(lg)], Len(lg)).at = Len(lg)
<1> DEFINE d == lg[Len(lg)]
           op == RepairSend(d, Len(lg))
<1>1. d \in DocType /\ Len(lg) \in Nat /\ Len(lg) \in 1..Len(lg)
  BY LastOK
<1>2. op = [kind |-> IF d.exists THEN "repair" ELSE "delete", turn |-> 0,
            title |-> 0, count |-> 0, doc |-> d, at |-> Len(lg), torn |-> FALSE]
  <2> HIDE DEF d
  <2>1. NoOp = [kind |-> "none", turn |-> 0, title |-> 0, count |-> 0,
                doc |-> NoDoc, at |-> 0, torn |-> FALSE]
    BY DEF NoOp
  <2>2. op = [NoOp EXCEPT !.kind = IF d.exists THEN "repair" ELSE "delete",
                          !.doc = d, !.at = Len(lg)]
    BY DEF RepairSend
  <2> QED BY <2>1, <2>2
<1>3. op.kind \in Whole /\ op.kind \notin {"none", "user", "assistant"}
      /\ op.at = Len(lg) /\ op.doc = d
  BY <1>2 DEF Whole
<1>4. op \in OpType
  BY <1>1, <1>2 DEF OpType, Kinds
<1>5. OpOK(lg, op)
  BY <1>1, <1>3, <1>4 DEF OpOK
<1> QED BY <1>3, <1>5

\* A lane that sends the whole file next has nothing else left.
LEMMA RepairNext ==
  ASSUME NEW c, NEW m \in Nat, NEW lg, NEW sh, NEW rm, NEW ln, NEW b \in Nat,
         NEW L, NEW D, NEW T, NEW new, NEW sd,
         FileOK(lg, m), b <= Len(lg),
         CopyOK(c, lg, sh, rm, b, L), LateOK(c, lg, sh, b, L, D, T),
         new = [pending |-> <<>>, repair |-> FALSE, draining |-> TRUE],
         sd = RepairSend(lg[Len(lg)], Len(lg))
  PROVE  ConvOK(c, lg, sh, rm, new, sd, L, D, T, m)
<1>1. /\ OpOK(lg, sd) /\ sd.kind \in Whole /\ sd.at = Len(lg) /\ sd # NoOp
      /\ Len(lg) \in Nat /\ Len(lg) >= 1
  BY RepairFits, LastOK, NoOpIs
<1>2. /\ new.pending = <<>> /\ Len(new.pending) = 0 /\ ~ new.repair /\ new.draining
      /\ new \in LaneType
  BY DEF LaneType
<1>3. Behind(lg, new, sd) = Len(lg)
  BY <1>1 DEF Behind
<1>4. LaneOK(lg, new, sd)
  BY <1>1, <1>2, ShadowAssumption DEF LaneOK
<1>5. SendOK(lg, new, sd)
  BY <1>1, <1>2 DEF SendOK
<1>6. CopyOK(c, lg, sh, rm, Len(lg), L) /\ LateOK(c, lg, sh, Len(lg), L, D, T)
  BY <1>1, CopyCarries, LateCarries
<1>7. ExactOK(c, sh, Len(lg), new, sd, L, D)
  BY <1>1 DEF ExactOK
<1> QED BY <1>3, <1>4, <1>5, <1>6, <1>7 DEF ConvOK

\* Advance: the loop takes the next operation.
LEMMA AdvanceOK ==
  ASSUME NEW c, NEW m \in Nat, NEW lg, NEW sh, NEW rm, NEW ln, NEW L, NEW D, NEW T,
         ConvOK(c, lg, sh, rm, ln, NoOp, L, D, T, m), ln.draining
  PROVE  ConvOK(c, lg, sh, rm, NextLane(ln, c \in D),
                NextSend(ln, c \in D, lg[Len(lg)], Len(lg)), L, D, T, m)
<1> DEFINE n == Len(lg)
           p == Len(ln.pending)
           new == NextLane(ln, c \in D)
           sd == NextSend(ln, c \in D, lg[n], n)
           s == Settled(ln, c \in D)
<1>1. /\ FileOK(lg, m) /\ LaneOK(lg, ln, NoOp) /\ SendOK(lg, ln, NoOp)
      /\ CopyOK(c, lg, sh, rm, n - p, L) /\ ExactOK(c, sh, n - p, ln, NoOp, L, D)
      /\ LateOK(c, lg, sh, n - p, L, D, T)
  BY DEF ConvOK, Behind
<1>2. /\ n \in Nat /\ n >= 1 /\ p \in Nat /\ p < n /\ n - p \in Nat
      /\ ln \in LaneType /\ ln.pending \in Seq(OpType)
      /\ ln = [pending |-> ln.pending, repair |-> ln.repair, draining |-> ln.draining]
      /\ ln.repair => ln.pending = <<>>
  BY <1>1, Numbers DEF LaneOK, LaneType
<1>3. CASE ~ Waiting(ln)
  BY <1>3 DEF NextLane, NextSend
<1>4. CASE Waiting(ln) /\ s.repair
  <2>1. s.pending = <<>> /\ s.draining
        /\ s = [pending |-> <<>>, repair |-> TRUE, draining |-> TRUE]
    <3>1. CASE s = ln
      BY <1>2, <1>4, <3>1 DEF LaneType
    <3>2. CASE s = Collapsed(ln)
      BY <1>2, <3>2 DEF Collapsed, LaneType
    <3> QED BY <3>1, <3>2 DEF Settled
  <2>2. new = [pending |-> <<>>, repair |-> FALSE, draining |-> TRUE]
    BY <1>4, <2>1 DEF NextLane
  <2>3. sd = RepairSend(lg[Len(lg)], Len(lg))
    BY <1>4 DEF NextSend
  <2>4. n - p <= Len(lg) /\ n - p \in Nat
    BY <1>2
  <2>5. ConvOK(c, lg, sh, rm, new, sd, L, D, T, m)
    <3> HIDE DEF new, sd
    <3> QED BY <1>1, <2>2, <2>3, <2>4, RepairNext
  <2> QED BY <2>5
<1>5. CASE Waiting(ln) /\ ~ s.repair
  <2>1. s = ln /\ ~ ln.repair /\ (c \in D => ln.pending[1].kind = "delete")
    BY <1>2, <1>5 DEF Settled, Collapsed
  <2>2. ln.pending # <<>> /\ p >= 1
    BY <1>2, <1>5, <2>1 DEF Waiting
  <2>3. new = [pending |-> Tail(ln.pending), repair |-> FALSE, draining |-> TRUE]
        /\ sd = ln.pending[1]
    BY <1>2, <1>5, <2>1 DEF NextLane, NextSend, LaneType
  <2> HIDE DEF new, sd
  <2>4. /\ new.pending \in Seq(OpType) /\ Len(new.pending) = p - 1
        /\ \A i \in 1..p - 1 : new.pending[i] = ln.pending[i + 1]
        /\ ~ new.repair /\ new.draining
    BY <1>2, <2>2, <2>3
  <2>5. new \in LaneType
    BY <2>3, <2>4 DEF LaneType
  <2>6. \A i \in 1..p : /\ OpOK(lg, ln.pending[i])
                        /\ ln.pending[i].kind # "repair"
                        /\ ln.pending[i].at = n - p + i
    BY <1>1 DEF LaneOK
  <2>7. OpOK(lg, sd) /\ sd.kind # "repair" /\ sd.at = n - p + 1 /\ sd # NoOp
    BY <1>2, <2>2, <2>3, <2>6, NoOpIs
  <2>8. LaneOK(lg, new, sd)
    <3>1. \A i \in 1..p - 1 : /\ OpOK(lg, new.pending[i])
                              /\ new.pending[i].kind # "repair"
                              /\ new.pending[i].at = n - (p - 1) + i
      <4>1. ASSUME NEW i \in 1..p - 1
            PROVE  /\ i + 1 \in 1..p
                   /\ n - p + (i + 1) = n - (p - 1) + i
        BY <1>2
      <4> QED BY <2>4, <2>6, <4>1
    <3>2. p <= MAX_PENDING_OPERATIONS
      BY <1>1 DEF LaneOK
    <3>3. p - 1 <= MAX_PENDING_OPERATIONS /\ p - 1 < n
      BY <1>2, <3>2, ShadowAssumption
    <3> QED BY <2>4, <2>5, <3>1, <3>3 DEF LaneOK
  <2>9. n - Len(new.pending) = n - p + 1
    BY <1>2, <2>4
  <2>10. SendOK(lg, new, sd)
    <3>1. sd.at = Len(lg) - Len(new.pending)
      BY <2>7, <2>9
    <3>2. n - p + 1 <= n - p + 1
      BY <1>2
    <3>3. sd.at <= Len(lg) - Len(new.pending)
      BY <2>7, <2>9, <3>2
    <3> QED BY <2>7, <3>1, <3>3 DEF SendOK
  <2>11. Behind(lg, new, sd) = IF sd.kind \in Whole THEN n - p + 1 ELSE n - p
    BY <1>2, <2>7 DEF Behind
  <2>12. CopyOK(c, lg, sh, rm, Behind(lg, new, sd), L)
         /\ LateOK(c, lg, sh, Behind(lg, new, sd), L, D, T)
    <3>1. n - p + 1 \in Nat /\ n - p <= n - p + 1 /\ n - p + 1 <= n
      BY <1>2, <2>2
    <3>2. CopyOK(c, lg, sh, rm, n - p + 1, L) /\ LateOK(c, lg, sh, n - p + 1, L, D, T)
      BY <1>1, <1>2, <3>1, CopyCarries, LateCarries
    <3> QED BY <1>1, <2>11, <3>2
  <2>13. ExactOK(c, sh, Behind(lg, new, sd), new, sd, L, D)
    <3>1. c \in D => sd.kind \in Whole
      BY <2>1, <2>3 DEF Whole
    <3>2. ASSUME c \notin L, c \notin D, sd.kind \notin Whole PROVE sh = n - p
      <4>1. Deltas(ln)
        BY <2>1, <2>3, <3>2 DEF Deltas, Whole
      <4> QED BY <1>1, <3>2, <4>1, NoOpIs DEF ExactOK
    <3> QED BY <2>7, <2>11, <3>1, <3>2 DEF ExactOK
  <2>14. ConvOK(c, lg, sh, rm, new, sd, L, D, T, m)
    BY <1>1, <2>8, <2>10, <2>12, <2>13 DEF ConvOK
  <2> QED BY <2>14 DEF new, sd
<1> QED BY <1>3, <1>4, <1>5

\* The version a copy shows when its remote has taken op.
Exact(c, op, L) == op.kind \in Whole \/ (c \notin L /\ ~ Tears(op))
TakenAt(c, sh, op, L) == IF Exact(c, op, L) THEN op.at ELSE sh

\* What is known of the copy then: e is where the lane's operations start.
TakenOK(c, lg, sh, new, doc, ln, sd, L, T, e) ==
  /\ new \in 1..e /\ sh <= new
  /\ doc \in DocType
  /\ \A i \in 1..Len(doc.msgs) : \E w \in 1..e : Has(lg[w], doc.msgs[i])
  /\ Exact(c, sd, L) =>
       /\ new = sd.at
       /\ doc = lg[new]
       /\ \A op \in T : op.at <= new
       /\ Deltas(ln) => new = e

\* The remote takes the operation on the wire: its copy is the version the
\* operation leads to, if it was vouched for or is replaced as a whole.
LEMMA TakenIs ==
  ASSUME NEW c, NEW m \in Nat, NEW lg, NEW sh, NEW rm, NEW ln, NEW sd,
         NEW L, NEW D, NEW T,
         ConvOK(c, lg, sh, rm, ln, sd, L, D, T, m), sd # NoOp,
         NEW e, e = Len(lg) - Len(ln.pending), NEW new,
         new = TakenAt(c, sh, sd, L)
  PROVE  TakenOK(c, lg, sh, new, Applied(rm, sd), ln, sd, L, T, e)
<1> DEFINE b == Behind(lg, ln, sd)
<1>1. /\ FileOK(lg, m) /\ LaneOK(lg, ln, sd) /\ SendOK(lg, ln, sd)
      /\ CopyOK(c, lg, sh, rm, b, L) /\ ExactOK(c, sh, b, ln, sd, L, D)
      /\ LateOK(c, lg, sh, b, L, D, T)
  BY DEF ConvOK
<1>2. /\ e \in Nat /\ OpOK(lg, sd) /\ sd.at \in Nat /\ sd.at <= e /\ sd.at >= 1
      /\ Deltas(ln) => sd.at = e
  BY <1>1, Numbers DEF SendOK
<1>3. /\ b = IF sd.kind \in Whole THEN sd.at ELSE sd.at - 1
      /\ b \in Nat /\ b <= e /\ b <= sd.at
  BY <1>1, <1>2, Numbers DEF Behind
<1>4. sh \in 1..b /\ rm \in DocType /\ (c \notin L => rm = lg[sh])
  BY <1>1 DEF CopyOK
<1>5. \A op \in T : op.at \in Nat /\ op.at <= b
  BY <1>1 DEF LateOK, OpOK, OpType
<1>6. sd \in OpType /\ sd.kind \in Kinds
  BY <1>2 DEF OpOK, OpType
<1>7. Applied(rm, sd) \in DocType
      /\ \A i \in 1..Len(Applied(rm, sd).msgs) :
           Has(rm, Applied(rm, sd).msgs[i]) \/ Has(lg[sd.at], Applied(rm, sd).msgs[i])
  <2>1. lg \in Seq(DocType)
    BY <1>1 DEF FileOK
  <2> QED BY <1>2, <1>4, <2>1, AppliedIs
<1>8. \A i \in 1..Len(Applied(rm, sd).msgs) :
        \E w \in 1..e : Has(lg[w], Applied(rm, sd).msgs[i])
  <2>1. ASSUME NEW y, Has(rm, y) \/ Has(lg[sd.at], y)
        PROVE  \E w \in 1..e : Has(lg[w], y)
    <3>1. CASE Has(rm, y)
      <4>1. PICK i \in 1..Len(rm.msgs) : rm.msgs[i] = y
        BY <3>1 DEF Has
      <4>2. PICK w \in 1..b : Has(lg[w], rm.msgs[i])
        BY <1>1 DEF CopyOK
      <4>3. w \in 1..e
        BY <1>3
      <4> QED BY <4>1, <4>2, <4>3
    <3>2. CASE Has(lg[sd.at], y)
      BY <1>2, <3>2
    <3> QED BY <2>1, <3>1, <3>2
  <2> QED BY <1>7, <2>1
<1> HIDE DEF b
<1>9. CASE sd.kind \in Whole
  <2>1. Applied(rm, sd) = lg[sd.at]
    BY <1>2, <1>6, <1>9, KindsDo DEF OpOK
  <2> QED BY <1>2, <1>3, <1>4, <1>5, <1>7, <1>8, <1>9, <2>1 DEF Exact, TakenAt, TakenOK
<1>10. CASE sd.kind \notin Whole /\ c \notin L /\ ~ Tears(sd)
  <2>1. sh = b
    BY <1>1, <1>10 DEF ExactOK
  <2>2. rm = lg[sd.at - 1]
    BY <1>3, <1>4, <1>10, <2>1
  <2>3. Applied(rm, sd) = lg[sd.at]
    BY <1>2, <1>10, <2>2 DEF OpOK, Tears
  <2> QED BY <1>2, <1>3, <1>4, <1>5, <1>7, <1>8, <1>10, <2>1, <2>3
       DEF Exact, TakenAt, TakenOK
<1>11. CASE sd.kind \notin Whole /\ (c \in L \/ Tears(sd))
  BY <1>3, <1>4, <1>7, <1>8, <1>11 DEF Exact, TakenAt, TakenOK
<1> QED BY <1>9, <1>10, <1>11

\* What the end of a send leaves of the lane and of the file.
LEMMA SentLane ==
  ASSUME NEW c, NEW m \in Nat, NEW lg, NEW sh, NEW rm, NEW ln, NEW sd,
         NEW L, NEW D, NEW T,
         ConvOK(c, lg, sh, rm, ln, sd, L, D, T, m), sd # NoOp
  PROVE  /\ Len(lg) - Len(ln.pending) \in Nat
         /\ ln.draining
         /\ LaneOK(lg, ln, NoOp) /\ SendOK(lg, ln, NoOp)
         /\ Behind(lg, ln, NoOp) = Len(lg) - Len(ln.pending)
<1>1. FileOK(lg, m) /\ LaneOK(lg, ln, sd) /\ SendOK(lg, ln, sd)
  BY DEF ConvOK
<1>2. Len(lg) - Len(ln.pending) \in Nat
  BY <1>1, Numbers
<1>3. ln.draining /\ LaneOK(lg, ln, NoOp)
  BY <1>1 DEF LaneOK
<1> QED BY <1>2, <1>3 DEF SendOK, Behind

\* SendSucceeds, before the loop goes on.
LEMMA SucceedsOK ==
  ASSUME NEW c, NEW m \in Nat, NEW lg, NEW sh, NEW rm, NEW ln, NEW sd,
         NEW L, NEW D, NEW T,
         ConvOK(c, lg, sh, rm, ln, sd, L, D, T, m), sd # NoOp,
         NEW new, new = TakenAt(c, sh, sd, L),
         NEW L2, c \in L2 <=> (c \in L \/ Tears(sd)) /\ sd.kind \notin Whole,
         NEW D2, c \in D2 <=> c \in D /\ sd.kind \notin Whole
  PROVE  ConvOK(c, lg, new, Applied(rm, sd), ln, NoOp, L2, D2, T, m) /\ sh <= new
<1> DEFINE e == Len(lg) - Len(ln.pending)
           b == Behind(lg, ln, sd)
           rm2 == Applied(rm, sd)
<1>1. /\ FileOK(lg, m) /\ LaneOK(lg, ln, sd) /\ SendOK(lg, ln, sd)
      /\ CopyOK(c, lg, sh, rm, b, L) /\ ExactOK(c, sh, b, ln, sd, L, D)
      /\ LateOK(c, lg, sh, b, L, D, T)
  BY DEF ConvOK
<1>2. /\ e \in Nat /\ LaneOK(lg, ln, NoOp) /\ SendOK(lg, ln, NoOp)
      /\ Behind(lg, ln, NoOp) = e
  BY SentLane
<1>3. /\ new \in 1..e /\ sh <= new
      /\ rm2 \in DocType
      /\ \A i \in 1..Len(rm2.msgs) : \E w \in 1..e : Has(lg[w], rm2.msgs[i])
      /\ Exact(c, sd, L) =>
           /\ rm2 = lg[new]
           /\ \A op \in T : op.at <= new
           /\ Deltas(ln) => new = e
  <2>1. TakenOK(c, lg, sh, new, rm2, ln, sd, L, T, e)
    BY TakenIs
  <2> QED BY <2>1 DEF TakenOK
<1>4. e <= Len(lg) /\ b <= e
  BY <1>1, Numbers
<1>5. \A op \in T : OpOK(lg, op) /\ op.at <= e
  <2>1. b \in Nat
    BY <1>1, Numbers
  <2>2. LateOK(c, lg, sh, e, L, D, T)
    BY <1>1, <1>2, <1>4, <2>1, LateCarries
  <2> QED BY <2>2 DEF LateOK
<1> HIDE DEF e, b, rm2
<1>6. c \notin L2 => Exact(c, sd, L)
  BY DEF Exact
<1>7. CopyOK(c, lg, new, rm2, e, L2)
  BY <1>3, <1>4, <1>6 DEF CopyOK
<1>8. ExactOK(c, new, e, ln, NoOp, L2, D2)
  BY <1>3, <1>6 DEF ExactOK
<1>9. LateOK(c, lg, new, e, L2, D2, T)
  BY <1>3, <1>5, <1>6 DEF LateOK
<1>10. ConvOK(c, lg, new, rm2, ln, NoOp, L2, D2, T, m)
  BY <1>1, <1>2, <1>7, <1>8, <1>9 DEF ConvOK
<1> QED BY <1>3, <1>10 DEF rm2

\* A send that failed, before the loop goes on: the conversation is dirty, and
\* the operation may be on its way still.
LEMMA FailsOK ==
  ASSUME NEW c, NEW m \in Nat, NEW lg, NEW sh, NEW rm, NEW ln, NEW sd,
         NEW L, NEW D, NEW T,
         ConvOK(c, lg, sh, rm, ln, sd, L, D, T, m), sd # NoOp,
         NEW L2, c \in L => c \in L2,
         NEW D2, c \in D2,
         NEW T2 \in SUBSET (T \cup {sd})
  PROVE  ConvOK(c, lg, sh, rm, ln, NoOp, L2, D2, T2, m)
<1> DEFINE e == Len(lg) - Len(ln.pending)
           b == Behind(lg, ln, sd)
<1>1. /\ FileOK(lg, m) /\ LaneOK(lg, ln, sd) /\ SendOK(lg, ln, sd)
      /\ CopyOK(c, lg, sh, rm, b, L) /\ ExactOK(c, sh, b, ln, sd, L, D)
      /\ LateOK(c, lg, sh, b, L, D, T)
  BY DEF ConvOK
<1>2. /\ e \in Nat /\ LaneOK(lg, ln, NoOp) /\ SendOK(lg, ln, NoOp)
      /\ Behind(lg, ln, NoOp) = e
  BY SentLane
<1>3. e <= Len(lg) /\ b <= e /\ b \in Nat
  BY <1>1, Numbers
<1>4. CopyOK(c, lg, sh, rm, e, L) /\ LateOK(c, lg, sh, e, L, D, T)
  BY <1>1, <1>2, <1>3, CopyCarries, LateCarries
<1>5. OpOK(lg, sd) /\ sd.at <= e /\ sd.at \in Nat
  BY <1>1, Numbers DEF SendOK
<1>6. ASSUME c \notin L, sd.kind \notin Whole PROVE sd.at = sh + 1
  <2>1. sh = b
    BY <1>1, <1>6 DEF ExactOK
  <2>2. b = sd.at - 1
    BY <1>6 DEF Behind
  <2> QED BY <1>5, <2>1, <2>2
<1> HIDE DEF e, b
<1>7. CopyOK(c, lg, sh, rm, e, L2)
  BY <1>4 DEF CopyOK
<1>8. ExactOK(c, sh, e, ln, NoOp, L2, D2)
  BY DEF ExactOK
<1>9. LateOK(c, lg, sh, e, L2, D2, T2)
  BY <1>4, <1>5, <1>6 DEF LateOK
<1> QED BY <1>1, <1>2, <1>7, <1>8, <1>9 DEF ConvOK

\* AnswerLost, before the loop goes on.
LEMMA AnswerLostOK ==
  ASSUME NEW c, NEW m \in Nat, NEW lg, NEW sh, NEW rm, NEW ln, NEW sd,
         NEW L, NEW D, NEW T,
         ConvOK(c, lg, sh, rm, ln, sd, L, D, T, m), sd # NoOp,
         NEW new, new = TakenAt(c, sh, sd, L),
         NEW L2, c \in L \/ Tears(sd) => c \in L2,
         NEW D2, c \in D2
  PROVE  ConvOK(c, lg, new, Applied(rm, sd), ln, NoOp, L2, D2, T, m) /\ sh <= new
<1> DEFINE e == Len(lg) - Len(ln.pending)
           b == Behind(lg, ln, sd)
           rm2 == Applied(rm, sd)
<1>1. /\ FileOK(lg, m) /\ LaneOK(lg, ln, sd) /\ SendOK(lg, ln, sd)
      /\ CopyOK(c, lg, sh, rm, b, L) /\ ExactOK(c, sh, b, ln, sd, L, D)
      /\ LateOK(c, lg, sh, b, L, D, T)
  BY DEF ConvOK
<1>2. /\ e \in Nat /\ LaneOK(lg, ln, NoOp) /\ SendOK(lg, ln, NoOp)
      /\ Behind(lg, ln, NoOp) = e
  BY SentLane
<1>3. /\ new \in 1..e /\ sh <= new
      /\ rm2 \in DocType
      /\ \A i \in 1..Len(rm2.msgs) : \E w \in 1..e : Has(lg[w], rm2.msgs[i])
      /\ Exact(c, sd, L) =>
           /\ rm2 = lg[new]
           /\ \A op \in T : op.at <= new
  <2>1. TakenOK(c, lg, sh, new, rm2, ln, sd, L, T, e)
    BY TakenIs
  <2> QED BY <2>1 DEF TakenOK
<1>4. e <= Len(lg) /\ b <= e
  BY <1>1, Numbers
<1>5. \A op \in T : OpOK(lg, op) /\ op.at <= e
  <2>1. b \in Nat
    BY <1>1, Numbers
  <2>2. LateOK(c, lg, sh, e, L, D, T)
    BY <1>1, <1>2, <1>4, <2>1, LateCarries
  <2> QED BY <2>2 DEF LateOK
<1> HIDE DEF e, b, rm2
<1>6. c \notin L2 => Exact(c, sd, L)
  BY DEF Exact
<1>7. CopyOK(c, lg, new, rm2, e, L2)
  BY <1>3, <1>4, <1>6 DEF CopyOK
<1>8. ExactOK(c, new, e, ln, NoOp, L2, D2)
  BY DEF ExactOK
<1>9. LateOK(c, lg, new, e, L2, D2, T)
  BY <1>3, <1>5, <1>6 DEF LateOK
<1>10. ConvOK(c, lg, new, rm2, ln, NoOp, L2, D2, T, m)
  BY <1>1, <1>2, <1>7, <1>8, <1>9 DEF ConvOK
<1> QED BY <1>3, <1>10 DEF rm2

\* LateSendLands: it brings the copy on, or the copy is past it, and is lost
\* when it changes.
Lands(c, op, rm, new, sh, sh2, L, L2) ==
  \/ /\ c \notin L /\ op.at > sh /\ ~ Tears(op)
     /\ sh2 = op.at
     /\ c \in L2 <=> c \in L
  \/ /\ ~ (c \notin L /\ op.at > sh /\ ~ Tears(op))
     /\ sh2 = sh
     /\ c \in L2 <=> c \in L \/ new # rm

LEMMA LandsOK ==
  ASSUME NEW c, NEW m \in Nat, NEW lg, NEW sh, NEW rm, NEW ln, NEW sd,
         NEW L, NEW D, NEW T,
         ConvOK(c, lg, sh, rm, ln, sd, L, D, T, m),
         NEW op \in T, NEW T2 \in SUBSET T,
         NEW new, new = (IF Accepts(rm, op) THEN Applied(rm, op) ELSE rm),
         NEW sh2, NEW L2,
         Lands(c, op, rm, new, sh, sh2, L, L2)
  PROVE  ConvOK(c, lg, sh2, new, ln, sd, L2, D, T2, m) /\ sh <= sh2
<1> DEFINE b == Behind(lg, ln, sd)
<1>1. /\ FileOK(lg, m) /\ LaneOK(lg, ln, sd) /\ SendOK(lg, ln, sd)
      /\ CopyOK(c, lg, sh, rm, b, L) /\ ExactOK(c, sh, b, ln, sd, L, D)
      /\ LateOK(c, lg, sh, b, L, D, T)
  BY DEF ConvOK
<1>2. b \in Nat /\ b <= Len(lg)
  BY <1>1, Numbers DEF CopyOK
<1> HIDE DEF b
<1>3. sh \in 1..b /\ rm \in DocType /\ (c \notin L => rm = lg[sh])
  BY <1>1 DEF CopyOK
<1>4. /\ OpOK(lg, op) /\ op.at \in 1..b
      /\ op \in OpType /\ op.kind \in Kinds
  BY <1>1, <1>2 DEF LateOK, OpOK, OpType
<1>5. new \in DocType
      /\ \A i \in 1..Len(new.msgs) : \E w \in 1..b : Has(lg[w], new.msgs[i])
  <2>1. \A i \in 1..Len(rm.msgs) : \E w \in 1..b : Has(lg[w], rm.msgs[i])
    BY <1>1 DEF CopyOK
  <2>2. lg \in Seq(DocType)
    BY <1>1 DEF FileOK
  <2>3. /\ Applied(rm, op) \in DocType
        /\ \A i \in 1..Len(Applied(rm, op).msgs) :
             Has(rm, Applied(rm, op).msgs[i]) \/ Has(lg[op.at], Applied(rm, op).msgs[i])
    BY <1>3, <1>4, <2>2, AppliedIs
  <2>4. \A y : Has(rm, y) => \E w \in 1..b : Has(lg[w], y)
    BY <2>1 DEF Has
  <2>5. \A i \in 1..Len(Applied(rm, op).msgs) :
          \E w \in 1..b : Has(lg[w], Applied(rm, op).msgs[i])
    BY <1>4, <2>3, <2>4
  <2> QED BY <1>3, <2>1, <2>3, <2>5
<1>6. CASE c \notin L /\ op.at > sh /\ ~ Tears(op) /\ sh2 = op.at /\ (c \in L2 <=> c \in L)
  <2>1. c \in D /\ (op.kind \in Whole \/ op.at = sh + 1)
    BY <1>1, <1>3, <1>4, <1>6 DEF LateOK
  <2>2. Accepts(rm, op) /\ Applied(rm, op) = lg[op.at]
    <3>1. CASE op.kind \in Whole
      BY <1>4, <3>1, KindsDo DEF OpOK
    <3>2. CASE op.kind \notin Whole
      <4>1. op.at = sh + 1
        BY <2>1, <3>2
      <4>2. op.at - 1 = sh
        BY <1>3, <4>1
      <4> QED BY <1>3, <1>4, <1>6, <3>2, <4>2 DEF OpOK, Tears
    <3> QED BY <3>1, <3>2
  <2>3. CopyOK(c, lg, sh2, new, b, L2)
    BY <1>2, <1>4, <1>5, <1>6, <2>2 DEF CopyOK
  <2>4. ExactOK(c, sh2, b, ln, sd, L2, D)
    BY <1>1, <2>1 DEF ExactOK
  <2>5. LateOK(c, lg, sh2, b, L2, D, T2)
    <3>1. ASSUME NEW o \in T2
          PROVE  OpOK(lg, o) /\ o.at <= b /\ (o.at <= sh2 \/ o.kind \in Whole)
      <4>1. /\ OpOK(lg, o) /\ o.at <= b
            /\ o.at <= sh \/ o.kind \in Whole \/ o.at = sh + 1
        BY <1>1, <1>6 DEF LateOK
      <4>2. o.at \in Nat
        BY <4>1 DEF OpOK, OpType
      <4>3. sh \in Nat /\ sh2 \in Nat /\ sh + 1 <= sh2
        BY <1>2, <1>3, <1>4, <1>6
      <4> QED BY <4>1, <4>2, <4>3
    <3> QED BY <2>1, <3>1 DEF LateOK
  <2>6. sh <= sh2
    BY <1>2, <1>3, <1>4, <1>6
  <2>7. ConvOK(c, lg, sh2, new, ln, sd, L2, D, T2, m)
    BY <1>1, <2>3, <2>4, <2>5 DEF ConvOK, b
  <2> QED BY <2>6, <2>7
<1>7. CASE sh2 = sh /\ (c \in L2 <=> c \in L \/ new # rm)
  <2>1. CopyOK(c, lg, sh2, new, b, L2)
    BY <1>2, <1>3, <1>5, <1>7 DEF CopyOK
  <2>2. ExactOK(c, sh2, b, ln, sd, L2, D)
    BY <1>1, <1>7 DEF ExactOK
  <2>3. LateOK(c, lg, sh2, b, L2, D, T2)
    BY <1>1, <1>7 DEF LateOK
  <2>4. sh <= sh2
    BY <1>2, <1>3, <1>7
  <2>5. ConvOK(c, lg, sh2, new, ln, sd, L2, D, T2, m)
    BY <1>1, <2>1, <2>2, <2>3 DEF ConvOK, b
  <2> QED BY <2>4, <2>5
<1> QED BY <1>6, <1>7 DEF Lands

\* What another conversation does: it may evict a mark, and then the gap is
\* forgotten.
LEMMA OthersOK ==
  ASSUME NEW c, NEW m \in Nat, NEW lg, NEW sh, NEW rm, NEW ln, NEW sd,
         NEW L, NEW D, NEW T,
         ConvOK(c, lg, sh, rm, ln, sd, L, D, T, m),
         NEW L2, c \in L => c \in L2,
         NEW D2, c \in D2 => c \in D, c \in D => c \in D2 \/ c \in L2,
         NEW T2 \in SUBSET T,
         NEW m2 \in Nat, m <= m2
  PROVE  ConvOK(c, lg, sh, rm, ln, sd, L2, D2, T2, m2)
<1> DEFINE b == Behind(lg, ln, sd)
<1>1. /\ FileOK(lg, m) /\ LaneOK(lg, ln, sd) /\ SendOK(lg, ln, sd)
      /\ CopyOK(c, lg, sh, rm, b, L) /\ ExactOK(c, sh, b, ln, sd, L, D)
      /\ LateOK(c, lg, sh, b, L, D, T)
  BY DEF ConvOK
<1>2. FileOK(lg, m2)
  <2>2. \A v \in 1..Len(lg) : DocOK(lg[v], m2)
    BY <1>1, DocWeaker DEF FileOK
  <2> QED BY <1>1, <2>2 DEF FileOK
<1>3. CopyOK(c, lg, sh, rm, b, L2)
  BY <1>1 DEF CopyOK
<1>4. ExactOK(c, sh, b, ln, sd, L2, D2)
  BY <1>1 DEF ExactOK
<1>5. LateOK(c, lg, sh, b, L2, D2, T2)
  BY <1>1 DEF LateOK
<1> QED BY <1>1, <1>2, <1>3, <1>4, <1>5 DEF ConvOK

\* LoopEnds, with nothing waiting.
LEMMA IdleOK ==
  ASSUME NEW c, NEW m \in Nat, NEW lg, NEW sh, NEW rm, NEW ln,
         NEW L, NEW D, NEW T,
         ConvOK(c, lg, sh, rm, ln, NoOp, L, D, T, m), ~ Waiting(ln)
  PROVE  ConvOK(c, lg, sh, rm, IdleLane, NoOp, L, D, T, m)
<1>1. /\ FileOK(lg, m) /\ LaneOK(lg, ln, NoOp)
      /\ CopyOK(c, lg, sh, rm, Behind(lg, ln, NoOp), L)
      /\ ExactOK(c, sh, Behind(lg, ln, NoOp), ln, NoOp, L, D)
      /\ LateOK(c, lg, sh, Behind(lg, ln, NoOp), L, D, T)
  BY DEF ConvOK
<1>2. /\ IdleLane.pending = <<>> /\ ~ IdleLane.repair /\ ~ IdleLane.draining
      /\ IdleLane \in LaneType /\ Len(IdleLane.pending) = 0
      /\ Deltas(IdleLane)
  BY DEF IdleLane, LaneType, Deltas
<1>3. ln.pending = <<>> /\ ~ ln.repair /\ Deltas(ln) /\ Len(ln.pending) = 0
  BY <1>1 DEF Waiting, LaneOK, LaneType, Deltas
<1>4. Len(lg) \in Nat /\ Len(lg) >= 1
  BY <1>1 DEF FileOK
<1>5. Behind(lg, IdleLane, NoOp) = Behind(lg, ln, NoOp)
  BY <1>2, <1>3 DEF Behind
<1>6. LaneOK(lg, IdleLane, NoOp)
  BY <1>2, <1>4, ShadowAssumption DEF LaneOK, Waiting
<1>7. SendOK(lg, IdleLane, NoOp)
  BY DEF SendOK
<1>8. ExactOK(c, sh, Behind(lg, ln, NoOp), IdleLane, NoOp, L, D)
  BY <1>1, <1>2, <1>3 DEF ExactOK
<1> QED BY <1>1, <1>5, <1>6, <1>7, <1>8 DEF ConvOK

\* The copy of a conversation whose send was cut off: as it was, or with the
\* operation on the wire applied.
CutOff(c, sh, rm, sd, L, sh2, new, L2) ==
  \/ sh2 = sh /\ new = rm /\ (c \notin L2 => c \notin L)
  \/ /\ sd # NoOp
     /\ sh2 = TakenAt(c, sh, sd, L) /\ new = Applied(rm, sd)
     /\ c \notin L2 => Exact(c, sd, L)

\* The process is gone: what the remote may have by now, and a new lane.  A
\* copy behind its file is forgotten.
LEMMA GoneOK ==
  ASSUME NEW c, NEW m \in Nat, NEW lg, NEW sh, NEW rm, NEW ln, NEW sd,
         NEW L, NEW D, NEW T,
         ConvOK(c, lg, sh, rm, ln, sd, L, D, T, m),
         NEW sh2, NEW new, NEW L2,
         CutOff(c, sh, rm, sd, L, sh2, new, L2),
         c \notin L2 => sh2 = Len(lg)
  PROVE  ConvOK(c, lg, sh2, new, IdleLane, NoOp, L2, {}, T, m) /\ sh <= sh2
<1> DEFINE b == Behind(lg, ln, sd)
           n == Len(lg)
           e == Len(lg) - Len(ln.pending)
<1>1. /\ FileOK(lg, m) /\ LaneOK(lg, ln, sd) /\ SendOK(lg, ln, sd)
      /\ CopyOK(c, lg, sh, rm, b, L)
      /\ LateOK(c, lg, sh, b, L, D, T)
  BY DEF ConvOK
<1>2. n \in Nat /\ n >= 1 /\ b \in Nat /\ b <= n /\ e \in Nat /\ e <= n
  BY <1>1, Numbers
<1>3. CopyOK(c, lg, sh, rm, n, L) /\ LateOK(c, lg, sh, n, L, D, T)
  BY <1>1, <1>2, CopyCarries, LateCarries
<1>4. /\ sh2 \in 1..n /\ sh <= sh2 /\ new \in DocType
      /\ \A i \in 1..Len(new.msgs) : \E w \in 1..n : Has(lg[w], new.msgs[i])
      /\ c \notin L2 => new = lg[sh2]
  <2>1. CASE sh2 = sh /\ new = rm /\ (c \notin L2 => c \notin L)
    BY <1>2, <1>3, <2>1 DEF CopyOK
  <2>2. CASE /\ sd # NoOp
             /\ sh2 = TakenAt(c, sh, sd, L) /\ new = Applied(rm, sd)
             /\ c \notin L2 => Exact(c, sd, L)
    <3>1. TakenOK(c, lg, sh, sh2, new, ln, sd, L, T, e)
      BY <2>2, TakenIs
    <3> HIDE DEF e, n
    <3>2. \A w \in 1..e : w \in 1..n
      BY <1>2
    <3> QED BY <1>2, <2>2, <3>1, <3>2 DEF TakenOK
  <2> QED BY <2>1, <2>2 DEF CutOff
<1>5. /\ IdleLane.pending = <<>> /\ ~ IdleLane.repair /\ ~ IdleLane.draining
      /\ IdleLane \in LaneType /\ Len(IdleLane.pending) = 0
  BY DEF IdleLane, LaneType
<1>6. Behind(lg, IdleLane, NoOp) = n
  BY <1>2, <1>5 DEF Behind
<1>7. LaneOK(lg, IdleLane, NoOp) /\ SendOK(lg, IdleLane, NoOp)
  BY <1>2, <1>5, ShadowAssumption DEF LaneOK, SendOK, Waiting
<1>8. CopyOK(c, lg, sh2, new, n, L2)
  <2>1. n <= n
    BY <1>2
  <2> QED BY <1>4, <2>1 DEF CopyOK
<1>9. ExactOK(c, sh2, n, IdleLane, NoOp, L2, {})
  BY DEF ExactOK
<1>10. LateOK(c, lg, sh2, n, L2, {}, T)
  BY <1>3 DEF LateOK
<1> QED BY <1>1, <1>4, <1>6, <1>7, <1>8, <1>9, <1>10 DEF ConvOK

\* What enqueue leaves of a lane: the deletion alone, a repair, or one more.
Queued(ln, op, new) ==
  \/ /\ op.kind = "delete"
     /\ new = [pending |-> <<op>>, repair |-> FALSE, draining |-> TRUE]
  \/ new = [pending |-> <<>>, repair |-> TRUE, draining |-> TRUE]
  \/ /\ op.kind \notin {"delete", "repair"} /\ ~ ln.repair
     /\ Len(ln.pending) < MAX_PENDING_OPERATIONS
     /\ new = [pending |-> Append(ln.pending, op), repair |-> FALSE,
               draining |-> TRUE]

LEMMA LaneWith ==
  ASSUME NEW ln \in LaneType, NEW v
  PROVE  [[ln EXCEPT !.pending = v] EXCEPT !.draining = TRUE]
           = [pending |-> v, repair |-> ln.repair, draining |-> TRUE]
<1>1. ln = [pending |-> ln.pending, repair |-> ln.repair, draining |-> ln.draining]
  BY DEF LaneType
<1>2. \A r, a, b, d, e : r = [pending |-> a, repair |-> b, draining |-> d] =>
        /\ [r EXCEPT !.draining = e] = [pending |-> a, repair |-> b, draining |-> e]
        /\ [r EXCEPT !.pending = e] = [pending |-> e, repair |-> b, draining |-> d]
  OBVIOUS
<1>3. PICK r : r = [ln EXCEPT !.pending = v]
  OBVIOUS
<1>4. r = [pending |-> v, repair |-> ln.repair, draining |-> ln.draining]
  BY <1>1, <1>2, <1>3
<1>5. PICK e : e = TRUE
  OBVIOUS
<1>6. [r EXCEPT !.draining = e]
        = [pending |-> v, repair |-> ln.repair, draining |-> e]
  BY <1>2, <1>4
<1> QED BY <1>3, <1>5, <1>6, Zenon

LEMMA EnqueuedIs ==
  ASSUME NEW ln \in LaneType, ln.repair => ln.pending = <<>>,
         NEW op \in OpType, NEW isDirty,
         NEW new, new = [Enqueued(ln, op, isDirty) EXCEPT !.draining = TRUE]
  PROVE  Queued(ln, op, new)
<1>1. /\ ln.pending \in Seq(OpType) /\ Len(ln.pending) \in Nat
      /\ ln = [pending |-> ln.pending, repair |-> ln.repair, draining |-> ln.draining]
  BY DEF LaneType
<1>2. CASE op.kind = "delete"
  BY <1>1, <1>2 DEF Enqueued, Queued
<1>3. CASE op.kind # "delete" /\ ln.repair
  BY <1>1, <1>3 DEF Enqueued, Queued
<1>4. CASE op.kind # "delete" /\ ~ ln.repair
           /\ (op.kind = "repair" \/ isDirty
                  \/ Len(ln.pending) >= MAX_PENDING_OPERATIONS)
  BY <1>1, <1>4 DEF Enqueued, Collapsed, Queued
<1>5. CASE op.kind # "delete" /\ ~ ln.repair
           /\ ~ (op.kind = "repair" \/ isDirty
                    \/ Len(ln.pending) >= MAX_PENDING_OPERATIONS)
  <2>1. new = [pending |-> Append(ln.pending, op), repair |-> FALSE, draining |-> TRUE]
    <3>1. Enqueued(ln, op, isDirty) = [ln EXCEPT !.pending = Append(@, op)]
      BY <1>5 DEF Enqueued
    <3>2. ln.repair = FALSE
      BY <1>5 DEF LaneType
    <3>3. new = [[ln EXCEPT !.pending = Append(@, op)] EXCEPT !.draining = TRUE]
      BY <3>1
    <3> QED BY <3>2, <3>3, LaneWith
  <2>2. Len(ln.pending) < MAX_PENDING_OPERATIONS
    BY <1>1, <1>5, ShadowAssumption
  <2> QED BY <1>5, <2>1, <2>2 DEF Queued
<1> QED BY <1>2, <1>3, <1>4, <1>5

\* A mutation of the file, before the loop goes on.
LEMMA QueuedOK ==
  ASSUME NEW c, NEW m \in Nat, NEW lg, NEW sh, NEW rm, NEW ln, NEW sd,
         NEW L, NEW D, NEW T,
         ConvOK(c, lg, sh, rm, ln, sd, L, D, T, m),
         NEW doc, NEW op, MutationOK(lg, m + 1, doc, op),
         NEW new, Queued(ln, op, new)
  PROVE  ConvOK(c, Append(lg, doc), sh, rm, new, sd, L, D, T, m + 1)
<1> DEFINE n == Len(lg)
           p == Len(ln.pending)
           q == Len(new.pending)
           l == Append(lg, doc)
           b == Behind(lg, ln, sd)
           b2 == Behind(l, new, sd)
<1>1. /\ FileOK(lg, m) /\ LaneOK(lg, ln, sd) /\ SendOK(lg, ln, sd)
      /\ CopyOK(c, lg, sh, rm, b, L) /\ ExactOK(c, sh, b, ln, sd, L, D)
      /\ LateOK(c, lg, sh, b, L, D, T)
  BY DEF ConvOK
<1>2. /\ n \in Nat /\ n >= 1 /\ p \in Nat /\ p < n /\ b \in Nat /\ b <= n - p
      /\ sd # NoOp => sd.at \in Nat /\ sd.at <= n - p
  BY <1>1, Numbers
<1>3. /\ FileOK(l, m + 1)
      /\ lg \in Seq(DocType) /\ doc \in DocType
      /\ OpOK(l, op) /\ op.at = n + 1 /\ op \in OpType
  <2>1. DocOK(doc, m + 1) /\ OpOK(l, op) /\ op.at = n + 1 /\ op \in OpType
    BY DEF MutationOK, OpOK
  <2>2. m + 1 \in Nat /\ m <= m + 1
    OBVIOUS
  <2>3. FileOK(l, m + 1)
    BY <1>1, <2>1, <2>2, FileGrows
  <2> QED BY <1>1, <2>1, <2>3 DEF FileOK, DocOK
<1>4. Len(l) = n + 1 /\ \A v \in 1..n : l[v] = lg[v]
  BY <1>3, LogGrows
<1>5. \A o : OpOK(lg, o) => OpOK(l, o)
  BY <1>3, OpStays
<1>6. /\ ln.pending \in Seq(OpType) /\ p <= MAX_PENDING_OPERATIONS
      /\ ln.repair \in BOOLEAN
      /\ ln = [pending |-> ln.pending, repair |-> ln.repair, draining |-> ln.draining]
      /\ ln.repair => ln.pending = <<>>
      /\ \A i \in 1..p : /\ OpOK(lg, ln.pending[i])
                         /\ ln.pending[i].kind # "repair"
                         /\ ln.pending[i].at = n - p + i
  BY <1>1 DEF LaneOK, LaneType
<1>7. Queued(ln, op, new)
  OBVIOUS
<1> HIDE DEF n, l, b, p, q
<1>8. /\ LaneOK(l, new, sd)
      /\ q \in Nat /\ q <= n /\ n - p <= n + 1 - q
      /\ Deltas(new) => Deltas(ln) /\ n - p = n + 1 - q
  <2>1. CASE /\ op.kind = "delete"
             /\ new = [pending |-> <<op>>, repair |-> FALSE, draining |-> TRUE]
    <3>1. /\ new.pending = <<op>> /\ q = 1 /\ new.pending[1] = op
          /\ ~ new.repair /\ new.draining /\ new \in LaneType
      BY <1>3, <2>1 DEF LaneType, q
    <3>2. ~ Deltas(new)
      BY <2>1, <3>1 DEF Deltas
    <3>3. \A i \in 1..q : /\ OpOK(l, new.pending[i])
                          /\ new.pending[i].kind # "repair"
                          /\ new.pending[i].at = Len(l) - q + i
      <4>1. \A i \in 1..q : i = 1
        BY <3>1
      <4>2. n + 1 - 1 + 1 = n + 1
        BY <1>2
      <4> QED BY <1>3, <1>4, <2>1, <3>1, <4>1, <4>2
    <3>4. q <= MAX_PENDING_OPERATIONS /\ q < Len(l) /\ q \in Nat /\ q <= n
          /\ n - p <= n + 1 - q
      BY <1>2, <1>4, <3>1, ShadowAssumption
    <3>5. LaneOK(l, new, sd)
      BY <3>1, <3>3, <3>4 DEF LaneOK, q
    <3> QED BY <3>2, <3>4, <3>5
  <2>2. CASE new = [pending |-> <<>>, repair |-> TRUE, draining |-> TRUE]
    <3>1. /\ new.pending = <<>> /\ q = 0
          /\ new.repair /\ new.draining /\ new \in LaneType
      BY <2>2 DEF LaneType, q
    <3>2. q <= MAX_PENDING_OPERATIONS /\ q < Len(l) /\ q \in Nat /\ q <= n
          /\ n - p <= n + 1 - q
      BY <1>2, <1>4, <3>1, ShadowAssumption
    <3>3. \A i \in 1..q : FALSE
      BY <3>1
    <3>4. LaneOK(l, new, sd)
      BY <3>1, <3>2, <3>3 DEF LaneOK, q
    <3> QED BY <3>1, <3>2, <3>4 DEF Deltas
  <2>3. CASE /\ op.kind \notin {"delete", "repair"} /\ ~ ln.repair
             /\ Len(ln.pending) < MAX_PENDING_OPERATIONS
             /\ new = [pending |-> Append(ln.pending, op), repair |-> FALSE,
                       draining |-> TRUE]
    <3>1. /\ new.pending = Append(ln.pending, op)
          /\ ~ new.repair /\ new.draining /\ new \in LaneType
      BY <1>3, <1>6, <2>3 DEF LaneType
    <3>2. /\ q = p + 1 /\ new.pending[p + 1] = op
          /\ \A i \in 1..p : new.pending[i] = ln.pending[i]
          /\ p < MAX_PENDING_OPERATIONS
      BY <1>3, <1>6, <2>3, <3>1 DEF p, q
    <3>3. q <= MAX_PENDING_OPERATIONS /\ q < Len(l) /\ q \in Nat /\ q <= n
          /\ n - p = n + 1 - q /\ n - p <= n + 1 - q
      BY <1>2, <1>4, <3>2, ShadowAssumption
    <3>4. \A i \in 1..q : /\ OpOK(l, new.pending[i])
                          /\ new.pending[i].kind # "repair"
                          /\ new.pending[i].at = Len(l) - q + i
      <4>1. ASSUME NEW i \in 1..q, i \in 1..p
            PROVE  /\ OpOK(l, new.pending[i])
                   /\ new.pending[i].kind # "repair"
                   /\ new.pending[i].at = Len(l) - q + i
        <5>1. Len(l) - q + i = n - p + i
          BY <1>2, <1>4, <3>3
        <5> QED BY <1>5, <1>6, <3>2, <4>1, <5>1
      <4>2. ASSUME NEW i \in 1..q, i = p + 1
            PROVE  /\ OpOK(l, new.pending[i])
                   /\ new.pending[i].kind # "repair"
                   /\ new.pending[i].at = Len(l) - q + i
        <5>1. Len(l) - q + i = n + 1
          BY <1>2, <1>4, <3>2, <4>2
        <5> QED BY <1>3, <2>3, <3>2, <4>2, <5>1
      <4>3. \A i \in 1..q : i \in 1..p \/ i = p + 1
        BY <1>2, <3>2
      <4> QED BY <4>1, <4>2, <4>3
    <3>5. Deltas(new) => Deltas(ln)
      <4>1. ASSUME ln.pending # <<>> PROVE new.pending[1] = ln.pending[1] /\ new.pending # <<>>
        <5>1. 1 \in 1..p
          BY <1>2, <1>6, <4>1 DEF p
        <5> QED BY <3>1, <3>2, <5>1, <1>6
      <4> QED BY <2>3, <4>1 DEF Deltas
    <3>6. LaneOK(l, new, sd)
      BY <3>1, <3>3, <3>4 DEF LaneOK, q
    <3> QED BY <3>3, <3>5, <3>6
  <2> QED BY <1>7, <2>1, <2>2, <2>3 DEF Queued
<1>9. SendOK(l, new, sd)
  <2>1. ASSUME sd # NoOp
        PROVE  /\ OpOK(l, sd) /\ sd.at <= Len(l) - Len(new.pending)
               /\ Deltas(new) => sd.at = Len(l) - Len(new.pending)
    <3>1. OpOK(l, sd) /\ sd.at <= n - p /\ (Deltas(ln) => sd.at = n - p)
      BY <1>1, <1>5, <2>1 DEF SendOK, n, p
    <3>2. sd.at <= n + 1 - q /\ (Deltas(new) => sd.at = n + 1 - q)
      BY <1>2, <1>8, <2>1, <3>1
    <3>3. Len(l) - Len(new.pending) = n + 1 - q
      BY <1>2, <1>4, <1>8 DEF q
    <3> QED BY <3>1, <3>2, <3>3
  <2> QED BY <2>1 DEF SendOK
<1>10. /\ b2 \in Nat /\ b <= b2 /\ b2 <= n + 1
       /\ sd # NoOp \/ Deltas(new) => b2 = b
  <2>1. CASE sd = NoOp
    <3>1. b2 = n + 1 - q /\ b = n - p
      BY <1>4, <2>1 DEF Behind, b, n, p, q
    <3> QED BY <1>2, <1>8, <2>1, <3>1
  <2>2. CASE sd # NoOp
    <3>1. b2 = b
      BY <2>2 DEF Behind, b
    <3> QED BY <1>2, <2>2, <3>1
  <2> QED BY <2>1, <2>2
<1> HIDE DEF b2
<1>11. CopyOK(c, l, sh, rm, b2, L)
  <2>1. /\ b \in 0..n
        /\ \A w \in 1..b : l[w] = lg[w]
    BY <1>2, <1>4
  <2>2. CopyOK(c, l, sh, rm, b, L)
    <3>1. b <= Len(l)
      BY <1>2, <1>4
    <3> QED BY <1>1, <2>1, <3>1 DEF CopyOK
  <2> QED BY <1>2, <1>4, <1>10, <2>2, CopyCarries
<1>12. ExactOK(c, sh, b2, new, sd, L, D)
  BY <1>1, <1>8, <1>10 DEF ExactOK
<1>13. LateOK(c, l, sh, b2, L, D, T)
  <2>1. LateOK(c, l, sh, b, L, D, T)
    BY <1>1, <1>5 DEF LateOK
  <2> QED BY <1>2, <1>10, <2>1, LateCarries
<1>14. ConvOK(c, l, sh, rm, new, sd, L, D, T, m + 1)
  BY <1>3, <1>8, <1>9, <1>11, <1>12, <1>13 DEF ConvOK, b2
<1> QED BY <1>14 DEF l

\* The copy and what is late, when the file has been read once more.
LEMMA ReadOK ==
  ASSUME NEW c, NEW m \in Nat, NEW lg, NEW sh, NEW rm, NEW b \in Nat,
         NEW L, NEW D, NEW T,
         FileOK(lg, m), CopyOK(c, lg, sh, rm, b, L), LateOK(c, lg, sh, b, L, D, T),
         NEW fl, DocOK(fl, m), NEW kn, kn = lg \/ kn = Append(lg, fl)
  PROVE  /\ FileOK(kn, m)
         /\ b <= Len(kn)
         /\ CopyOK(c, kn, sh, rm, b, L) /\ LateOK(c, kn, sh, b, L, D, T)
<1>1. /\ lg \in Seq(DocType) /\ fl \in DocType /\ Len(lg) \in Nat
      /\ b <= Len(lg)
  BY DEF FileOK, DocOK, CopyOK
<1>2. CASE kn = lg
  BY <1>1, <1>2
<1>3. CASE kn = Append(lg, fl)
  <2>1. FileOK(kn, m)
    <3>1. m <= m
      OBVIOUS
    <3> QED BY <1>3, <3>1, FileGrows
  <2>2. /\ Len(kn) = Len(lg) + 1 /\ b <= Len(kn)
        /\ \A w \in 1..Len(lg) : kn[w] = lg[w]
    BY <1>1, <1>3, LogGrows
  <2>3. /\ \A w \in 1..b : kn[w] = lg[w]
        /\ sh \in 1..b
    BY <1>1, <2>2 DEF CopyOK
  <2>4. CopyOK(c, kn, sh, rm, b, L)
    BY <2>2, <2>3 DEF CopyOK
  <2>5. LateOK(c, kn, sh, b, L, D, T)
    <3>1. \A o : OpOK(lg, o) => OpOK(kn, o)
      BY <1>1, <1>3, OpStays
    <3> QED BY <3>1 DEF LateOK
  <2> QED BY <2>1, <2>2, <2>4, <2>5
<1> QED BY <1>2, <1>3

\* What the shadow knows of the file once the loop has gone on.
KnownOf(lg, fl, reads) == IF reads /\ fl # lg[Len(lg)] THEN Append(lg, fl) ELSE lg

LEMMA ProceedOK ==
  ASSUME NEW c, NEW m \in Nat, NEW lg, NEW sh, NEW rm, NEW ln, NEW L, NEW D, NEW T,
         ConvOK(c, lg, sh, rm, ln, NoOp, L, D, T, m), ln.draining,
         NEW fl, DocOK(fl, m),
         NEW kn, kn = KnownOf(lg, fl, Reads(ln, c \in D))
  PROVE  /\ ConvOK(c, kn, sh, rm, NextLane(ln, c \in D),
                   NextSend(ln, c \in D, fl, Len(kn)), L, D, T, m)
         /\ (kn = lg \/ kn = Append(lg, fl))
<1> DEFINE s == Settled(ln, c \in D)
           new == NextLane(ln, c \in D)
           sd == NextSend(ln, c \in D, fl, Len(kn))
<1>1. kn = lg \/ kn = Append(lg, fl)
  BY DEF KnownOf
<1>2. CASE ~ Reads(ln, c \in D)
  <2>1. kn = lg /\ sd = NextSend(ln, c \in D, lg[Len(lg)], Len(lg))
    BY <1>2 DEF KnownOf, Reads, NextSend
  <2>2. ConvOK(c, lg, sh, rm, new, sd, L, D, T, m)
    BY <2>1, AdvanceOK
  <2> QED BY <1>1, <2>1, <2>2
<1>3. CASE Reads(ln, c \in D)
  <2>1. Waiting(ln) /\ s.repair
    BY <1>3 DEF Reads
  <2>2. new = [pending |-> <<>>, repair |-> FALSE, draining |-> TRUE]
    <3>1. /\ ln \in LaneType
          /\ ln = [pending |-> ln.pending, repair |-> ln.repair,
                   draining |-> ln.draining]
          /\ ln.repair => ln.pending = <<>>
      BY DEF ConvOK, LaneOK, LaneType
    <3>2. s = [pending |-> <<>>, repair |-> TRUE, draining |-> TRUE]
      <4>1. CASE s = ln
        BY <2>1, <3>1, <4>1 DEF LaneType
      <4>2. CASE s = Collapsed(ln)
        BY <3>1, <4>2 DEF Collapsed, LaneType
      <4> QED BY <4>1, <4>2 DEF Settled
    <3>3. PICK r : r = s
      OBVIOUS
    <3>4. new = [r EXCEPT !.repair = FALSE]
      BY <2>1, <3>3 DEF NextLane
    <3>5. r = [pending |-> <<>>, repair |-> TRUE, draining |-> TRUE]
      BY <3>2, <3>3
    <3> HIDE DEF s, new
    <3> QED BY <3>4, <3>5
  <2>3. sd = RepairSend(fl, Len(kn))
    BY <2>1 DEF NextSend
  <2>4. PICK b : b = Behind(lg, ln, NoOp)
    OBVIOUS
  <2>5. /\ FileOK(lg, m) /\ b \in Nat
        /\ CopyOK(c, lg, sh, rm, b, L) /\ LateOK(c, lg, sh, b, L, D, T)
    BY <2>4, Numbers DEF ConvOK
  <2>6. /\ FileOK(kn, m) /\ b <= Len(kn)
        /\ CopyOK(c, kn, sh, rm, b, L) /\ LateOK(c, kn, sh, b, L, D, T)
    BY <1>1, <2>5, ReadOK
  <2>7. kn[Len(kn)] = fl
    <3>1. CASE fl = lg[Len(lg)]
      BY <3>1 DEF KnownOf
    <3>2. CASE fl # lg[Len(lg)]
      <4>1. kn = Append(lg, fl) /\ lg \in Seq(DocType) /\ fl \in DocType
        BY <1>3, <2>5, <3>2 DEF KnownOf, FileOK, DocOK
      <4> QED BY <4>1, LogGrows
    <3> QED BY <3>1, <3>2
  <2> HIDE DEF new, sd
  <2>8. sd = RepairSend(kn[Len(kn)], Len(kn))
    BY <2>3, <2>7
  <2>9. ConvOK(c, kn, sh, rm, new, sd, L, D, T, m)
    BY <2>2, <2>5, <2>6, <2>8, RepairNext
  <2> QED BY <1>1, <2>9 DEF new, sd
<1> QED BY <1>2, <1>3

-----------------------------------------------------------------------------
(* The dirty set.                                                          *)

LEMMA MarkIs ==
  ASSUME NEW d \in Seq(Conversations), Len(d) <= MAX_DIRTY_CONVERSATIONS,
         \A i, j \in 1..Len(d) : d[i] = d[j] => i = j,
         NEW c \in Conversations, NEW e, e = MarkDirty(d, c)
  PROVE  /\ e \in Seq(Conversations) /\ Len(e) <= MAX_DIRTY_CONVERSATIONS
         /\ \A i, j \in 1..Len(e) : e[i] = e[j] => i = j
         /\ IsDirty(e, c)
         /\ \A x : IsDirty(e, x) => x = c \/ IsDirty(d, x)
<1>1. CASE IsDirty(d, c)
  BY <1>1 DEF MarkDirty
<1>2. CASE ~ IsDirty(d, c)
  <2>1. PICK r : r = IF Len(d) >= MAX_DIRTY_CONVERSATIONS THEN Tail(d) ELSE d
    OBVIOUS
  <2>2. e = Append(r, c)
    BY <1>2, <2>1 DEF MarkDirty
  <2>3. Len(d) \in Nat
    OBVIOUS
  <2>4. /\ r \in Seq(Conversations) /\ Len(r) \in Nat
        /\ Len(r) + 1 <= MAX_DIRTY_CONVERSATIONS
        /\ \E k \in {0, 1} :
             /\ Len(r) = Len(d) - k
             /\ \A i \in 1..Len(r) : r[i] = d[i + k]
    <3>1. CASE Len(d) >= MAX_DIRTY_CONVERSATIONS
      <4>1. d # <<>> /\ Len(d) >= 1 /\ Len(d) = MAX_DIRTY_CONVERSATIONS
        BY <2>3, <3>1, ShadowAssumption
      <4>2. r = Tail(d)
        BY <2>1, <3>1
      <4>3. r \in Seq(Conversations) /\ Len(r) = Len(d) - 1
            /\ \A i \in 1..Len(r) : r[i] = d[i + 1]
        BY <4>1, <4>2
      <4> QED BY <2>3, <4>1, <4>3, ShadowAssumption
    <3>2. CASE ~ (Len(d) >= MAX_DIRTY_CONVERSATIONS)
      <4>1. r = d
        BY <2>1, <3>2
      <4> QED BY <2>3, <3>2, <4>1, ShadowAssumption
    <3> QED BY <3>1, <3>2
  <2>5. PICK k \in {0, 1} : /\ Len(r) = Len(d) - k
                            /\ \A i \in 1..Len(r) : r[i] = d[i + k]
    BY <2>4
  <2>6. \A i \in 1..Len(r) : i + k \in 1..Len(d)
    BY <2>3, <2>4, <2>5
  <2>7. /\ e \in Seq(Conversations) /\ Len(e) = Len(r) + 1
        /\ \A i \in 1..Len(r) : e[i] = r[i]
        /\ e[Len(r) + 1] = c
    BY <2>2, <2>4
  <2>8. \A i \in 1..Len(r) : e[i] # c
    BY <1>2, <2>5, <2>6, <2>7 DEF IsDirty
  <2>9. ASSUME NEW i \in 1..Len(e), NEW j \in 1..Len(e), e[i] = e[j]
        PROVE  i = j
    <3>1. CASE i \in 1..Len(r) /\ j \in 1..Len(r)
      <4>1. d[i + k] = d[j + k]
        BY <2>5, <2>7, <2>9, <3>1
      <4>2. i + k = j + k
        BY <2>6, <3>1, <4>1
      <4> QED BY <3>1, <4>2
    <3>2. \A x \in 1..Len(e) : x \in 1..Len(r) \/ x = Len(r) + 1
      BY <2>4, <2>7
    <3> QED BY <2>7, <2>8, <2>9, <3>1, <3>2
  <2>10. IsDirty(e, c)
    BY <2>4, <2>7 DEF IsDirty
  <2>11. ASSUME NEW x, IsDirty(e, x), x # c PROVE IsDirty(d, x)
    <3>1. PICK i \in 1..Len(e) : e[i] = x
      BY <2>11 DEF IsDirty
    <3>2. i \in 1..Len(r)
      BY <2>4, <2>7, <2>11, <3>1
    <3>3. d[i + k] = x /\ i + k \in 1..Len(d)
      BY <2>5, <2>6, <2>7, <3>1, <3>2
    <3> QED BY <3>3 DEF IsDirty
  <2> QED BY <2>4, <2>7, <2>9, <2>10, <2>11
<1> QED BY <1>1, <1>2

LEMMA CleanedIs ==
  ASSUME NEW d \in Seq(Conversations), Len(d) <= MAX_DIRTY_CONVERSATIONS,
         \A i, j \in 1..Len(d) : d[i] = d[j] => i = j,
         NEW c \in Conversations, NEW e, e = Cleaned(d, c)
  PROVE  /\ e \in Seq(Conversations) /\ Len(e) <= MAX_DIRTY_CONVERSATIONS
         /\ \A i, j \in 1..Len(e) : e[i] = e[j] => i = j
         /\ \A x : IsDirty(e, x) <=> x # c /\ IsDirty(d, x)
<1>1. CASE ~ IsDirty(d, c)
  BY <1>1 DEF Cleaned
<1>2. CASE IsDirty(d, c)
  <2>1. PICK p : p = CHOOSE i \in 1..Len(d) : d[i] = c
    OBVIOUS
  <2>2. p \in 1..Len(d) /\ d[p] = c
    BY <1>2, <2>1 DEF IsDirty
  <2>3. e = [k \in 1..Len(d) - 1 |-> IF k < p THEN d[k] ELSE d[k + 1]]
    BY <1>2, <2>1 DEF Cleaned
  <2>4. PICK n \in Nat : Len(d) = n + 1
    <3>1. Len(d) \in Nat /\ Len(d) >= 1
      BY <2>2
    <3>2. Len(d) - 1 \in Nat /\ Len(d) = Len(d) - 1 + 1
      BY <3>1
    <3> QED BY <3>2
  <2>5. e = [k \in 1..n |-> IF k < p THEN d[k] ELSE d[k + 1]]
    BY <2>3, <2>4
  <2>6. \A k \in 1..n : k \in 1..Len(d) /\ k + 1 \in 1..Len(d)
    BY <2>4
  <2>7. \A k \in 1..Len(d) : d[k] \in Conversations
    OBVIOUS
  <2>8. e \in Seq(Conversations) /\ Len(e) = n
    BY <2>4, <2>5, <2>6, <2>7
  <2> DEFINE at(k) == IF k < p THEN k ELSE k + 1
  <2>9. \A k \in 1..n : e[k] = d[at(k)] /\ at(k) \in 1..Len(d) /\ at(k) # p
    BY <2>2, <2>4, <2>5
  <2>10. \A i, j \in 1..n : at(i) = at(j) => i = j
    BY <2>2, <2>4
  <2>11. \A x \in 1..Len(d) : x # p => \E k \in 1..n : at(k) = x
    <3>1. ASSUME NEW x \in 1..Len(d), x # p PROVE \E k \in 1..n : at(k) = x
      <4>1. CASE x < p
        BY <2>2, <2>4, <4>1
      <4>2. CASE x > p
        <5>1. x - 1 \in 1..n /\ at(x - 1) = x
          BY <2>2, <2>4, <4>2
        <5> QED BY <5>1
      <4> QED BY <2>2, <3>1, <4>1, <4>2
    <3> QED BY <3>1
  <2> HIDE DEF at
  <2>12. \A i, j \in 1..Len(e) : e[i] = e[j] => i = j
    BY <2>8, <2>9, <2>10
  <2>13. ASSUME NEW x, IsDirty(e, x) PROVE x # c /\ IsDirty(d, x)
    <3>1. PICK k \in 1..n : e[k] = x
      BY <2>8, <2>13 DEF IsDirty
    <3> QED BY <2>2, <2>9, <3>1 DEF IsDirty
  <2>14. ASSUME NEW x, x # c, IsDirty(d, x) PROVE IsDirty(e, x)
    <3>1. PICK i \in 1..Len(d) : d[i] = x
      BY <2>14 DEF IsDirty
    <3>2. PICK k \in 1..n : at(k) = i
      BY <2>2, <2>11, <2>14, <3>1
    <3> QED BY <2>8, <2>9, <3>1, <3>2 DEF IsDirty
  <2>15. n <= MAX_DIRTY_CONVERSATIONS
    BY <2>4, ShadowAssumption
  <2> QED BY <2>8, <2>12, <2>13, <2>14, <2>15
<1> QED BY <1>1, <1>2

-----------------------------------------------------------------------------
(* Steps of the system.                                                    *)

\* A function with one value changed.
LEMMA Changed ==
  ASSUME NEW S, NEW f, f = [x \in S |-> f[x]], NEW c \in S, NEW v, NEW g,
         g = [f EXCEPT ![c] = v]
  PROVE  /\ g = [x \in S |-> g[x]]
         /\ g[c] = v
         /\ \A x \in S : x # c => g[x] = f[x]
OBVIOUS

LEMMA AdvanceIs ==
  ASSUME NEW c, NEW l, NEW isDirty, NEW doc, NEW at, Advance(c, l, isDirty, doc, at)
  PROVE  /\ lane' = [lane EXCEPT ![c] = NextLane(l, isDirty)]
         /\ sending' = [sending EXCEPT ![c] = NextSend(l, isDirty, doc, at)]
BY DEF Advance, NextLane, NextSend

\* A file only goes on, and a copy never falls back.
Follows(c) ==
  /\ shown[c] <= shown'[c]
  /\ log'[c] = log[c] \/ \E doc : log'[c] = Append(log[c], doc)

\* A step of conversation c; the others may lose a mark, and are lost then.
LEMMA OneMoves ==
  ASSUME ShadowInv, NEW c \in Conversations,
         ConvOK(c, log'[c], shown'[c], remote'[c], lane'[c], sending'[c], lost', Dirty',
                LateOf(c)', mutations'),
         DocOK(file'[c], mutations'),
         Follows(c), DirtyOK', Shapes',
         mutations <= mutations',
         \A x \in Conversations : x # c =>
           /\ log'[x] = log[x] /\ shown'[x] = shown[x] /\ remote'[x] = remote[x]
           /\ lane'[x] = lane[x] /\ sending'[x] = sending[x] /\ file'[x] = file[x]
           /\ x \in lost => x \in lost'
           /\ x \in Dirty' => x \in Dirty
           /\ x \in Dirty => x \in Dirty' \/ x \in lost'
           /\ LateOf(x)' \subseteq LateOf(x)
  PROVE  ShadowInv' /\ \A x \in Conversations : Follows(x)
<1>1. ASSUME NEW x \in Conversations, x # c
      PROVE  /\ ConvOK(x, log'[x], shown'[x], remote'[x], lane'[x], sending'[x], lost',
                       Dirty', LateOf(x)', mutations')
             /\ Follows(x) /\ DocOK(file'[x], mutations')
  <2>1. ConvOK(x, log[x], shown[x], remote[x], lane[x], sending[x], lost, Dirty,
               LateOf(x), mutations)
    BY DEF ShadowInv
  <2>2. mutations \in Nat /\ mutations' \in Nat
    BY DEF ShadowInv, Shapes
  <2>3. ConvOK(x, log[x], shown[x], remote[x], lane[x], sending[x], lost', Dirty',
               LateOf(x)', mutations')
    BY <1>1, <2>1, <2>2, OthersOK
  <2>4. shown[x] <= shown[x]
    BY <2>1 DEF ConvOK, CopyOK
  <2>5. DocOK(file[x], mutations')
    BY <2>2, DocWeaker DEF ShadowInv
  <2> QED BY <1>1, <2>3, <2>4, <2>5 DEF Follows
<1>2. \A x \in Conversations :
        /\ ConvOK(x, log'[x], shown'[x], remote'[x], lane'[x], sending'[x], lost',
                  Dirty', LateOf(x)', mutations')
        /\ Follows(x) /\ DocOK(file'[x], mutations')
  BY <1>1
<1> QED BY <1>2 DEF ShadowInv

-----------------------------------------------------------------------------
(* A mutation of a file.                                                   *)

\* The operation of a mutation, once its document and version are known.
Made(op, doc, at, torn) == [op EXCEPT !.doc = doc, !.at = at, !.torn = torn]

LEMMA OpWith ==
  ASSUME NEW k, NEW t, NEW title, NEW n, NEW d, NEW a, NEW b, NEW doc, NEW at,
         NEW torn, NEW r,
         r = [kind |-> k, turn |-> t, title |-> title, count |-> n, doc |-> d,
              at |-> a, torn |-> b]
  PROVE  Made(r, doc, at, torn)
           = [kind |-> k, turn |-> t, title |-> title, count |-> n, doc |-> doc,
              at |-> at, torn |-> torn]
<1>1. Made(r, doc, at, torn)
        = [[[r EXCEPT !.doc = doc] EXCEPT !.at = at] EXCEPT !.torn = torn]
  BY DEF Made
<1>2. PICK q : q = [r EXCEPT !.doc = doc]
  OBVIOUS
<1>3. q = [kind |-> k, turn |-> t, title |-> title, count |-> n, doc |-> doc,
           at |-> a, torn |-> b]
  BY <1>2
<1>4. PICK p : p = [q EXCEPT !.at = at]
  OBVIOUS
<1>5. p = [kind |-> k, turn |-> t, title |-> title, count |-> n, doc |-> doc,
           at |-> at, torn |-> b]
  BY <1>3, <1>4
<1>6. [p EXCEPT !.torn = torn]
        = [kind |-> k, turn |-> t, title |-> title, count |-> n, doc |-> doc,
           at |-> at, torn |-> torn]
  BY <1>5
<1> QED BY <1>1, <1>2, <1>4, <1>6, Zenon

LEMMA LaneSame ==
  ASSUME NEW e, NEW a, NEW b, NEW d,
         e = [pending |-> a, repair |-> b, draining |-> d]
  PROVE  [e EXCEPT !.draining = d] = e
OBVIOUS

\* What the loop makes of a mutation: `e` is the lane with its operation.
LEMMA MutatedOK ==
  ASSUME NEW c, NEW m \in Nat, NEW lg, NEW sh, NEW rm, NEW ln, NEW sd,
         NEW L, NEW D, NEW T,
         ConvOK(c, lg, sh, rm, ln, sd, L, D, T, m),
         NEW doc, NEW op, MutationOK(lg, m + 1, doc, op),
         NEW e, e = Enqueued(ln, op, c \in D),
         NEW f, f = [e EXCEPT !.draining = TRUE],
         NEW l2, NEW s2,
         e.draining => l2 = e /\ s2 = sd,
         ~ e.draining => /\ l2 = NextLane(f, c \in D)
                         /\ s2 = NextSend(f, c \in D, doc, Len(lg) + 1)
  PROVE  ConvOK(c, Append(lg, doc), sh, rm, l2, s2, L, D, T, m + 1)
<1>1. FileOK(lg, m) /\ LaneOK(lg, ln, sd)
  BY DEF ConvOK
<1>2. ln \in LaneType /\ (ln.repair => ln.pending = <<>>) /\ op \in OpType
  BY <1>1 DEF LaneOK, MutationOK, OpOK
<1>3. Queued(ln, op, f)
  BY <1>2, EnqueuedIs
<1>4. ConvOK(c, Append(lg, doc), sh, rm, f, sd, L, D, T, m + 1)
  BY <1>3, QueuedOK
<1>5. f.draining
  BY <1>3 DEF Queued
<1>6. /\ e.draining = ln.draining
      /\ e.draining => f = e
  <2>1. /\ ln = [pending |-> ln.pending, repair |-> ln.repair, draining |-> ln.draining]
        /\ ln.draining \in BOOLEAN
    BY <1>2 DEF LaneType
  <2>2. \E p, r : e = [pending |-> p, repair |-> r, draining |-> ln.draining]
    <3>1. CASE op.kind = "delete"
      BY <2>1, <3>1 DEF Enqueued
    <3>2. CASE op.kind # "delete" /\ ln.repair
      BY <2>1, <3>2 DEF Enqueued
    <3>3. CASE op.kind # "delete" /\ ~ ln.repair
               /\ (op.kind = "repair" \/ c \in D
                     \/ Len(ln.pending) >= MAX_PENDING_OPERATIONS)
      BY <2>1, <3>3 DEF Enqueued, Collapsed
    <3>4. CASE op.kind # "delete" /\ ~ ln.repair
               /\ ~ (op.kind = "repair" \/ c \in D
                       \/ Len(ln.pending) >= MAX_PENDING_OPERATIONS)
      <4>1. e = [ln EXCEPT !.pending = Append(@, op)]
        BY <3>4 DEF Enqueued
      <4>2. PICK v : v = Append(ln.pending, op)
        OBVIOUS
      <4>3. e = [ln EXCEPT !.pending = v]
        BY <4>1, <4>2
      <4> QED BY <2>1, <4>3
    <3> QED BY <3>1, <3>2, <3>3, <3>4
  <2>3. PICK p, r : e = [pending |-> p, repair |-> r, draining |-> ln.draining]
    BY <2>2
  <2>4. e.draining = ln.draining
    BY <2>3
  <2>5. ASSUME e.draining PROVE f = e
    <3>1. ln.draining = TRUE
      BY <2>1, <2>4, <2>5
    <3>2. f = [e EXCEPT !.draining = ln.draining]
      BY <3>1
    <3>3. [e EXCEPT !.draining = ln.draining] = e
      BY <2>3, LaneSame
    <3> QED BY <3>2, <3>3, Zenon
  <2> QED BY <2>4, <2>5
<1>7. CASE e.draining
  BY <1>4, <1>6, <1>7
<1>8. CASE ~ e.draining
  <2>1. sd = NoOp
    BY <1>1, <1>6, <1>8 DEF LaneOK
  <2>2. PICK l : l = Append(lg, doc)
    OBVIOUS
  <2>3. l[Len(l)] = doc /\ Len(l) = Len(lg) + 1
    BY <1>1, <2>2, LogGrows DEF FileOK, MutationOK, DocOK
  <2>4. ConvOK(c, l, sh, rm, f, NoOp, L, D, T, m + 1)
    BY <1>4, <2>1, <2>2
  <2>5. ConvOK(c, l, sh, rm, NextLane(f, c \in D),
               NextSend(f, c \in D, l[Len(l)], Len(l)), L, D, T, m + 1)
    <3>1. m + 1 \in Nat
      OBVIOUS
    <3> QED BY <1>5, <2>4, <3>1, AdvanceOK
  <2> QED BY <1>8, <2>2, <2>3, <2>5
<1> QED BY <1>7, <1>8

\* Nothing but a mark or two tells the dirty set from the dirty conversations.
LEMMA DirtyIs ==
  ASSUME NEW c \in Conversations
  PROVE  IsDirty(dirty, c) <=> c \in Dirty
BY DEF Dirty

\* The version a copy shows is a number.
LEMMA ShownIs ==
  ASSUME ShadowInv
  PROVE  \A c \in Conversations : shown[c] \in Nat /\ shown[c] <= shown[c]
<1>1. ASSUME NEW c \in Conversations
      PROVE  shown[c] \in Nat /\ shown[c] <= shown[c]
  <2>1. PICK lg, sh, rm, ln, sd, m, L, D, T :
          /\ lg = log[c] /\ sh = shown[c] /\ rm = remote[c] /\ ln = lane[c]
          /\ sd = sending[c] /\ m = mutations /\ L = lost /\ D = Dirty /\ T = LateOf(c)
    OBVIOUS
  <2>2. ConvOK(c, lg, sh, rm, ln, sd, L, D, T, m)
    BY <2>1 DEF ShadowInv
  <2>3. PICK b : sh \in 1..b
    BY <2>2 DEF ConvOK, CopyOK
  <2>4. sh \in Nat /\ sh <= sh
    BY <2>3
  <2> QED BY <2>1, <2>4
<1> QED BY <1>1

LEMMA MutateOK ==
  ASSUME ShadowInv, NEW c \in Conversations, NEW doc, NEW op, NEW more,
         MutationOK(log[c], mutations + 1, doc,
                    Made(op, doc, Len(log[c]) + 1, more \/ Unheard(c))),
         Mutate(c, doc, op, more)
  PROVE  ShadowInv' /\ \A x \in Conversations : Follows(x)
<1>1. PICK lg, sh, rm, ln, sd, m, L, D, T :
        /\ lg = log[c] /\ sh = shown[c] /\ rm = remote[c] /\ ln = lane[c]
        /\ sd = sending[c] /\ m = mutations /\ L = lost /\ D = Dirty /\ T = LateOf(c)
  OBVIOUS
<1>2. PICK o, e, f, d :
        /\ o = Made(op, doc, Len(lg) + 1, more \/ Unheard(c))
        /\ d = (c \in D)
        /\ e = Enqueued(ln, o, c \in D)
        /\ f = [e EXCEPT !.draining = TRUE]
  OBVIOUS
<1>3. ConvOK(c, lg, sh, rm, ln, sd, L, D, T, m) /\ m \in Nat
  BY <1>1 DEF ShadowInv, Shapes
<1>4. MutationOK(lg, m + 1, doc, o)
  BY <1>1, <1>2
<1>5. /\ log' = [log EXCEPT ![c] = Append(lg, doc)]
      /\ mutations < MaxMutations /\ mutations' = m + 1
      /\ shown' = shown /\ lost' = lost /\ remote' = remote /\ dirty' = dirty
      /\ late' = late /\ process' = process
      /\ file' = [file EXCEPT ![c] = doc]
  BY <1>1 DEF Mutate, Fresh
<1>6. Drain(c, Enqueued(ln, o, IsDirty(dirty, c)), doc, Len(lg) + 1)
  BY <1>1, <1>2 DEF Mutate, Made
<1>7. Drain(c, e, doc, Len(lg) + 1)
  <2>1. Enqueued(ln, o, IsDirty(dirty, c)) = e
    BY <1>1, <1>2, DirtyIs DEF Enqueued
  <2> QED BY <1>6, <2>1
<1>8. PICK l2, s2 :
        /\ lane' = [lane EXCEPT ![c] = l2] /\ sending' = [sending EXCEPT ![c] = s2]
        /\ e.draining => l2 = e /\ s2 = sd
        /\ ~ e.draining => /\ l2 = NextLane(f, c \in D)
                           /\ s2 = NextSend(f, c \in D, doc, Len(lg) + 1)
  <2>1. CASE e.draining
    <3>1. lane' = [lane EXCEPT ![c] = e] /\ sending' = sending
      BY <1>7, <2>1 DEF Drain
    <3>2. sending = [sending EXCEPT ![c] = sd]
      BY <1>1 DEF ShadowInv, Shapes
    <3> QED BY <2>1, <3>1, <3>2
  <2>2. CASE ~ e.draining
    <3>1. Advance(c, f, IsDirty(dirty, c), doc, Len(lg) + 1)
      BY <1>2, <1>7, <2>2 DEF Drain
    <3>2. /\ lane' = [lane EXCEPT ![c] = NextLane(f, IsDirty(dirty, c))]
          /\ sending' = [sending EXCEPT ![c] =
                           NextSend(f, IsDirty(dirty, c), doc, Len(lg) + 1)]
      BY <3>1, AdvanceIs
    <3>3. /\ NextLane(f, IsDirty(dirty, c)) = NextLane(f, c \in D)
          /\ NextSend(f, IsDirty(dirty, c), doc, Len(lg) + 1)
               = NextSend(f, c \in D, doc, Len(lg) + 1)
      BY <1>1, DirtyIs DEF NextLane, NextSend, Settled
    <3> QED BY <2>2, <3>2, <3>3
  <2> QED BY <2>1, <2>2
<1>9. ConvOK(c, Append(lg, doc), sh, rm, l2, s2, L, D, T, m + 1)
  BY <1>2, <1>3, <1>4, <1>8, MutatedOK
<1>10. /\ log' = [x \in Conversations |-> log'[x]] /\ log'[c] = Append(lg, doc)
       /\ \A x \in Conversations : x # c => log'[x] = log[x]
  BY <1>5, Changed DEF ShadowInv, Shapes
<1>11. /\ lane' = [x \in Conversations |-> lane'[x]] /\ lane'[c] = l2
       /\ \A x \in Conversations : x # c => lane'[x] = lane[x]
  BY <1>8, Changed DEF ShadowInv, Shapes
<1>12. /\ sending' = [x \in Conversations |-> sending'[x]] /\ sending'[c] = s2
       /\ \A x \in Conversations : x # c => sending'[x] = sending[x]
  BY <1>8, Changed DEF ShadowInv, Shapes
<1>13. Dirty' = D /\ \A x : LateOf(x)' = LateOf(x)
  BY <1>1, <1>5 DEF Dirty, LateOf
<1>14. ConvOK(c, log'[c], shown'[c], remote'[c], lane'[c], sending'[c], lost', Dirty',
              LateOf(c)', mutations')
  BY <1>1, <1>5, <1>9, <1>10, <1>11, <1>12, <1>13
<1>18. /\ file' = [x \in Conversations |-> file'[x]] /\ file'[c] = doc
       /\ \A x \in Conversations : x # c => file'[x] = file[x]
  BY <1>5, Changed DEF ShadowInv, Shapes
<1>19. DocOK(file'[c], mutations')
  BY <1>4, <1>5, <1>18 DEF MutationOK
<1>15. Shapes'
  <2>1. mutations' \in 0..MaxMutations
    BY <1>1, <1>3, <1>5, ShadowAssumption
  <2> QED BY <1>5, <1>10, <1>11, <1>12, <1>18, <2>1 DEF ShadowInv, Shapes
<1>16. DirtyOK'
  BY <1>5 DEF ShadowInv, DirtyOK
<1>17. Follows(c) /\ mutations <= mutations'
  <2>1. shown'[c] = shown[c] /\ shown[c] <= shown[c]
    BY <1>5, ShownIs
  <2>2. log'[c] = Append(log[c], doc)
    BY <1>1, <1>10
  <2>3. mutations <= mutations'
    BY <1>1, <1>3, <1>5
  <2> QED BY <2>1, <2>2, <2>3 DEF Follows
<1> QED BY <1>1, <1>5, <1>10, <1>11, <1>12, <1>13, <1>14, <1>15, <1>16, <1>17, <1>18,
           <1>19, OneMoves

\* A checkpoint in the file, and nothing else.
LEMMA SaveCompactionOK ==
  ASSUME ShadowInv, NEW c \in Conversations, SaveCompaction(c)
  PROVE  ShadowInv' /\ \A x \in Conversations : Follows(x)
<1>1. PICK lg, sh, rm, ln, sd, m, L, D, T :
        /\ lg = log[c] /\ sh = shown[c] /\ rm = remote[c] /\ ln = lane[c]
        /\ sd = sending[c] /\ m = mutations /\ L = lost /\ D = Dirty /\ T = LateOf(c)
  OBVIOUS
<1>2. /\ ConvOK(c, lg, sh, rm, ln, sd, L, D, T, m) /\ m \in Nat
      /\ DocOK(file[c], m)
  BY <1>1 DEF ShadowInv, Shapes
<1>3. /\ log' = log /\ shown' = shown /\ lost' = lost /\ remote' = remote
      /\ lane' = lane /\ sending' = sending /\ dirty' = dirty /\ late' = late
      /\ process' = process
      /\ m < MaxMutations /\ mutations' = m + 1 /\ m + 1 \in Nat /\ m <= m + 1
      /\ file' = [file EXCEPT ![c] = WithMessage(file[c], Message(0, "summary"))]
  BY <1>1, <1>2 DEF SaveCompaction, Fresh
<1>4. DocOK(WithMessage(file[c], Message(0, "summary")), m + 1)
  <2>1. file[c].exists
    <3>1. PICK i \in 1..Len(file[c].msgs) : Records(c, i)
      BY DEF SaveCompaction, AtWork
    <3>2. file[c].msgs # <<>>
      BY <3>1
    <3> QED BY <1>2, <3>2 DEF DocOK
  <2>2. Message(0, "summary") \in MessageType /\ Message(0, "summary").turn <= m
    BY <1>2, MessageIs DEF Roles
  <2>3. DocOK(WithMessage(file[c], Message(0, "summary")), m)
    BY <1>2, <2>1, <2>2, LongerDoc
  <2> QED BY <1>2, <1>3, <2>3, DocWeaker
<1>5. /\ file' = [x \in Conversations |-> file'[x]]
      /\ file'[c] = WithMessage(file[c], Message(0, "summary"))
      /\ \A x \in Conversations : x # c => file'[x] = file[x]
  BY <1>3, Changed DEF ShadowInv, Shapes
<1>6. Dirty' = Dirty /\ \A x : LateOf(x)' = LateOf(x)
  BY <1>3 DEF Dirty, LateOf
<1>7. ConvOK(c, lg, sh, rm, ln, sd, L, D, T, m + 1)
  BY <1>2, <1>3, OthersOK
<1>8. ConvOK(c, log'[c], shown'[c], remote'[c], lane'[c], sending'[c], lost', Dirty',
             LateOf(c)', mutations')
  BY <1>1, <1>3, <1>6, <1>7
<1>9. Shapes'
  <2>1. mutations' \in 0..MaxMutations
    BY <1>2, <1>3, ShadowAssumption
  <2> QED BY <1>3, <1>5, <2>1 DEF ShadowInv, Shapes
<1>10. DirtyOK'
  BY <1>3 DEF ShadowInv, DirtyOK
<1>11. Follows(c)
  BY <1>3, ShownIs DEF Follows
<1>12. DocOK(file'[c], mutations') /\ mutations <= mutations'
  BY <1>1, <1>3, <1>4, <1>5
<1> QED BY <1>3, <1>5, <1>6, <1>8, <1>9, <1>10, <1>11, <1>12, OneMoves

\* The reply of the turn at work: who it answers, and that it is a new one.
LEMMA AtWorkIs ==
  ASSUME ShadowInv, NEW c \in Conversations, AtWork(c)
  PROVE  /\ TurnAtWork(c) \in Nat /\ TurnAtWork(c) <= mutations
         /\ file[c].msgs # <<>> /\ file[c].exists
         /\ \A w \in 1..Len(log[c]) :
              ~ Has(log[c][w], Message(TurnAtWork(c), "assistant"))
<1>1. PICK i : i = CHOOSE j \in 1..Len(file[c].msgs) : Records(c, j)
  OBVIOUS
<1>2. i \in 1..Len(file[c].msgs) /\ Records(c, i)
  BY <1>1 DEF AtWork
<1>3. TurnAtWork(c) = file[c].msgs[i].turn
  BY <1>1 DEF TurnAtWork
<1>4. DocOK(file[c], mutations) /\ mutations \in Nat
  BY DEF ShadowInv, Shapes
<1>5. file[c].msgs[i] \in MessageType /\ file[c].msgs[i].turn <= mutations
  BY <1>2, <1>4, DocSays DEF DocOK
<1>6. file[c].msgs # <<>>
  BY <1>2
<1> QED BY <1>2, <1>3, <1>4, <1>5, <1>6 DEF DocOK, MessageType, Records

\* Every write of a file.
LEMMA WriteOK ==
  ASSUME ShadowInv, NEW c \in Conversations, Write(c)
  PROVE  ShadowInv' /\ \A x \in Conversations : Follows(x)
<1>1. PICK lg, m, d : lg = log[c] /\ m = mutations /\ d = file[c]
  OBVIOUS
<1>2. FileOK(lg, m) /\ m \in Nat /\ DocOK(d, m)
  BY <1>1 DEF ShadowInv, Shapes, ConvOK
<1>3. Unheard(c) <=> d # lg[Len(lg)]
  BY <1>1 DEF Unheard, Told
<1>5. d \in DocType /\ Len(d.msgs) \in Nat
      /\ \A i \in 1..Len(d.msgs) : d.msgs[i] \in MessageType
  BY <1>2, DocSays
<1>6. ASSUME NEW doc, NEW op, NEW more, Mutate(c, doc, op, more), NEW torn,
             torn = (more \/ Unheard(c)),
             MutationOK(lg, m + 1, doc, Made(op, doc, Len(lg) + 1, torn))
      PROVE  ShadowInv' /\ \A x \in Conversations : Follows(x)
  BY <1>1, <1>6, MutateOK
<1>13. PICK unheard \in BOOLEAN : unheard = (FALSE \/ Unheard(c))
  BY DEF Unheard
<1>14. ~ unheard => d = lg[Len(lg)]
  BY <1>3, <1>13
<1>7. CASE AppendUserMessage(c)
  <2>1. PICK doc : doc = UserAdded(d, m + 1, m + 1)
    OBVIOUS
  <2>2. PICK op : op = [NoOp EXCEPT !.kind = "user", !.turn = m + 1,
                                    !.title = doc.title, !.count = Len(d.msgs)]
    OBVIOUS
  <2>3. Mutate(c, doc, op, FALSE)
    BY <1>1, <1>7, <2>1, <2>2 DEF AppendUserMessage, Fresh
  <2>4. PICK o : o = Made(op, doc, Len(lg) + 1, unheard)
    OBVIOUS
  <2>5. o = [kind |-> "user", turn |-> m + 1, title |-> doc.title,
             count |-> Len(d.msgs), doc |-> doc, at |-> Len(lg) + 1, torn |-> unheard]
    <3>1. op = [kind |-> "user", turn |-> m + 1, title |-> doc.title,
                count |-> Len(d.msgs), doc |-> NoDoc, at |-> 0, torn |-> FALSE]
      BY <2>2 DEF NoOp
    <3> QED BY <2>4, <3>1, OpWith
  <2>6. MutationOK(lg, m + 1, doc, o)
    BY <1>2, <1>14, <2>1, <2>5, UserMutation
  <2> QED BY <1>6, <1>13, <2>3, <2>4, <2>6
<1>8. CASE AppendAssistantMessage(c)
  <2>1. PICK t : t = TurnAtWork(c)
    OBVIOUS
  <2>2. /\ t \in Nat /\ t <= m /\ d.msgs # <<>> /\ d.exists
        /\ \A w \in 1..Len(lg) : ~ Has(lg[w], Message(t, "assistant"))
    BY <1>1, <1>8, <2>1, AtWorkIs DEF AppendAssistantMessage
  <2>3. PICK x, op : /\ x = Message(t, "assistant")
                     /\ op = [NoOp EXCEPT !.kind = "assistant", !.turn = t]
    OBVIOUS
  <2>4. op = [kind |-> "assistant", turn |-> t, title |-> 0,
              count |-> 0, doc |-> NoDoc, at |-> 0, torn |-> FALSE]
    BY <2>3 DEF NoOp
  <2>5. x \in MessageType /\ x.turn <= m
    BY <2>2, <2>3, MessageIs DEF Roles
  <2>6. ASSUME NEW doc, NEW more, Mutate(c, doc, op, more),
               NEW torn \in BOOLEAN, torn = (more \/ Unheard(c)),
               ~ torn => doc = WithMessage(d, x),
               DocOK(doc, m), Has(doc, x)
        PROVE  ShadowInv' /\ \A z \in Conversations : Follows(z)
    <3>1. PICK o : o = Made(op, doc, Len(lg) + 1, torn)
      OBVIOUS
    <3>2. o = [kind |-> "assistant", turn |-> t, title |-> 0, count |-> 0,
               doc |-> doc, at |-> Len(lg) + 1, torn |-> torn]
      BY <2>4, <3>1, OpWith
    <3>3. ~ torn => d = lg[Len(lg)]
      BY <1>3, <2>6
    <3>4. MutationOK(lg, m + 1, doc, o)
      BY <1>2, <2>2, <2>3, <2>6, <3>2, <3>3, AssistantMutation
    <3> QED BY <1>6, <2>6, <3>1, <3>4
  <2>7. \/ Mutate(c, WithMessage(d, x), op, FALSE)
        \/ \E k \in 1..Len(d.msgs) :
             \E doc \in {Stamped(d, k, t), WithMessage(Stamped(d, k, t), x)} :
               Mutate(c, doc, op, TRUE)
    BY <1>1, <1>8, <2>1, <2>3 DEF AppendAssistantMessage, Reply
  <2>8. CASE Mutate(c, WithMessage(d, x), op, FALSE)
    <3>1. DocOK(WithMessage(d, x), m) /\ Has(WithMessage(d, x), x)
      BY <1>2, <2>2, <2>5, LongerDoc
    <3> QED BY <1>13, <2>6, <2>8, <3>1
  <2>9. ASSUME NEW k \in 1..Len(d.msgs),
               NEW doc \in {Stamped(d, k, t), WithMessage(Stamped(d, k, t), x)},
               Mutate(c, doc, op, TRUE)
        PROVE  ShadowInv' /\ \A z \in Conversations : Follows(z)
    <3>1. PICK e : e = Stamped(d, k, t)
      OBVIOUS
    <3>2. DocOK(e, m) /\ e.exists /\ Has(e, x)
      BY <1>2, <2>2, <2>3, <3>1, StampedDoc
    <3>3. DocOK(WithMessage(e, x), m) /\ Has(WithMessage(e, x), x)
      BY <1>2, <2>5, <3>2, LongerDoc
    <3>4. DocOK(doc, m) /\ Has(doc, x)
      BY <2>9, <3>1, <3>2, <3>3
    <3> QED BY <2>6, <2>9, <3>4
  <2> QED BY <2>7, <2>8, <2>9
<1>9. CASE MarkConversationStopped(c)
  <2>1. PICK doc : doc = WithMessage(d, Message(0, "assistant"))
    OBVIOUS
  <2>2. PICK op : op = [NoOp EXCEPT !.kind = "repair"]
    OBVIOUS
  <2>3. Mutate(c, doc, op, FALSE) /\ d.exists
    BY <1>1, <1>9, <2>1, <2>2 DEF MarkConversationStopped
  <2>4. PICK o : o = Made(op, doc, Len(lg) + 1, unheard)
    OBVIOUS
  <2>5. o = [kind |-> "repair", turn |-> 0, title |-> 0, count |-> 0,
             doc |-> doc, at |-> Len(lg) + 1, torn |-> unheard]
    <3>1. op = [kind |-> "repair", turn |-> 0, title |-> 0,
                count |-> 0, doc |-> NoDoc, at |-> 0, torn |-> FALSE]
      BY <2>2 DEF NoOp
    <3> QED BY <2>4, <3>1, OpWith
  <2>6. MutationOK(lg, m + 1, doc, o)
    BY <1>2, <2>1, <2>3, <2>5, StopMutation
  <2> QED BY <1>6, <1>13, <2>3, <2>4, <2>6
<1>10. CASE RenameConversation(c)
  <2>1. PICK doc : doc = [d EXCEPT !.title = m + 1]
    OBVIOUS
  <2>2. PICK op : op = [NoOp EXCEPT !.kind = "rename", !.title = m + 1]
    OBVIOUS
  <2>3. Mutate(c, doc, op, FALSE) /\ d.exists
    BY <1>1, <1>10, <2>1, <2>2 DEF RenameConversation, Fresh
  <2>4. PICK o : o = Made(op, doc, Len(lg) + 1, unheard)
    OBVIOUS
  <2>5. o = [kind |-> "rename", turn |-> 0, title |-> m + 1, count |-> 0,
             doc |-> doc, at |-> Len(lg) + 1, torn |-> unheard]
    <3>1. op = [kind |-> "rename", turn |-> 0, title |-> m + 1,
                count |-> 0, doc |-> NoDoc, at |-> 0, torn |-> FALSE]
      BY <2>2 DEF NoOp
    <3> QED BY <2>4, <3>1, OpWith
  <2>6. MutationOK(lg, m + 1, doc, o)
    BY <1>2, <1>14, <2>1, <2>3, <2>5, RenameMutation
  <2> QED BY <1>6, <1>13, <2>3, <2>4, <2>6
<1>11. CASE TruncateConversation(c)
  <2>1. PICK i \in 1..Len(d.msgs) :
          Mutate(c, CutAt(d, d.msgs[i].turn),
                 [NoOp EXCEPT !.kind = "truncate", !.turn = d.msgs[i].turn], FALSE)
    BY <1>1, <1>11 DEF TruncateConversation
  <2>2. PICK t : t = d.msgs[i].turn
    OBVIOUS
  <2>3. PICK doc, op : doc = CutAt(d, t)
                       /\ op = [NoOp EXCEPT !.kind = "truncate", !.turn = t]
    OBVIOUS
  <2>4. Mutate(c, doc, op, FALSE) /\ t \in Nat
    BY <1>5, <2>1, <2>2, <2>3 DEF MessageType
  <2>5. PICK o : o = Made(op, doc, Len(lg) + 1, unheard)
    OBVIOUS
  <2>6. o = [kind |-> "truncate", turn |-> t, title |-> 0, count |-> 0,
             doc |-> doc, at |-> Len(lg) + 1, torn |-> unheard]
    <3>1. op = [kind |-> "truncate", turn |-> t, title |-> 0,
                count |-> 0, doc |-> NoDoc, at |-> 0, torn |-> FALSE]
      BY <2>3 DEF NoOp
    <3> QED BY <2>5, <3>1, OpWith
  <2>7. MutationOK(lg, m + 1, doc, o)
    BY <1>2, <1>14, <2>2, <2>3, <2>4, <2>6, TruncateMutation
  <2> QED BY <1>6, <1>13, <2>4, <2>5, <2>7
<1>12. CASE DeleteConversation(c)
  <2>1. PICK op : op = [NoOp EXCEPT !.kind = "delete"]
    OBVIOUS
  <2>2. Mutate(c, NoDoc, op, FALSE)
    BY <1>12, <2>1 DEF DeleteConversation
  <2>3. PICK o : o = Made(op, NoDoc, Len(lg) + 1, unheard)
    OBVIOUS
  <2>4. o = [kind |-> "delete", turn |-> 0, title |-> 0, count |-> 0,
             doc |-> NoDoc, at |-> Len(lg) + 1, torn |-> unheard]
    <3>1. op = [kind |-> "delete", turn |-> 0, title |-> 0,
                count |-> 0, doc |-> NoDoc, at |-> 0, torn |-> FALSE]
      BY <2>1 DEF NoOp
    <3> QED BY <2>3, <3>1, OpWith
  <2>5. MutationOK(lg, m + 1, NoDoc, o)
    BY <1>2, <2>4, DeleteMutation
  <2> QED BY <1>6, <1>13, <2>2, <2>3, <2>5
<1>15. CASE SaveCompaction(c)
  BY <1>15, SaveCompactionOK
<1> QED BY <1>7, <1>8, <1>9, <1>10, <1>11, <1>12, <1>15 DEF Write

-----------------------------------------------------------------------------
(* The end of a send, and what the loop does next.                         *)

\* What the loop makes of a lane with nothing on the wire.
GoesOn(c, lg, sh, rm, L, D, T, m) ==
  \E kn, l2, s2 :
    /\ log' = [log EXCEPT ![c] = kn]
    /\ lane' = [lane EXCEPT ![c] = l2] /\ sending' = [sending EXCEPT ![c] = s2]
    /\ ConvOK(c, kn, sh, rm, l2, s2, L, D, T, m)
    /\ kn = lg \/ \E doc : kn = Append(lg, doc)

LEMMA ProceedIs ==
  ASSUME NEW c, NEW d, Proceed(c, d),
         NEW m \in Nat, NEW lg, NEW sh, NEW rm, NEW ln, NEW L, NEW D, NEW T,
         lg = log[c], ln = lane[c], DocOK(file[c], m),
         ConvOK(c, lg, sh, rm, ln, NoOp, L, D, T, m), ln.draining,
         IsDirty(d, c) <=> c \in D
  PROVE  GoesOn(c, lg, sh, rm, L, D, T, m)
<1>1. PICK kn, fl, isD : /\ kn = Known(c, Reads(ln, IsDirty(d, c)))
                         /\ fl = file[c] /\ isD = IsDirty(d, c)
  OBVIOUS
<1>2. /\ log' = [log EXCEPT ![c] = kn]
      /\ Advance(c, ln, isD, fl, Len(kn))
  BY <1>1 DEF Proceed
<1>3. /\ Reads(ln, isD) <=> Reads(ln, c \in D)
      /\ NextLane(ln, isD) = NextLane(ln, c \in D)
      /\ NextSend(ln, isD, fl, Len(kn)) = NextSend(ln, c \in D, fl, Len(kn))
  BY <1>1 DEF Reads, NextLane, NextSend, Settled
<1>4. kn = KnownOf(lg, fl, Reads(ln, c \in D))
  BY <1>1, <1>3 DEF Known, Unheard, Told, KnownOf
<1>5. /\ lane' = [lane EXCEPT ![c] = NextLane(ln, c \in D)]
      /\ sending' = [sending EXCEPT ![c] = NextSend(ln, c \in D, fl, Len(kn))]
  BY <1>2, <1>3, AdvanceIs
<1>6. /\ ConvOK(c, kn, sh, rm, NextLane(ln, c \in D),
                NextSend(ln, c \in D, fl, Len(kn)), L, D, T, m)
      /\ kn = lg \/ kn = Append(lg, fl)
  BY <1>1, <1>4, ProceedOK
<1> QED BY <1>2, <1>5, <1>6 DEF GoesOn

\* The loop goes on from a lane with nothing on the wire.
LEMMA ContinueOK ==
  ASSUME ShadowInv, NEW c \in Conversations, NEW d, Continue(c, d),
         lane[c].draining,
         ConvOK(c, log[c], shown'[c], remote'[c], lane[c], NoOp, lost', Dirty',
                LateOf(c)', mutations),
         shown[c] <= shown'[c],
         shown' = [x \in Conversations |-> shown'[x]],
         remote' = [x \in Conversations |-> remote'[x]],
         lost' \subseteq Conversations, DirtyOK',
         \A given \in late' : given[1] \in Conversations,
         \A x \in Conversations : x # c =>
           /\ shown'[x] = shown[x] /\ remote'[x] = remote[x]
           /\ x \in lost => x \in lost'
           /\ x \in Dirty' => x \in Dirty
           /\ x \in Dirty => x \in Dirty' \/ x \in lost'
           /\ LateOf(x)' \subseteq LateOf(x)
  PROVE  ShadowInv' /\ \A x \in Conversations : Follows(x)
<1>1. PICK lg, sh, rm, ln, m, L, D, T :
        /\ lg = log[c] /\ sh = shown'[c] /\ rm = remote'[c] /\ ln = lane[c]
        /\ m = mutations /\ L = lost' /\ D = Dirty' /\ T = LateOf(c)'
  OBVIOUS
<1>2. /\ dirty' = d /\ process' = process /\ mutations' = mutations /\ file' = file
      /\ Proceed(c, d)
  BY DEF Continue
<1>3. m \in 0..MaxMutations /\ m \in Nat
  BY <1>1, ShadowAssumption DEF ShadowInv, Shapes
<1>4. DocOK(file[c], m)
  BY <1>1 DEF ShadowInv
<1>5. PICK kn, l2, s2 :
        /\ log' = [log EXCEPT ![c] = kn]
        /\ lane' = [lane EXCEPT ![c] = l2] /\ sending' = [sending EXCEPT ![c] = s2]
        /\ ConvOK(c, kn, sh, rm, l2, s2, L, D, T, m)
        /\ kn = lg \/ \E doc : kn = Append(lg, doc)
  <2>1. IsDirty(d, c) <=> c \in D
    BY <1>1, <1>2 DEF Dirty
  <2>2. ConvOK(c, lg, sh, rm, ln, NoOp, L, D, T, m) /\ ln.draining
    BY <1>1
  <2>3. lg = log[c] /\ ln = lane[c] /\ DocOK(file[c], m) /\ Proceed(c, d)
    BY <1>1, <1>2, <1>4
  <2>4. GoesOn(c, lg, sh, rm, L, D, T, m)
    BY <1>3, <2>1, <2>2, <2>3, ProceedIs
  <2> QED BY <2>4 DEF GoesOn
<1>12. /\ log' = [x \in Conversations |-> log'[x]] /\ log'[c] = kn
       /\ \A x \in Conversations : x # c => log'[x] = log[x]
  BY <1>5, Changed DEF ShadowInv, Shapes
<1>7. /\ lane' = [x \in Conversations |-> lane'[x]] /\ lane'[c] = l2
      /\ \A x \in Conversations : x # c => lane'[x] = lane[x]
  BY <1>5, Changed DEF ShadowInv, Shapes
<1>8. /\ sending' = [x \in Conversations |-> sending'[x]] /\ sending'[c] = s2
      /\ \A x \in Conversations : x # c => sending'[x] = sending[x]
  BY <1>5, Changed DEF ShadowInv, Shapes
<1>9. ConvOK(c, log'[c], shown'[c], remote'[c], lane'[c], sending'[c], lost', Dirty',
             LateOf(c)', mutations')
  BY <1>1, <1>2, <1>5, <1>7, <1>8, <1>12
<1>10. Shapes'
  BY <1>2, <1>7, <1>8, <1>12 DEF ShadowInv, Shapes
<1>11. Follows(c) /\ mutations <= mutations'
  <2>1. log'[c] = log[c] \/ \E doc : log'[c] = Append(log[c], doc)
    BY <1>1, <1>5, <1>12
  <2>2. Follows(c)
    BY <2>1 DEF Follows
  <2> QED BY <1>1, <1>2, <1>3, <2>2
<1>13. DocOK(file'[c], mutations')
  BY <1>1, <1>2, <1>4
<1> QED BY <1>2, <1>7, <1>8, <1>9, <1>10, <1>11, <1>12, <1>13, OneMoves

\* What is known of a conversation with something on the wire.
LEMMA OnWire ==
  ASSUME ShadowInv, NEW c \in Conversations, sending[c].kind # "none"
  PROVE  /\ ConvOK(c, log[c], shown[c], remote[c], lane[c], sending[c], lost, Dirty,
                   LateOf(c), mutations)
         /\ mutations \in Nat
         /\ sending[c] # NoOp /\ lane[c].draining
<1>1. ConvOK(c, log[c], shown[c], remote[c], lane[c], sending[c], lost, Dirty,
             LateOf(c), mutations)
      /\ mutations \in Nat
  BY DEF ShadowInv, Shapes
<1>2. sending[c] # NoOp
  BY NoOpIs
<1>3. lane[c].draining
  BY <1>1, <1>2 DEF ConvOK, LaneOK
<1> QED BY <1>1, <1>2, <1>3

LEMMA SendSucceedsOK ==
  ASSUME ShadowInv, NEW c \in Conversations, SendSucceeds(c)
  PROVE  ShadowInv' /\ \A x \in Conversations : Follows(x)
<1>1. PICK lg, sh, rm, ln, sd, m, L, D, T :
        /\ lg = log[c] /\ sh = shown[c] /\ rm = remote[c] /\ ln = lane[c]
        /\ sd = sending[c] /\ m = mutations /\ L = lost /\ D = Dirty /\ T = LateOf(c)
  OBVIOUS
<1>2. ConvOK(c, lg, sh, rm, ln, sd, L, D, T, m) /\ m \in Nat /\ sd # NoOp /\ ln.draining
  BY <1>1, OnWire DEF SendSucceeds
<1>3. PICK d : d = IF sd.kind \in Whole THEN Cleaned(dirty, c) ELSE dirty
  OBVIOUS
<1>4. /\ Continue(c, d) /\ dirty' = d
      /\ remote' = [remote EXCEPT ![c] = Applied(rm, sd)]
      /\ shown' = IF Exact(c, sd, L) THEN [shown EXCEPT ![c] = sd.at] ELSE shown
      /\ lost' = IF sd.kind \in Whole THEN L \ {c}
                 ELSE IF Tears(sd) THEN L \cup {c} ELSE L
      /\ late' = late
  BY <1>1, <1>3 DEF SendSucceeds, Takes, Continue, Vouched, Exact, Torn
<1>5. PICK new : new = TakenAt(c, sh, sd, L)
  OBVIOUS
<1>6. shown' = [shown EXCEPT ![c] = new]
  <2>1. shown = [shown EXCEPT ![c] = sh]
    BY <1>1 DEF ShadowInv, Shapes
  <2> QED BY <1>4, <1>5, <2>1 DEF TakenAt
<1>7. /\ shown' = [x \in Conversations |-> shown'[x]] /\ shown'[c] = new
      /\ \A x \in Conversations : x # c => shown'[x] = shown[x]
  BY <1>6, Changed DEF ShadowInv, Shapes
<1>8. /\ remote' = [x \in Conversations |-> remote'[x]]
      /\ remote'[c] = Applied(rm, sd)
      /\ \A x \in Conversations : x # c => remote'[x] = remote[x]
  BY <1>4, Changed DEF ShadowInv, Shapes
<1>9. /\ DirtyOK'
      /\ \A x : IsDirty(d, x) <=> IsDirty(dirty, x) /\ ~ (sd.kind \in Whole /\ x = c)
  <2>1. CASE sd.kind \in Whole
    BY <1>3, <1>4, <2>1, CleanedIs DEF ShadowInv, DirtyOK
  <2>2. CASE sd.kind \notin Whole
    BY <1>3, <1>4, <2>2 DEF ShadowInv, DirtyOK
  <2> QED BY <2>1, <2>2
<1>10. \A x : x \in Dirty' <=> x \in Dirty /\ ~ (sd.kind \in Whole /\ x = c)
  BY <1>4, <1>9 DEF Dirty
<1>11. \A x : LateOf(x)' = LateOf(x)
  BY <1>4 DEF LateOf
<1>12. PICK L2, D2 : L2 = lost' /\ D2 = Dirty'
  OBVIOUS
<1>13. ConvOK(c, lg, new, Applied(rm, sd), ln, NoOp, L2, D2, T, m) /\ sh <= new
  <2>1. c \in L2 <=> (c \in L \/ Tears(sd)) /\ sd.kind \notin Whole
    BY <1>4, <1>12 DEF Tears
  <2>2. c \in D2 <=> c \in D /\ sd.kind \notin Whole
    BY <1>1, <1>10, <1>12
  <2> QED BY <1>2, <1>5, <2>1, <2>2, SucceedsOK
<1>14. /\ ConvOK(c, log[c], shown'[c], remote'[c], lane[c], NoOp, lost', Dirty',
                 LateOf(c)', mutations)
       /\ shown[c] <= shown'[c] /\ lane[c].draining
  BY <1>1, <1>2, <1>7, <1>8, <1>11, <1>12, <1>13
<1>15. /\ lost' \subseteq Conversations
       /\ \A given \in late' : given[1] \in Conversations
  BY <1>1, <1>4 DEF ShadowInv, Shapes
<1>16. \A x \in Conversations : x # c =>
         /\ shown'[x] = shown[x] /\ remote'[x] = remote[x]
         /\ x \in lost => x \in lost'
         /\ x \in Dirty' => x \in Dirty
         /\ x \in Dirty => x \in Dirty' \/ x \in lost'
         /\ LateOf(x)' \subseteq LateOf(x)
  BY <1>1, <1>4, <1>7, <1>8, <1>10, <1>11
<1> QED BY <1>4, <1>7, <1>8, <1>9, <1>14, <1>15, <1>16, ContinueOK

\* A failed send: what is late may be the operation itself, and what the
\* remote has is given.
LEMMA FailedOK ==
  ASSUME ShadowInv, NEW c \in Conversations, NEW gaps, Fails(c, gaps),
         lost \subseteq gaps, gaps \subseteq Conversations,
         ConvOK(c, log[c], shown'[c], remote'[c], lane[c], NoOp, lost', Dirty',
                LateOf(c)', mutations),
         shown[c] <= shown'[c],
         shown' = [x \in Conversations |-> shown'[x]],
         remote' = [x \in Conversations |-> remote'[x]],
         \A given \in late' : given[1] \in Conversations,
         \A x \in Conversations : x # c =>
           /\ shown'[x] = shown[x] /\ remote'[x] = remote[x]
           /\ LateOf(x)' \subseteq LateOf(x)
  PROVE  ShadowInv' /\ \A x \in Conversations : Follows(x)
<1>1. PICK d : d = MarkDirty(dirty, c)
  OBVIOUS
<1>2. /\ Continue(c, d) /\ dirty' = d
      /\ lost' = gaps \cup Evicted(c)
  BY <1>1 DEF Fails, Continue
<1>3. DirtyOK' /\ IsDirty(d, c) /\ \A x : IsDirty(d, x) => x = c \/ IsDirty(dirty, x)
  BY <1>1, <1>2, MarkIs DEF ShadowInv, DirtyOK
<1>4. \A x \in Conversations : x # c =>
        /\ x \in lost => x \in lost'
        /\ x \in Dirty' => x \in Dirty
        /\ x \in Dirty => x \in Dirty' \/ x \in lost'
  BY <1>1, <1>2, <1>3 DEF Dirty, Evicted
<1>5. lost' \subseteq Conversations
  BY <1>2 DEF ShadowInv, Shapes, Evicted
<1>6. lane[c].draining
  BY OnWire DEF Fails
<1> QED BY <1>2, <1>3, <1>4, <1>5, <1>6, ContinueOK

\* The remote is as it was: refused, lost on the way, or given up.
LEMMA NotTakenOK ==
  ASSUME ShadowInv, NEW c \in Conversations, Fails(c, lost), UNCHANGED <<shown, remote>>,
         late' \in {late, late \cup {<<c, sending[c]>>}}
  PROVE  ShadowInv' /\ \A x \in Conversations : Follows(x)
<1>1. PICK lg, sh, rm, ln, sd, m, L, D, T :
        /\ lg = log[c] /\ sh = shown[c] /\ rm = remote[c] /\ ln = lane[c]
        /\ sd = sending[c] /\ m = mutations /\ L = lost /\ D = Dirty /\ T = LateOf(c)
  OBVIOUS
<1>2. ConvOK(c, lg, sh, rm, ln, sd, L, D, T, m) /\ m \in Nat /\ sd # NoOp
  BY <1>1, OnWire DEF Fails
<1>3. /\ dirty' = MarkDirty(dirty, c) /\ lost' = L \cup Evicted(c)
      /\ shown' = shown /\ remote' = remote
  BY <1>1 DEF Fails, Continue
<1>4. c \in Dirty'
  BY <1>3, MarkIs DEF ShadowInv, DirtyOK, Dirty
<1>5. /\ \A given \in late' : given \in late \/ given = <<c, sd>>
      /\ \A given \in late' : given[1] \in Conversations
  BY <1>1 DEF ShadowInv, Shapes
<1>6. LateOf(c)' \in SUBSET (T \cup {sd})
  BY <1>1, <1>5 DEF LateOf
<1>7. \A x \in Conversations : x # c => LateOf(x)' \subseteq LateOf(x)
  BY <1>5 DEF LateOf
<1>8. PICK L2, D2, T2 : L2 = lost' /\ D2 = Dirty' /\ T2 = LateOf(c)'
  OBVIOUS
<1>9. ConvOK(c, lg, sh, rm, ln, NoOp, L2, D2, T2, m)
  <2>1. c \in L => c \in L2
    BY <1>3, <1>8
  <2>2. c \in D2 /\ T2 \in SUBSET (T \cup {sd})
    BY <1>4, <1>6, <1>8
  <2> QED BY <1>2, <2>1, <2>2, FailsOK
<1>10. /\ ConvOK(c, log[c], shown'[c], remote'[c], lane[c], NoOp, lost', Dirty',
                 LateOf(c)', mutations)
       /\ shown[c] <= shown'[c]
  BY <1>1, <1>2, <1>3, <1>8, <1>9 DEF ConvOK, CopyOK
<1>11. /\ shown' = [x \in Conversations |-> shown'[x]]
       /\ remote' = [x \in Conversations |-> remote'[x]]
  BY <1>3 DEF ShadowInv, Shapes
<1>12. lost \subseteq lost /\ lost \subseteq Conversations
  BY DEF ShadowInv, Shapes
<1> QED BY <1>3, <1>5, <1>7, <1>10, <1>11, <1>12, FailedOK

LEMMA AnswerLostStep ==
  ASSUME ShadowInv, NEW c \in Conversations, AnswerLost(c)
  PROVE  ShadowInv' /\ \A x \in Conversations : Follows(x)
<1>1. PICK lg, sh, rm, ln, sd, m, L, D, T :
        /\ lg = log[c] /\ sh = shown[c] /\ rm = remote[c] /\ ln = lane[c]
        /\ sd = sending[c] /\ m = mutations /\ L = lost /\ D = Dirty /\ T = LateOf(c)
  OBVIOUS
<1>2. ConvOK(c, lg, sh, rm, ln, sd, L, D, T, m) /\ m \in Nat /\ sd # NoOp
  BY <1>1, OnWire DEF AnswerLost, Fails
<1>3. /\ Fails(c, Torn(c, sd)) /\ dirty' = MarkDirty(dirty, c)
      /\ lost' = Torn(c, sd) \cup Evicted(c)
      /\ remote' = [remote EXCEPT ![c] = Applied(rm, sd)]
      /\ shown' = IF Exact(c, sd, L) THEN [shown EXCEPT ![c] = sd.at] ELSE shown
      /\ late' = late
  BY <1>1 DEF AnswerLost, Takes, Fails, Continue, Vouched, Exact
<1>4. c \in Dirty'
  BY <1>3, MarkIs DEF ShadowInv, DirtyOK, Dirty
<1>5. PICK new : new = TakenAt(c, sh, sd, L)
  OBVIOUS
<1>6. shown' = [shown EXCEPT ![c] = new]
  <2>1. shown = [shown EXCEPT ![c] = sh]
    BY <1>1 DEF ShadowInv, Shapes
  <2> QED BY <1>3, <1>5, <2>1 DEF TakenAt
<1>7. /\ shown' = [x \in Conversations |-> shown'[x]] /\ shown'[c] = new
      /\ \A x \in Conversations : x # c => shown'[x] = shown[x]
  BY <1>6, Changed DEF ShadowInv, Shapes
<1>8. /\ remote' = [x \in Conversations |-> remote'[x]]
      /\ remote'[c] = Applied(rm, sd)
      /\ \A x \in Conversations : x # c => remote'[x] = remote[x]
  BY <1>3, Changed DEF ShadowInv, Shapes
<1>9. PICK L2, D2 : L2 = lost' /\ D2 = Dirty'
  OBVIOUS
<1>10. ConvOK(c, lg, new, Applied(rm, sd), ln, NoOp, L2, D2, T, m) /\ sh <= new
  <2>1. (c \in L \/ Tears(sd) => c \in L2) /\ c \in D2
    BY <1>1, <1>3, <1>4, <1>9 DEF Torn
  <2> QED BY <1>2, <1>5, <2>1, AnswerLostOK
<1>11. \A x : LateOf(x)' = LateOf(x)
  BY <1>3 DEF LateOf
<1>12. /\ ConvOK(c, log[c], shown'[c], remote'[c], lane[c], NoOp, lost', Dirty',
                 LateOf(c)', mutations)
       /\ shown[c] <= shown'[c]
  BY <1>1, <1>7, <1>8, <1>9, <1>10, <1>11
<1>13. \A given \in late' : given[1] \in Conversations
  BY <1>3 DEF ShadowInv, Shapes
<1>14. lost \subseteq Torn(c, sd) /\ Torn(c, sd) \subseteq Conversations
  BY DEF ShadowInv, Shapes, Torn
<1> QED BY <1>3, <1>7, <1>8, <1>11, <1>12, <1>13, <1>14, FailedOK

LEMMA LoopEndsOK ==
  ASSUME ShadowInv, NEW c \in Conversations, LoopEnds(c)
  PROVE  ShadowInv' /\ \A x \in Conversations : Follows(x)
<1>1. PICK lg, sh, rm, ln, m, L, D, T :
        /\ lg = log[c] /\ sh = shown[c] /\ rm = remote[c] /\ ln = lane[c]
        /\ m = mutations /\ L = lost /\ D = Dirty /\ T = LateOf(c)
  OBVIOUS
<1>2. /\ ConvOK(c, lg, sh, rm, ln, sending[c], L, D, T, m) /\ m \in Nat
      /\ ln.draining /\ sending[c].kind = "none"
  BY <1>1 DEF ShadowInv, Shapes, LoopEnds
<1>3. sending[c] = NoOp
  BY <1>2 DEF ConvOK, SendOK, OpOK
<1>4. /\ file' = file /\ shown' = shown /\ lost' = lost /\ remote' = remote
      /\ dirty' = dirty /\ late' = late /\ process' = process
      /\ mutations' = mutations
  BY DEF LoopEnds
<1>12. DocOK(file[c], m)
  BY <1>1 DEF ShadowInv
<1>5. PICK kn, l2, s2 :
        /\ ConvOK(c, kn, sh, rm, l2, s2, L, D, T, m)
        /\ kn = lg \/ \E doc : kn = Append(lg, doc)
        /\ log' = [log EXCEPT ![c] = kn]
        /\ lane' = [lane EXCEPT ![c] = l2] /\ sending' = [sending EXCEPT ![c] = s2]
  <2>1. CASE Waiting(ln)
    <3>1. PICK d : d = dirty
      OBVIOUS
    <3>2. Proceed(c, d)
      BY <1>1, <2>1, <3>1 DEF LoopEnds
    <3>3. IsDirty(d, c) <=> c \in D
      BY <1>1, <3>1, DirtyIs
    <3>4. ConvOK(c, lg, sh, rm, ln, NoOp, L, D, T, m)
      BY <1>2, <1>3
    <3>5. lg = log[c] /\ ln = lane[c]
      BY <1>1
    <3>6. GoesOn(c, lg, sh, rm, L, D, T, m)
      BY <1>2, <1>12, <3>2, <3>3, <3>4, <3>5, ProceedIs
    <3> QED BY <3>6 DEF GoesOn
  <2>2. CASE ~ Waiting(ln)
    <3>1. lane' = [lane EXCEPT ![c] = IdleLane] /\ sending' = sending /\ log' = log
      BY <1>1, <2>2 DEF LoopEnds
    <3>2. sending = [sending EXCEPT ![c] = NoOp] /\ log = [log EXCEPT ![c] = lg]
      BY <1>1, <1>3 DEF ShadowInv, Shapes
    <3>3. ConvOK(c, lg, sh, rm, IdleLane, NoOp, L, D, T, m)
      BY <1>2, <1>3, <2>2, IdleOK
    <3> QED BY <3>1, <3>2, <3>3
  <2> QED BY <2>1, <2>2
<1>6. /\ lane' = [x \in Conversations |-> lane'[x]] /\ lane'[c] = l2
      /\ \A x \in Conversations : x # c => lane'[x] = lane[x]
  BY <1>5, Changed DEF ShadowInv, Shapes
<1>7. /\ sending' = [x \in Conversations |-> sending'[x]] /\ sending'[c] = s2
      /\ \A x \in Conversations : x # c => sending'[x] = sending[x]
  BY <1>5, Changed DEF ShadowInv, Shapes
<1>13. /\ log' = [x \in Conversations |-> log'[x]] /\ log'[c] = kn
       /\ \A x \in Conversations : x # c => log'[x] = log[x]
  BY <1>5, Changed DEF ShadowInv, Shapes
<1>8. Dirty' = Dirty /\ \A x : LateOf(x)' = LateOf(x)
  BY <1>4 DEF Dirty, LateOf
<1>9. ConvOK(c, log'[c], shown'[c], remote'[c], lane'[c], sending'[c], lost', Dirty',
             LateOf(c)', mutations')
  BY <1>1, <1>4, <1>5, <1>6, <1>7, <1>8, <1>13
<1>10. Shapes' /\ DirtyOK'
  BY <1>4, <1>6, <1>7, <1>13 DEF ShadowInv, Shapes, DirtyOK
<1>11. Follows(c) /\ mutations <= mutations'
  <2>1. shown[c] <= shown'[c]
    BY <1>4, ShownIs
  <2> QED BY <1>1, <1>2, <1>4, <1>5, <1>13, <2>1 DEF Follows
<1>14. DocOK(file'[c], mutations')
  BY <1>1, <1>4, <1>12
<1> QED BY <1>4, <1>6, <1>7, <1>8, <1>9, <1>10, <1>11, <1>13, <1>14, OneMoves

LEMMA LateSendLandsOK ==
  ASSUME ShadowInv, LateSendLands
  PROVE  ShadowInv' /\ \A x \in Conversations : Follows(x)
<1>1. PICK given \in late :
        LET c == given[1]  op == given[2] IN
        /\ late' = late \ {given}
        /\ remote' = [remote EXCEPT ![c] = IF Accepts(@, op) THEN Applied(@, op) ELSE @]
        /\ IF c \notin lost /\ op.at > shown[c] /\ ~ Tears(op)
             THEN shown' = [shown EXCEPT ![c] = op.at] /\ UNCHANGED lost
             ELSE /\ lost' = IF remote' = remote THEN lost ELSE lost \cup {c}
                  /\ UNCHANGED shown
  BY DEF LateSendLands
<1>2. PICK c, op : c = given[1] /\ op = given[2]
  OBVIOUS
<1>3. c \in Conversations
  BY <1>2 DEF ShadowInv, Shapes
<1>4. PICK lg, sh, rm, ln, sd, m, L, D, T :
        /\ lg = log[c] /\ sh = shown[c] /\ rm = remote[c] /\ ln = lane[c]
        /\ sd = sending[c] /\ m = mutations /\ L = lost /\ D = Dirty /\ T = LateOf(c)
  OBVIOUS
<1>5. ConvOK(c, lg, sh, rm, ln, sd, L, D, T, m) /\ m \in Nat
  BY <1>3, <1>4 DEF ShadowInv, Shapes
<1>6. /\ log' = log /\ lane' = lane /\ sending' = sending /\ dirty' = dirty
      /\ process' = process /\ mutations' = mutations /\ file' = file
  BY DEF LateSendLands
<1>7. PICK new : new = IF Accepts(rm, op) THEN Applied(rm, op) ELSE rm
  OBVIOUS
<1>8. /\ late' = late \ {given}
      /\ remote' = [remote EXCEPT ![c] = new]
      /\ \/ /\ c \notin L /\ op.at > sh /\ ~ Tears(op)
            /\ shown' = [shown EXCEPT ![c] = op.at] /\ lost' = L
         \/ /\ ~ (c \notin L /\ op.at > sh /\ ~ Tears(op))
            /\ lost' = IF remote' = remote THEN L ELSE L \cup {c}
            /\ shown' = shown
  BY <1>1, <1>2, <1>4, <1>7
<1>9. /\ remote' = [x \in Conversations |-> remote'[x]] /\ remote'[c] = new
      /\ \A x \in Conversations : x # c => remote'[x] = remote[x]
  BY <1>3, <1>8, Changed DEF ShadowInv, Shapes
<1>10. remote' = remote <=> new = rm
  BY <1>3, <1>4, <1>8, <1>9 DEF ShadowInv, Shapes
<1>11. PICK sh2 : shown' = [shown EXCEPT ![c] = sh2]
                  /\ \/ /\ c \notin L /\ op.at > sh /\ ~ Tears(op)
                        /\ sh2 = op.at /\ lost' = L
                     \/ /\ ~ (c \notin L /\ op.at > sh /\ ~ Tears(op)) /\ sh2 = sh
                        /\ lost' = IF new = rm THEN L ELSE L \cup {c}
  <2>1. shown = [shown EXCEPT ![c] = sh]
    BY <1>4 DEF ShadowInv, Shapes
  <2>2. CASE c \notin L /\ op.at > sh /\ ~ Tears(op)
    BY <1>8, <2>2
  <2>3. CASE ~ (c \notin L /\ op.at > sh /\ ~ Tears(op))
    <3>1. lost' = IF new = rm THEN L ELSE L \cup {c}
      BY <1>8, <1>10, <2>3
    <3>2. shown' = [shown EXCEPT ![c] = sh]
      BY <1>8, <2>1, <2>3
    <3> QED BY <2>3, <3>1, <3>2
  <2> QED BY <2>2, <2>3
<1>12. /\ shown' = [x \in Conversations |-> shown'[x]] /\ shown'[c] = sh2
       /\ \A x \in Conversations : x # c => shown'[x] = shown[x]
  BY <1>3, <1>11, Changed DEF ShadowInv, Shapes
<1>13. /\ op \in T
       /\ LateOf(c)' \in SUBSET T
       /\ \A x : LateOf(x)' \subseteq LateOf(x)
  BY <1>2, <1>4, <1>8 DEF LateOf
<1>14. PICK L2, T2 : L2 = lost' /\ T2 = LateOf(c)'
  OBVIOUS
<1>15. ConvOK(c, lg, sh2, new, ln, sd, L2, D, T2, m) /\ sh <= sh2
  <2>1. Lands(c, op, rm, new, sh, sh2, L, L2)
    BY <1>11, <1>14 DEF Lands
  <2>2. op \in T /\ T2 \in SUBSET T
    BY <1>13, <1>14
  <2> QED BY <1>5, <1>7, <2>1, <2>2, LandsOK
<1>16. Dirty' = Dirty
  BY <1>6 DEF Dirty
<1>17. ConvOK(c, log'[c], shown'[c], remote'[c], lane'[c], sending'[c], lost', Dirty',
              LateOf(c)', mutations')
  BY <1>4, <1>6, <1>9, <1>12, <1>14, <1>15, <1>16
<1>18. lost' \subseteq Conversations
       /\ \A x \in Conversations : x # c => (x \in lost => x \in lost')
  BY <1>3, <1>4, <1>11 DEF ShadowInv, Shapes
<1>19. Shapes' /\ DirtyOK'
  BY <1>6, <1>8, <1>9, <1>12, <1>18 DEF ShadowInv, Shapes, DirtyOK
<1>20. Follows(c) /\ mutations <= mutations'
  BY <1>4, <1>5, <1>6, <1>12, <1>15 DEF Follows
<1>21. DocOK(file'[c], mutations')
  BY <1>3, <1>6 DEF ShadowInv
<1> QED BY <1>3, <1>6, <1>9, <1>12, <1>13, <1>16, <1>17, <1>18, <1>19, <1>20,
           <1>21, OneMoves

-----------------------------------------------------------------------------
(* The end of the process.                                                 *)

LEMMA ShutdownOK ==
  ASSUME ShadowInv, Shutdown
  PROVE  ShadowInv' /\ \A x \in Conversations : Follows(x)
<1>1. /\ file' = file /\ shown' = shown /\ lost' = lost /\ remote' = remote
      /\ dirty' = dirty /\ late' = late /\ mutations' = mutations
      /\ process' = "stopping"
  BY DEF Shutdown
<1>2. PICK again :
        /\ again = {c \in Conversations : /\ IsDirty(dirty, c)
                                          /\ ~ Waiting(lane[c])
                                          /\ ~ lane[c].draining}
        /\ log' = [c \in Conversations |-> Known(c, c \in again)]
        /\ lane' = [c \in Conversations |->
                      IF c \in again THEN [lane[c] EXCEPT !.draining = TRUE]
                      ELSE lane[c]]
        /\ sending' = [c \in Conversations |->
                      IF c \in again THEN RepairSend(file[c], Len(log'[c]))
                      ELSE sending[c]]
  BY DEF Shutdown
<1>3. Dirty' = Dirty /\ \A x : LateOf(x)' = LateOf(x)
  BY <1>1 DEF Dirty, LateOf
<1>4. ASSUME NEW c \in Conversations
      PROVE  /\ ConvOK(c, log'[c], shown[c], remote[c], lane'[c], sending'[c], lost,
                       Dirty, LateOf(c), mutations)
             /\ log'[c] = log[c] \/ \E doc : log'[c] = Append(log[c], doc)
  <2>1. PICK lg, sh, rm, ln, sd, m, L, D, T :
          /\ lg = log[c] /\ sh = shown[c] /\ rm = remote[c] /\ ln = lane[c]
          /\ sd = sending[c] /\ m = mutations /\ L = lost /\ D = Dirty /\ T = LateOf(c)
    OBVIOUS
  <2>2. ConvOK(c, lg, sh, rm, ln, sd, L, D, T, m) /\ m \in Nat
    BY <2>1 DEF ShadowInv, Shapes
  <2>3. CASE c \in again
    <3>1. PICK kn, fl : kn = log'[c] /\ fl = file[c]
      OBVIOUS
    <3>8. /\ lane'[c] = [ln EXCEPT !.draining = TRUE]
          /\ sending'[c] = RepairSend(fl, Len(kn))
          /\ kn = KnownOf(lg, fl, TRUE)
      BY <1>2, <2>1, <2>3, <3>1 DEF Known, Unheard, Told, KnownOf
    <3>9. DocOK(fl, m)
      BY <2>1, <3>1 DEF ShadowInv
    <3>10. (kn = lg \/ kn = Append(lg, fl)) /\ kn[Len(kn)] = fl
      <4>1. CASE fl = lg[Len(lg)]
        BY <3>8, <4>1 DEF KnownOf
      <4>2. CASE fl # lg[Len(lg)]
        <5>1. kn = Append(lg, fl) /\ lg \in Seq(DocType) /\ fl \in DocType
          BY <2>2, <3>8, <3>9, <4>2 DEF KnownOf, ConvOK, FileOK, DocOK
        <5> QED BY <5>1, LogGrows
      <4> QED BY <4>1, <4>2
    <3>2. ~ Waiting(ln)
      BY <1>2, <2>1, <2>3
    <3>3. PICK e, new : e = TRUE /\ new = [ln EXCEPT !.draining = e]
      OBVIOUS
    <3>4. ln = [pending |-> <<>>, repair |-> FALSE, draining |-> ln.draining]
      BY <2>2, <3>2 DEF ConvOK, LaneOK, LaneType, Waiting
    <3>5. new = [pending |-> <<>>, repair |-> FALSE, draining |-> e]
      <4>1. PICK a, b, d : ln = [pending |-> a, repair |-> b, draining |-> d]
                           /\ a = <<>> /\ b = FALSE
        BY <3>4
      <4>2. new = [pending |-> a, repair |-> b, draining |-> e]
        BY <3>3, <4>1
      <4> QED BY <4>1, <4>2
    <3>6. PICK b : b = Behind(lg, ln, sd)
      OBVIOUS
    <3>11. /\ FileOK(lg, m) /\ b \in Nat
           /\ CopyOK(c, lg, sh, rm, b, L) /\ LateOK(c, lg, sh, b, L, D, T)
      BY <2>2, <3>6, Numbers DEF ConvOK
    <3>12. /\ FileOK(kn, m) /\ b <= Len(kn)
           /\ CopyOK(c, kn, sh, rm, b, L) /\ LateOK(c, kn, sh, b, L, D, T)
      BY <2>2, <3>9, <3>10, <3>11, ReadOK
    <3>7. ConvOK(c, kn, sh, rm, new, RepairSend(kn[Len(kn)], Len(kn)), L, D, T, m)
      BY <2>2, <3>3, <3>5, <3>11, <3>12, RepairNext
    <3> QED BY <2>1, <3>1, <3>3, <3>7, <3>8, <3>10
  <2>4. CASE c \notin again
    <3>1. log'[c] = log[c]
      BY <1>2, <2>4 DEF Known
    <3> QED BY <1>2, <2>1, <2>2, <2>4, <3>1
  <2> QED BY <2>3, <2>4
<1>5. \A c \in Conversations :
        ConvOK(c, log'[c], shown'[c], remote'[c], lane'[c], sending'[c], lost', Dirty',
               LateOf(c)', mutations')
  BY <1>1, <1>3, <1>4
<1>6. /\ log' = [c \in Conversations |-> log'[c]]
      /\ lane' = [c \in Conversations |-> lane'[c]]
      /\ sending' = [c \in Conversations |-> sending'[c]]
  BY <1>2
<1>7. Shapes' /\ DirtyOK'
  <2>1. Shapes'
    BY <1>1, <1>6 DEF ShadowInv, Shapes
  <2>2. DirtyOK'
    BY <1>1 DEF ShadowInv, DirtyOK
  <2> QED BY <2>1, <2>2
<1>8. \A c \in Conversations : shown[c] <= shown[c]
  BY ShownIs
<1>9. \A c \in Conversations : Follows(c)
  BY <1>1, <1>4, <1>8 DEF Follows
<1>10. \A c \in Conversations : DocOK(file'[c], mutations')
  BY <1>1 DEF ShadowInv
<1> QED BY <1>5, <1>7, <1>9, <1>10 DEF ShadowInv

LEMMA GoneStep ==
  ASSUME ShadowInv, NEW taken \in SUBSET Reaching,
         NEW settled \in SUBSET Interrupted, Gone(taken, settled)
  PROVE  ShadowInv' /\ \A x \in Conversations : Follows(x)
<1>1. /\ log' = log /\ late' = late /\ mutations' = mutations
      /\ dirty' = <<>> /\ process' = "up"
      /\ lane' = [c \in Conversations |-> IdleLane]
      /\ sending' = [c \in Conversations |-> NoOp]
  BY DEF Gone
<1>2. /\ remote' = [c \in Conversations |->
                      IF c \in taken THEN Applied(remote[c], sending[c]) ELSE remote[c]]
      /\ shown' = [c \in Conversations |->
                      IF c \in taken /\ Vouched(c, sending[c])
                        THEN sending[c].at ELSE shown[c]]
      /\ lost' = {c \in Conversations :
                    \/ shown'[c] # Len(log[c])
                    \/ c \in lost /\ ~ (c \in taken /\ sending[c].kind \in Whole)
                    \/ c \in taken /\ Tears(sending[c])}
      /\ file' = [c \in Conversations |->
                    IF c \in settled THEN WithMessage(file[c], Reply(c)) ELSE file[c]]
  BY DEF Gone
<1>3. Dirty' = {} /\ \A x : LateOf(x)' = LateOf(x)
  <2>1. dirty' = <<>>
    BY <1>1
  <2>2. Dirty' = {}
    BY <2>1 DEF Dirty, IsDirty
  <2> QED BY <1>1, <2>2 DEF LateOf
<1>4. ASSUME NEW c \in Conversations
      PROVE  /\ ConvOK(c, log[c], shown'[c], remote'[c], IdleLane, NoOp, lost', {},
                       LateOf(c), mutations)
             /\ shown[c] <= shown'[c]
  <2>1. PICK lg, sh, rm, ln, sd, m, L, D, T :
          /\ lg = log[c] /\ sh = shown[c] /\ rm = remote[c] /\ ln = lane[c]
          /\ sd = sending[c] /\ m = mutations /\ L = lost /\ D = Dirty /\ T = LateOf(c)
    OBVIOUS
  <2>2. ConvOK(c, lg, sh, rm, ln, sd, L, D, T, m) /\ m \in Nat
    BY <2>1 DEF ShadowInv, Shapes
  <2>3. PICK sh2, new, L2 : sh2 = shown'[c] /\ new = remote'[c] /\ L2 = lost'
    OBVIOUS
  <2>4. c \notin L2 => sh2 = Len(lg)
    BY <1>2, <2>1, <2>3
  <2>5. CutOff(c, sh, rm, sd, L, sh2, new, L2)
    <3>1. CASE c \in taken
      <4>1. sd # NoOp
        BY <2>1, <3>1, NoOpIs DEF Reaching
      <4>2. sh2 = TakenAt(c, sh, sd, L) /\ new = Applied(rm, sd)
        BY <1>2, <2>1, <2>3, <3>1 DEF TakenAt, Exact, Vouched
      <4>3. c \notin L2 => Exact(c, sd, L)
        BY <1>2, <2>1, <2>3, <3>1 DEF Exact
      <4> QED BY <4>1, <4>2, <4>3 DEF CutOff
    <3>2. CASE c \notin taken
      <4>1. sh2 = sh /\ new = rm
        BY <1>2, <2>1, <2>3, <3>2
      <4>2. c \notin L2 => c \notin L
        BY <1>2, <2>1, <2>3, <3>2
      <4> QED BY <4>1, <4>2 DEF CutOff
    <3> QED BY <3>1, <3>2
  <2>6. ConvOK(c, lg, sh2, new, IdleLane, NoOp, L2, {}, T, m) /\ sh <= sh2
    BY <2>2, <2>4, <2>5, GoneOK
  <2> QED BY <2>1, <2>3, <2>6
<1>5. \A c \in Conversations :
        ConvOK(c, log'[c], shown'[c], remote'[c], lane'[c], sending'[c], lost', Dirty',
               LateOf(c)', mutations')
  BY <1>1, <1>3, <1>4
<1>6. /\ log' = [c \in Conversations |-> log'[c]]
      /\ lane' = [c \in Conversations |-> lane'[c]]
      /\ sending' = [c \in Conversations |-> sending'[c]]
      /\ shown' = [c \in Conversations |-> shown'[c]]
      /\ remote' = [c \in Conversations |-> remote'[c]]
      /\ file' = [c \in Conversations |-> file'[c]]
  BY <1>1, <1>2 DEF ShadowInv, Shapes
<1>7. lost' \subseteq Conversations
  BY <1>2
<1>8. Shapes'
  BY <1>1, <1>6, <1>7 DEF ShadowInv, Shapes
<1>9. DirtyOK'
  BY <1>1, ShadowAssumption DEF DirtyOK
<1>10. \A c \in Conversations : Follows(c)
  BY <1>1, <1>4 DEF Follows
<1>11. ASSUME NEW c \in Conversations PROVE DocOK(file'[c], mutations')
  <2>1. DocOK(file[c], mutations) /\ mutations \in Nat
    BY DEF ShadowInv, Shapes
  <2>2. CASE c \in settled
    <3>1. AtWork(c)
      BY <2>2 DEF Interrupted
    <3>2. PICK t : t = TurnAtWork(c)
      OBVIOUS
    <3>3. t \in Nat /\ t <= mutations /\ file[c].exists
      BY <3>1, <3>2, AtWorkIs
    <3>4. Message(t, "assistant") \in MessageType /\ Message(t, "assistant").turn <= mutations
      BY <3>3, MessageIs DEF Roles
    <3>5. DocOK(WithMessage(file[c], Message(t, "assistant")), mutations)
      BY <2>1, <3>3, <3>4, LongerDoc
    <3> QED BY <1>1, <1>2, <2>2, <3>2, <3>5 DEF Reply
  <2>3. CASE c \notin settled
    BY <1>1, <1>2, <2>1, <2>3
  <2> QED BY <2>2, <2>3
<1> QED BY <1>5, <1>8, <1>9, <1>10, <1>11 DEF ShadowInv

-----------------------------------------------------------------------------
(* The theorems.                                                           *)

LEMMA InitOK == Init => ShadowInv
<1> SUFFICES ASSUME Init PROVE ShadowInv
  OBVIOUS
<1>1. /\ log = [c \in Conversations |-> <<NoDoc>>]
      /\ shown = [c \in Conversations |-> 1]
      /\ file = [c \in Conversations |-> NoDoc]
      /\ lost = {} /\ remote = [c \in Conversations |-> NoDoc]
      /\ lane = [c \in Conversations |-> IdleLane]
      /\ sending = [c \in Conversations |-> NoOp]
      /\ dirty = <<>> /\ late = {} /\ process = "up" /\ mutations = 0
  BY DEF Init
<1>2. /\ IdleLane.pending = <<>> /\ ~ IdleLane.repair /\ ~ IdleLane.draining
      /\ IdleLane \in LaneType /\ Len(IdleLane.pending) = 0
  BY DEF IdleLane, LaneType
<1>3. PICK lg : lg = <<NoDoc>>
  OBVIOUS
<1>4. DocOK(NoDoc, 0) /\ NoDoc \in DocType /\ \A y : ~ Has(NoDoc, y)
  <2>1. DocOK(NoDoc, 0) /\ NoDoc \in DocType
    BY AbsentDoc
  <2>2. \A y : ~ Has(NoDoc, y)
    BY DEF Has, NoDoc
  <2> QED BY <2>1, <2>2
<1>5. lg \in Seq(DocType) /\ Len(lg) = 1 /\ lg[1] = NoDoc
  BY <1>3, <1>4
<1>6. NoDoc.msgs = <<>>
  BY DEF NoDoc
<1>7. FileOK(lg, 0)
  BY <1>3, <1>4, <1>5 DEF FileOK
<1>8. Behind(lg, IdleLane, NoOp) = 1
  BY <1>2, <1>5 DEF Behind
<1>9. LaneOK(lg, IdleLane, NoOp) /\ SendOK(lg, IdleLane, NoOp)
  BY <1>2, <1>5, ShadowAssumption DEF LaneOK, SendOK, Waiting
<1>10. \A c : CopyOK(c, lg, 1, NoDoc, 1, {})
  BY <1>4, <1>5, <1>6 DEF CopyOK
<1>11. \A c : ExactOK(c, 1, 1, IdleLane, NoOp, {}, {}) /\ LateOK(c, lg, 1, 1, {}, {}, {})
  BY DEF ExactOK, LateOK
<1>12. \A c : ConvOK(c, lg, 1, NoDoc, IdleLane, NoOp, {}, {}, {}, 0)
  BY <1>7, <1>8, <1>9, <1>10, <1>11 DEF ConvOK
<1>13. Dirty = {} /\ \A c : LateOf(c) = {}
  BY <1>1 DEF Dirty, IsDirty, LateOf
<1>14. \A c \in Conversations :
         ConvOK(c, log[c], shown[c], remote[c], lane[c], sending[c], lost, Dirty,
                LateOf(c), mutations)
  BY <1>1, <1>3, <1>12, <1>13
<1>15. DirtyOK
  BY <1>1, ShadowAssumption DEF DirtyOK
<1>16. Shapes
  BY <1>1, ShadowAssumption DEF Shapes
<1>17. \A c \in Conversations : DocOK(file[c], mutations)
  BY <1>1, <1>4
<1> QED BY <1>14, <1>15, <1>16, <1>17 DEF ShadowInv

LEMMA NextOK ==
  ASSUME ShadowInv, [Next]_vars
  PROVE  ShadowInv' /\ \A x \in Conversations : Follows(x)
<1>1. ASSUME NEW c \in Conversations, Write(c) \/ LoopStep(c)
      PROVE  ShadowInv' /\ \A x \in Conversations : Follows(x)
  <2>1. CASE Write(c)
    BY <2>1, WriteOK
  <2>2. CASE SendSucceeds(c)
    BY <2>2, SendSucceedsOK
  <2>3. CASE SendRefused(c)
    <3>1. Fails(c, lost) /\ UNCHANGED <<shown, remote>> /\ late' = late
      BY <2>3 DEF SendRefused
    <3> QED BY <3>1, NotTakenOK
  <2>4. CASE LoopEnds(c)
    BY <2>4, LoopEndsOK
  <2> QED BY <1>1, <2>1, <2>2, <2>3, <2>4 DEF LoopStep
<1>2. ASSUME NEW c \in Conversations, SendLost(c) \/ AnswerLost(c) \/ SendTimesOut(c)
      PROVE  ShadowInv' /\ \A x \in Conversations : Follows(x)
  <2>1. CASE SendLost(c)
    <3>1. Fails(c, lost) /\ UNCHANGED <<shown, remote>> /\ late' = late
      BY <2>1 DEF SendLost
    <3> QED BY <3>1, NotTakenOK
  <2>2. CASE AnswerLost(c)
    BY <2>2, AnswerLostStep
  <2>3. CASE SendTimesOut(c)
    <3>1. Fails(c, lost) /\ UNCHANGED <<shown, remote>>
          /\ late' = late \cup {<<c, sending[c]>>}
      BY <2>3 DEF SendTimesOut
    <3> QED BY <3>1, NotTakenOK
  <2> QED BY <1>2, <2>1, <2>2, <2>3
<1>3. \A c \in Conversations : shown[c] <= shown[c]
  BY ShownIs
<1>4. CASE DrainedForShutdown
  <2>1. /\ log' = log /\ shown' = shown /\ lost' = lost /\ remote' = remote
        /\ lane' = lane /\ sending' = sending /\ dirty' = dirty /\ late' = late
        /\ file' = file /\ mutations' = mutations /\ process' \in {"flushed", "cut"}
    BY <1>4 DEF DrainedForShutdown
  <2>2. Dirty' = Dirty /\ \A x : LateOf(x)' = LateOf(x)
    BY <2>1 DEF Dirty, LateOf
  <2>3. Shapes' /\ DirtyOK'
    BY <2>1 DEF ShadowInv, Shapes, DirtyOK
  <2> QED BY <1>3, <2>1, <2>2, <2>3 DEF ShadowInv, Follows
<1>5. CASE UNCHANGED vars
  <2>1. /\ log' = log /\ shown' = shown /\ lost' = lost /\ remote' = remote
        /\ lane' = lane /\ sending' = sending /\ dirty' = dirty /\ late' = late
        /\ file' = file /\ mutations' = mutations /\ process' = process
    BY <1>5 DEF vars
  <2>2. Dirty' = Dirty /\ \A x : LateOf(x)' = LateOf(x)
    BY <2>1 DEF Dirty, LateOf
  <2>3. Shapes' /\ DirtyOK'
    BY <2>1 DEF ShadowInv, Shapes, DirtyOK
  <2> QED BY <1>3, <2>1, <2>2, <2>3 DEF ShadowInv, Follows
<1>6. CASE LateSendLands
  BY <1>6, LateSendLandsOK
<1>7. CASE Shutdown
  BY <1>7, ShutdownOK
<1>8. CASE Exit \/ Crash
  <2>1. PICK taken \in SUBSET Reaching, settled \in SUBSET Interrupted :
          Gone(taken, settled)
    BY <1>8 DEF Exit, Crash
  <2> QED BY <2>1, GoneStep
<1> QED BY <1>1, <1>2, <1>4, <1>5, <1>6, <1>7, <1>8 DEF Next

\* What the types say of one conversation.
LEMMA TypesOfOne ==
  ASSUME NEW m \in Nat, NEW c, NEW lg, NEW sh, NEW rm, NEW ln, NEW sd, NEW L,
         NEW D, NEW T, ConvOK(c, lg, sh, rm, ln, sd, L, D, T, m)
  PROVE  /\ Len(lg) \in Nat
         /\ sh \in 1..Len(lg)
         /\ Len(ln.pending) <= MAX_PENDING_OPERATIONS
         /\ ln.repair \in BOOLEAN /\ ln.draining \in BOOLEAN
         /\ sd.kind \in Kinds
         /\ sd.kind # "none" => ln.draining
<1>1. FileOK(lg, m) /\ LaneOK(lg, ln, sd) /\ SendOK(lg, ln, sd)
      /\ CopyOK(c, lg, sh, rm, Behind(lg, ln, sd), L)
  BY DEF ConvOK
<1>2. Len(lg) \in Nat
  BY <1>1 DEF FileOK
<1>3. PICK b : b = Behind(lg, ln, sd)
  OBVIOUS
<1>4. b \in Nat /\ b <= Len(lg) /\ sh \in 1..b
  BY <1>1, <1>3, Numbers DEF CopyOK
<1>5. sh \in 1..Len(lg)
  BY <1>2, <1>4
<1>6. /\ Len(ln.pending) <= MAX_PENDING_OPERATIONS
      /\ ln.repair \in BOOLEAN /\ ln.draining \in BOOLEAN
  BY <1>1 DEF LaneOK, LaneType
<1>7. sd \in OpType
  <2>1. sd = NoOp \/ OpOK(lg, sd)
    BY <1>1 DEF SendOK
  <2> QED BY <2>1, NoOpIs DEF OpOK
<1>8. sd.kind \in Kinds
  BY <1>7 DEF OpType
<1>9. sd.kind # "none" => ln.draining
  BY <1>1, NoOpIs DEF LaneOK
<1> QED BY <1>2, <1>5, <1>6, <1>8, <1>9

\* With nothing queued, nothing on the wire and no mark, the copy is the last
\* document the shadow knows of.
LEMMA QuietOne ==
  ASSUME NEW m \in Nat, NEW c, NEW lg, NEW sh, NEW rm, NEW ln, NEW sd, NEW L,
         NEW D, NEW T, ConvOK(c, lg, sh, rm, ln, sd, L, D, T, m),
         ~ ln.draining, c \notin D, c \notin L
  PROVE  rm = lg[Len(lg)]
<1>1. FileOK(lg, m) /\ LaneOK(lg, ln, sd)
      /\ CopyOK(c, lg, sh, rm, Behind(lg, ln, sd), L)
      /\ ExactOK(c, sh, Behind(lg, ln, sd), ln, sd, L, D)
  BY DEF ConvOK
<1>2. sd = NoOp /\ ~ ln.repair /\ ln.pending = <<>>
  BY <1>1 DEF LaneOK, Waiting
<1>3. Len(lg) \in Nat
  BY <1>1 DEF FileOK
<1>4. Behind(lg, ln, sd) = Len(lg)
  BY <1>2, <1>3 DEF Behind
<1>5. sh = Behind(lg, ln, sd)
  BY <1>1, <1>2, NoOpIs DEF ExactOK, Deltas
<1>6. rm = lg[sh]
  BY <1>1 DEF CopyOK
<1> QED BY <1>4, <1>5, <1>6

\* The message on the wire is in no version the remote may have taken from.
LEMMA NotThereYet ==
  ASSUME NEW m \in Nat, NEW c, NEW lg, NEW sh, NEW rm, NEW ln, NEW sd, NEW L,
         NEW D, NEW T, ConvOK(c, lg, sh, rm, ln, sd, L, D, T, m),
         sd.kind \in {"user", "assistant"}
  PROVE  ~ Has(rm, Message(sd.turn, sd.kind))
<1>1. SendOK(lg, ln, sd) /\ CopyOK(c, lg, sh, rm, Behind(lg, ln, sd), L)
  BY DEF ConvOK
<1>2. sd # NoOp /\ sd.kind \notin Whole
  BY NoOpIs DEF Whole
<1>3. Behind(lg, ln, sd) = sd.at - 1
  BY <1>2 DEF Behind
<1>4. \A w \in 1..sd.at - 1 : ~ Has(lg[w], Message(sd.turn, sd.kind))
  BY <1>1, <1>2 DEF SendOK, OpOK
<1>5. \A i \in 1..Len(rm.msgs) : \E w \in 1..sd.at - 1 : Has(lg[w], rm.msgs[i])
  BY <1>1, <1>3 DEF CopyOK
<1> QED BY <1>4, <1>5 DEF Has

\* The inductive invariant of the shadow (transcript-shadow.ts).
THEOREM ShadowInvariant == Spec => []ShadowInv
<1>1. Init => ShadowInv
  BY InitOK
<1>2. ShadowInv /\ [Next]_vars => ShadowInv'
  BY NextOK
<1> QED BY <1>1, <1>2, PTL DEF Spec

\* TypeOK holds in every reachable state: no lane holds more than its cap, the
\* dirty set never passes its own, and only a draining lane has a send on the
\* wire (enqueue, markDirty and drain).
THEOREM TypeCorrect == Spec => []TypeOK
<1>1. ShadowInv => TypeOK
  <2> SUFFICES ASSUME ShadowInv PROVE TypeOK
    OBVIOUS
  <2>1. ASSUME NEW c \in Conversations
        PROVE  /\ shown[c] \in 1..Len(log[c])
               /\ Len(lane[c].pending) <= MAX_PENDING_OPERATIONS
               /\ lane[c].repair \in BOOLEAN /\ lane[c].draining \in BOOLEAN
               /\ sending[c].kind \in Kinds
               /\ sending[c].kind # "none" => lane[c].draining
    <3>1. PICK lg, sh, rm, ln, sd, m, L, D, T :
            /\ lg = log[c] /\ sh = shown[c] /\ rm = remote[c] /\ ln = lane[c]
            /\ sd = sending[c] /\ m = mutations /\ L = lost /\ D = Dirty /\ T = LateOf(c)
      OBVIOUS
    <3>2. ConvOK(c, lg, sh, rm, ln, sd, L, D, T, m) /\ m \in Nat
      BY <3>1 DEF ShadowInv, Shapes
    <3>3. /\ sh \in 1..Len(lg)
          /\ Len(ln.pending) <= MAX_PENDING_OPERATIONS
          /\ ln.repair \in BOOLEAN /\ ln.draining \in BOOLEAN
          /\ sd.kind \in Kinds
          /\ sd.kind # "none" => ln.draining
      BY <3>2, TypesOfOne
    <3> QED BY <3>1, <3>3
  <2>2. /\ mutations \in 0..MaxMutations /\ lost \subseteq Conversations
        /\ process \in {"up", "stopping", "flushed", "cut"}
        /\ Len(dirty) <= MAX_DIRTY_CONVERSATIONS
    BY DEF ShadowInv, Shapes, DirtyOK
  <2> QED BY <2>1, <2>2 DEF TypeOK
<1> QED BY <1>1, ShadowInvariant, PTL

\* A conversation with nothing queued, nothing on the wire and no dirty mark
\* shows the last document the shadow was told of, whatever was lost, refused,
\* collapsed, evicted or cut off by a crash on the way, unless it is lost
\* (transcript-shadow.ts, drain and markDirty).
THEOREM QuietIsCurrent == Spec => []QuietMeansCurrent
<1>1. ShadowInv => QuietMeansCurrent
  <2> SUFFICES ASSUME ShadowInv, NEW c \in Conversations, ~ lane[c].draining,
                      ~ IsDirty(dirty, c), c \notin lost
               PROVE  remote[c] = Told(c)
    BY DEF QuietMeansCurrent
  <2>1. PICK lg, sh, rm, ln, sd, m, L, D, T :
          /\ lg = log[c] /\ sh = shown[c] /\ rm = remote[c] /\ ln = lane[c]
          /\ sd = sending[c] /\ m = mutations /\ L = lost /\ D = Dirty /\ T = LateOf(c)
    OBVIOUS
  <2>2. ConvOK(c, lg, sh, rm, ln, sd, L, D, T, m) /\ m \in Nat
    BY <2>1 DEF ShadowInv, Shapes
  <2>3. ~ ln.draining /\ c \notin D /\ c \notin L
    BY <2>1 DEF Dirty
  <2>4. rm = lg[Len(lg)]
    BY <2>2, <2>3, QuietOne
  <2> QED BY <2>1, <2>4 DEF Told
<1> QED BY <1>1, ShadowInvariant, PTL

\* No message is sent to a remote document that holds it already: an operation
\* of unknown outcome, or one a repair stands for, is never sent behind the
\* document that includes it (transcript-shadow-repair.ts).
THEOREM NothingIsSentTwice == Spec => []NothingIsReplayed
<1>1. ShadowInv => NothingIsReplayed
  <2> SUFFICES ASSUME ShadowInv, NEW c \in Conversations,
                      sending[c].kind \in {"user", "assistant"}
               PROVE  ~ Has(remote[c], Message(sending[c].turn, sending[c].kind))
    BY DEF NothingIsReplayed
  <2>1. PICK lg, sh, rm, ln, sd, m, L, D, T :
          /\ lg = log[c] /\ sh = shown[c] /\ rm = remote[c] /\ ln = lane[c]
          /\ sd = sending[c] /\ m = mutations /\ L = lost /\ D = Dirty /\ T = LateOf(c)
    OBVIOUS
  <2>2. ConvOK(c, lg, sh, rm, ln, sd, L, D, T, m) /\ m \in Nat
    BY <2>1 DEF ShadowInv, Shapes
  <2>3. ~ Has(rm, Message(sd.turn, sd.kind))
    BY <2>1, <2>2, NotThereYet
  <2> QED BY <2>1, <2>3
<1> QED BY <1>1, ShadowInvariant, PTL

\* The copy of one conversation after a step.
LEMMA CopyIs ==
  ASSUME NEW m \in Nat, NEW c, NEW lg, NEW sh, NEW rm, NEW ln, NEW sd, NEW L,
         NEW D, NEW T, ConvOK(c, lg, sh, rm, ln, sd, L, D, T, m)
  PROVE  /\ sh \in 1..Len(lg) /\ Len(lg) \in Nat
         /\ c \notin L => rm = lg[sh]
<1>1. sh \in 1..Len(lg) /\ Len(lg) \in Nat
  BY TypesOfOne
<1>2. c \notin L => rm = lg[sh]
  BY DEF ConvOK, CopyOK
<1> QED BY <1>1, <1>2

\* The shadow implements TranscriptMirror: the copies lag behind the documents
\* it knows of and never go back, but for the conversations with a gap that is
\* forgotten or that it cannot know of.
THEOREM ShadowImplementsMirror == Spec => ImplementsTranscriptMirror
<1>1. Init => Mirror!Init
  BY DEF Init, Mirror!Init
<1>2. ShadowInv /\ ShadowInv' /\ [Next]_vars => Mirror!Next
  <2> SUFFICES ASSUME ShadowInv, ShadowInv', [Next]_vars,
                      NEW c \in Conversations
               PROVE  Mirror!FileAdvances(c) /\ Mirror!CopyFollows(c)
    BY DEF Mirror!Next
  <2>1. Follows(c)
    BY NextOK
  <2>2. log[c] \in Seq(DocType)
    BY DEF ShadowInv, ConvOK, FileOK
  <2>3. Mirror!FileAdvances(c)
    <3>1. PICK lg, lg2 : lg = log[c] /\ lg2 = log'[c]
      OBVIOUS
    <3>2. CASE lg2 = lg
      BY <3>1, <3>2 DEF Mirror!FileAdvances
    <3>3. CASE lg2 # lg
      <4>1. PICK doc : lg2 = Append(lg, doc)
        BY <2>1, <3>1, <3>3 DEF Follows
      <4>2. lg \in Seq(DocType)
        BY <2>2, <3>1
      <4>3. Len(lg2) = Len(lg) + 1 /\ \A i \in 1..Len(lg) : lg2[i] = lg[i]
        BY <4>1, <4>2
      <4> QED BY <3>1, <4>3 DEF Mirror!FileAdvances
    <3> QED BY <3>2, <3>3
  <2>4. Mirror!CopyFollows(c)
    <3>1. PICK lg, sh, rm, ln, sd, m, L, D, T :
            /\ lg = log'[c] /\ sh = shown'[c] /\ rm = remote'[c] /\ ln = lane'[c]
            /\ sd = sending'[c] /\ m = mutations' /\ L = lost' /\ D = Dirty'
            /\ T = LateOf(c)'
      OBVIOUS
    <3>2. ConvOK(c, lg, sh, rm, ln, sd, L, D, T, m)
      BY <3>1 DEF ShadowInv
    <3>3. m \in Nat
      BY <3>1 DEF ShadowInv, Shapes
    <3>4. /\ sh \in 1..Len(lg) /\ Len(lg) \in Nat
          /\ c \notin L => rm = lg[sh]
      BY <3>2, <3>3, CopyIs
    <3>5. PICK old : old = shown[c]
      OBVIOUS
    <3>6. old \in Nat /\ old <= sh
      BY <2>1, <3>1, <3>5, ShownIs DEF Follows
    <3>7. sh \in old..Len(lg)
      BY <3>4, <3>6
    <3> QED BY <3>1, <3>4, <3>5, <3>7 DEF Mirror!CopyFollows
  <2> QED BY <2>3, <2>4
<1>3. ShadowInv /\ ShadowInv' /\ [Next]_vars => [Mirror!Next]_(Mirror!vars)
  BY <1>2
<1> QED BY <1>1, <1>3, ShadowInvariant, PTL DEF Spec, ImplementsTranscriptMirror, Mirror!Spec
=============================================================================

--------------------------- MODULE LockOrderProofs ---------------------------
(***************************************************************************)
(* No deadlock but among deletions of accounts, for any number of users,   *)
(* houses and transactions.                                                *)
(*                                                                         *)
(* The locks are ranked.  A transaction wants locks of a rank above those  *)
(* it holds, or a lock that only those contend for who are kept apart by   *)
(* an earlier lock: a row of a house, by the lock of the house; a row of   *)
(* the account, when it is migrated, by the membership.  Whoever waits is  *)
(* then held up by somebody who waits for a higher rank, and the ranks end.*)
(* A deletion that waits for a house its user has created leaves the order;*)
(* but all it has locked above the houses is its membership and grant,     *)
(* which nobody wants who has not locked its own house.                    *)
(***************************************************************************)
EXTENDS LockOrder, FiniteSetTheorems, SequenceTheorems, TLAPS

(* The kinds that keep to the order: not the mark of a migration, and not  *)
(* the rows that an account leaves in other houses.                        *)
Ordered == Kinds \cap {"mark", "erase"} = {}

Rank(l) ==
  CASE l.what \in {"consent", "key"} -> 1
    [] l.what = "user" -> 2
    [] l.what = "house" -> 3
    [] l.what = "membership" -> 4
    [] l.what \in {"grant", "pantry"} -> 5
    [] l.what \in {"connection", "plan"} -> 6
    [] l.what \in {"lot", "diary", "planned", "consented", "candidate"} -> 7
    [] l.what \in {"commit-order", "control"} -> 8

RowOfHouse(l) == l.what \in {"lot", "diary", "plan", "planned"} /\ l.of \in House

RowOfAccount(l) == l.what \in {"diary", "planned"} /\ l.of \in User

Guarded(k, l) == \/ RowOfHouse(l)
                 \/ k = "migrate" /\ RowOfAccount(l)

(* The lock of a house that a deleted user has created: it leaves the order.*)
OfCreator(l) == l.what = "house" /\ l.mode = "NoKeyUpdate"

Account == {"diary", "lot", "consume", "plan", "create"}

KeepsOrder == AllKinds \ {"mark", "erase"}

(* What a transaction has locked fits how far it has come, ...             *)
Shape ==
  \A t \in Tx : Open(t) =>
    /\ tx[t].held <= ToTake(t)
    /\ tx[t].house # Unread => tx[t].held >= LooksAfter(tx[t].kind)
    /\ tx[t].house = NoHouse => tx[t].kind \in InAccount \cup {"create"}
    /\ tx[t].kind = "create" => tx[t].house \in {NoHouse, Unread}
    /\ tx[t].kind \notin {"add", "member"} => tx[t].target = tx[t].user

(* ... no two hold locks that refuse each other, ...                       *)
Exclusive ==
  \A s, t \in Tx : s # t /\ Open(s) /\ Open(t) =>
    \A l \in Held(s), m \in Held(t) : ~Refuses(l, m)

(* ... whoever works in an account is in no house, ...                     *)
AccountStays ==
  \A t \in Tx : Open(t) /\ tx[t].kind \in Account /\ tx[t].house = NoHouse
    => home[tx[t].user] = NoHouse

(* ... and who is migrated, and has the lock of the house, is in it.       *)
MigratedStays ==
  \A t \in Tx : Open(t) /\ tx[t].kind = "migrate" /\ tx[t].held >= 2
    => tx[t].house \in House /\ home[tx[t].user] = tx[t].house

IInv == TypeOK /\ Shape /\ Exclusive /\ AccountStays /\ MigratedStays

-----------------------------------------------------------------------------
(* A list of houses.                                                      *)
Listed(c) == c \in Seq(House)

(* The locks of the deletion of an account, by their positions.            *)
LEMMA ConcatAt ==
  ASSUME NEW A, NEW p \in Seq(A), NEW q \in Seq(A)
  PROVE  /\ p \o q \in Seq(A) /\ Len(p \o q) = Len(p) + Len(q)
         /\ \A i \in 1 .. Len(p) : (p \o q)[i] = p[i]
         /\ \A i \in 1 .. Len(q) : (p \o q)[i + Len(p)] = q[i]
<1>1. Len(p \o q) = Len(p) + Len(q) /\ p \o q \in Seq(A) BY ConcatProperties
<1>2. \A i \in 1 .. Len(p) + Len(q) : (p \o q)[i] = IF i <= Len(p) THEN p[i] ELSE q[i - Len(p)]
  BY ConcatProperties
<1>0. Len(p) \in Nat /\ Len(q) \in Nat OBVIOUS
<1>3. ASSUME NEW i \in 1 .. Len(p) PROVE (p \o q)[i] = p[i] BY <1>0, <1>2, <1>3
<1>4. ASSUME NEW i \in 1 .. Len(q) PROVE (p \o q)[i + Len(p)] = q[i]
  <2> DEFINE m == Len(p)
             n == Len(q)
  <2>1. m \in Nat /\ n \in Nat /\ i \in 1 .. n BY <1>0, <1>4
  <2>3. \A k \in 1 .. m + n : (p \o q)[k] = IF k <= m THEN p[k] ELSE q[k - m] BY <1>2
  <2> HIDE DEF m, n
  <2>2. i + m \in 1 .. m + n /\ ~(i + m <= m) /\ (i + m) - m = i BY <2>1
  <2>4. (p \o q)[i + m] = q[i] BY <2>2, <2>3
  <2> QED BY <2>4 DEF m
<1> QED BY <1>1, <1>3, <1>4
LEMMA CreatorsSeq ==
  ASSUME NEW c \in Seq(House), NEW A, \A g \in House : CreatorLock(g) \in A, NEW C,
         C = [i \in 1 .. Len(c) |-> CreatorLock(c[i])]
  PROVE  /\ C \in Seq(A) /\ Len(C) = Len(c)
         /\ \A i \in 1 .. Len(c) : \E g \in House : C[i] = CreatorLock(g)
<1>1. Len(c) \in Nat /\ \A i \in 1 .. Len(c) : c[i] \in House OBVIOUS
<1>2. C \in [1 .. Len(c) -> A] BY <1>1
<1>3. C \in Seq(A) BY <1>1, <1>2
<1>4. Len(C) = Len(c)
  <2>1. DOMAIN C = 1 .. Len(c) OBVIOUS
  <2> QED BY <1>1, <1>3, <2>1
<1> QED BY <1>1, <1>3, <1>4

(* A plan P that locks the user u and n houses that it has created ...     *)
Alone(P, u, n) ==
  /\ Len(P) = n + 1 /\ P[1] = X("user", u)
  /\ \A j \in 2 .. n + 1 : \E g \in House : P[j] = CreatorLock(g)

(* ... and what it has in its house h.                                     *)
InHouse(P, u, h, n) ==
  /\ Len(P) = n + 6
  /\ P[1] = X("user", u) /\ P[2] = X("house", h)
  /\ P[3] = X("membership", <<u, h>>) /\ P[4] = X("grant", <<u, h>>)
  /\ \A j \in 5 .. n + 4 : \E g \in House : P[j] = CreatorLock(g)
  /\ P[n + 5] = X("diary", h) /\ P[n + 6] = CommitOrder


LEMMA DeleteAlone ==
  ASSUME NEW u, NEW c, Listed(c), NEW P, P = DeletePlan(u, NoHouse, c)
  PROVE  \E n \in Nat : Alone(P, u, n)
<1> DEFINE C == [i \in 1 .. Len(c) |-> CreatorLock(c[i])]
           A == {X("user", u)} \cup {CreatorLock(g) : g \in House}
           F == <<X("user", u)>>
<1>1. c \in Seq(House) /\ Len(c) \in Nat BY DEF Listed
<1>2. \A g \in House : CreatorLock(g) \in A OBVIOUS
<1>3. F \in Seq(A) /\ Len(F) = 1 /\ F[1] = X("user", u) OBVIOUS
<1>4. P = F \o C BY DEF DeletePlan
<1>5. C = [i \in 1 .. Len(c) |-> CreatorLock(c[i])] OBVIOUS
<1> HIDE DEF A, F, C
<1>6. /\ C \in Seq(A) /\ Len(C) = Len(c)
      /\ \A i \in 1 .. Len(c) : \E g \in House : C[i] = CreatorLock(g)
  BY <1>1, <1>2, <1>5, CreatorsSeq
<1>7. PICK n \in Nat : n = Len(c) BY <1>1
<1>8. Len(C) = n /\ \A i \in 1 .. n : \E g \in House : C[i] = CreatorLock(g)
  BY <1>6, <1>7
<1>9. /\ F \o C \in Seq(A) /\ Len(F \o C) = Len(F) + Len(C)
      /\ \A i \in 1 .. Len(F) : (F \o C)[i] = F[i]
      /\ \A i \in 1 .. Len(C) : (F \o C)[i + Len(F)] = C[i]
  <2>1. F \in Seq(A) /\ C \in Seq(A) BY <1>3, <1>6
  <2> QED BY <2>1, ConcatAt
<1>10. /\ Len(P) = 1 + n
       /\ \A i \in 1 .. 1 : P[i] = F[i]
       /\ \A i \in 1 .. n : P[i + 1] = C[i]
  BY <1>3, <1>4, <1>8, <1>9
<1>11. ASSUME NEW j \in 2 .. n + 1 PROVE \E g \in House : P[j] = CreatorLock(g)
  <2>1. j - 1 \in 1 .. n /\ (j - 1) + 1 = j OBVIOUS
  <2>2. P[j] = C[j - 1] BY <1>10, <2>1
  <2> QED BY <1>8, <2>1, <2>2
<1> QED BY <1>3, <1>10, <1>11 DEF Alone

LEMMA DeleteInHouse ==
  ASSUME NEW u, NEW h, h # NoHouse, NEW c, Listed(c), NEW P, P = DeletePlan(u, h, c)
  PROVE  \E n \in Nat : InHouse(P, u, h, n)
<1> DEFINE C == [i \in 1 .. Len(c) |-> CreatorLock(c[i])]
           A == {X("user", u), X("house", h), X("membership", <<u, h>>), X("grant", <<u, h>>),
                 X("diary", h), CommitOrder} \cup {CreatorLock(g) : g \in House}
           G == <<X("user", u), X("house", h), X("membership", <<u, h>>), X("grant", <<u, h>>)>>
           B == <<X("diary", h), CommitOrder>>
           H == G \o C
<1>1. c \in Seq(House) /\ Len(c) \in Nat BY DEF Listed
<1>2. \A g \in House : CreatorLock(g) \in A OBVIOUS
<1>3. /\ G \in Seq(A) /\ Len(G) = 4 /\ G[1] = X("user", u) /\ G[2] = X("house", h)
      /\ G[3] = X("membership", <<u, h>>) /\ G[4] = X("grant", <<u, h>>)
  OBVIOUS
<1>4. B \in Seq(A) /\ Len(B) = 2 /\ B[1] = X("diary", h) /\ B[2] = CommitOrder OBVIOUS
<1>5. P = H \o B BY DEF DeletePlan
<1>6. C = [i \in 1 .. Len(c) |-> CreatorLock(c[i])] OBVIOUS
<1> HIDE DEF A, G, C, B
<1>7. /\ C \in Seq(A) /\ Len(C) = Len(c)
      /\ \A i \in 1 .. Len(c) : \E g \in House : C[i] = CreatorLock(g)
  BY <1>1, <1>2, <1>6, CreatorsSeq
<1>8. PICK n \in Nat : n = Len(c) BY <1>1
<1>9. Len(C) = n /\ \A i \in 1 .. n : \E g \in House : C[i] = CreatorLock(g)
  BY <1>7, <1>8
<1>10. /\ H \in Seq(A) /\ Len(H) = 4 + n
       /\ \A i \in 1 .. 4 : H[i] = G[i]
       /\ \A i \in 1 .. n : H[i + 4] = C[i]
  <2>1. /\ G \o C \in Seq(A) /\ Len(G \o C) = Len(G) + Len(C)
        /\ \A i \in 1 .. Len(G) : (G \o C)[i] = G[i]
        /\ \A i \in 1 .. Len(C) : (G \o C)[i + Len(G)] = C[i]
    <3>1. G \in Seq(A) /\ C \in Seq(A) BY <1>3, <1>7
    <3> QED BY <3>1, ConcatAt
  <2> QED BY <1>3, <1>9, <2>1
<1> HIDE DEF H
<1>11. PICK m \in Nat : m = 4 + n BY <1>8
<1>12. /\ Len(P) = m + 2
       /\ \A i \in 1 .. m : P[i] = H[i]
       /\ \A i \in 1 .. 2 : P[i + m] = B[i]
  <2>1. /\ H \o B \in Seq(A) /\ Len(H \o B) = Len(H) + Len(B)
        /\ \A i \in 1 .. Len(H) : (H \o B)[i] = H[i]
        /\ \A i \in 1 .. Len(B) : (H \o B)[i + Len(H)] = B[i]
    <3>1. H \in Seq(A) /\ B \in Seq(A) BY <1>4, <1>10
    <3> QED BY <3>1, ConcatAt
  <2> QED BY <1>4, <1>5, <1>10, <1>11, <2>1
<1>13. \A i \in 1 .. 4 : P[i] = G[i] BY <1>10, <1>11, <1>12
<1>14. ASSUME NEW j \in 5 .. n + 4 PROVE \E g \in House : P[j] = CreatorLock(g)
  <2>1. j - 4 \in 1 .. n /\ (j - 4) + 4 = j /\ j \in 1 .. m BY <1>11
  <2>2. P[j] = C[j - 4] BY <1>10, <1>12, <2>1
  <2> QED BY <1>9, <2>1, <2>2
<1>15. P[n + 5] = X("diary", h) /\ P[n + 6] = CommitOrder
  <2>1. 1 + m = n + 5 /\ 2 + m = n + 6 BY <1>11
  <2>2. P[1 + m] = B[1] /\ P[2 + m] = B[2] BY <1>12
  <2> QED BY <1>4, <2>1, <2>2
<1>16. Len(P) = n + 6 BY <1>11, <1>12
<1> QED BY <1>3, <1>13, <1>14, <1>15, <1>16 DEF InHouse

(* Its locks, and what rank they have.                                     *)
LEMMA CreatorIs ==
  ASSUME NEW g, NEW l, l = CreatorLock(g)
  PROVE  l.what = "house" /\ l.of = g /\ l.mode = "NoKeyUpdate" /\ Rank(l) = 3
BY DEF CreatorLock, Lock, Rank

LEMMA AloneLocks ==
  ASSUME NEW P, NEW u, NEW n \in Nat, Alone(P, u, n), NEW j \in 1 .. Len(P)
  PROVE  /\ P[1] = X("user", u)
         /\ j = 1 \/ \E g \in House : P[j] = CreatorLock(g)
BY DEF Alone

LEMMA InHouseLocks ==
  ASSUME NEW P, NEW u, NEW h, NEW n \in Nat, InHouse(P, u, h, n), NEW j \in 1 .. Len(P)
  PROVE  \/ j = 1 /\ P[j] = X("user", u)
         \/ j = 2 /\ P[j] = X("house", h)
         \/ j = 3 /\ P[j] = X("membership", <<u, h>>)
         \/ j = 4 /\ P[j] = X("grant", <<u, h>>)
         \/ j > 4 /\ \E g \in House : P[j] = CreatorLock(g)
         \/ j = Len(P) - 1 /\ P[j] = X("diary", h)
         \/ j = Len(P) /\ P[j] = CommitOrder
<1>1. j = 1 \/ j = 2 \/ j = 3 \/ j = 4 \/ j \in 5 .. n + 4 \/ j = n + 5 \/ j = n + 6
  BY DEF InHouse
<1> QED BY <1>1 DEF InHouse
(* One of its locks: it keeps to the order, but for the houses it created.  *)
Ranked(P, u, h, j) ==
  /\ P[j].mode \in DOMAIN Modes /\ Rank(P[j]) \in 1 .. 8
  /\ h \in House \cup {NoHouse} => \/ \A i \in 1 .. j - 1 : Rank(P[i]) < Rank(P[j])
                                   \/ RowOfHouse(P[j])
                                   \/ OfCreator(P[j])
  /\ RowOfHouse(P[j]) => j > 2 /\ P[2] = X("house", P[j].of)
  /\ h \in House \cup {NoHouse} => ~RowOfAccount(P[j])
  /\ P[j].what \in {"membership", "grant"}
       => j > 2 /\ P[j].of = <<u, h>> /\ P[2] = X("house", h)

LEMMA DeleteRanked ==
  ASSUME NEW u, NEW h, NEW c, Listed(c), NEW P, P = DeletePlan(u, h, c), NEW j \in 1 .. Len(P)
  PROVE  Ranked(P, u, h, j)
<1> USE DEF Ranked, Modes, RowOfHouse, RowOfAccount, OfCreator
<1>1. ASSUME NEW g, P[j] = CreatorLock(g) PROVE Ranked(P, u, h, j)
  BY <1>1, CreatorIs
<1>2. ASSUME j = 1, P[j] = X("user", u) PROVE Ranked(P, u, h, j)
  BY <1>2 DEF X, Lock, Rank
<1>3. CASE h = NoHouse
  <2>1. PICK n \in Nat : Alone(P, u, n) BY <1>3, DeleteAlone
  <2>2. P[1] = X("user", u) /\ (j = 1 \/ \E g \in House : P[j] = CreatorLock(g))
    BY <2>1, AloneLocks
  <2> QED BY <1>1, <1>2, <2>2
<1>4. CASE h # NoHouse
  <2>1. PICK n \in Nat : InHouse(P, u, h, n) BY <1>4, DeleteInHouse
  <2>2. /\ P[1] = X("user", u) /\ P[2] = X("house", h) /\ P[3] = X("membership", <<u, h>>)
        /\ P[4] = X("grant", <<u, h>>) /\ Len(P) = n + 6
    BY <2>1 DEF InHouse
  <2>3. ASSUME j = 2 PROVE Ranked(P, u, h, j) BY <2>2, <2>3 DEF X, Lock, Rank
  <2>4. ASSUME j = 3 PROVE Ranked(P, u, h, j) BY <2>2, <2>4 DEF X, Lock, Rank
  <2>5. ASSUME j = 4 PROVE Ranked(P, u, h, j) BY <2>2, <2>5 DEF X, Lock, Rank
  <2>6. ASSUME P[j] = X("diary", h), j > 2 PROVE Ranked(P, u, h, j)
    BY <1>4, <2>2, <2>6, NamesDistinct DEF X, Lock, Rank
  <2>7. ASSUME P[j] = CommitOrder, j = Len(P) PROVE Ranked(P, u, h, j)
    <3>1. ASSUME NEW i \in 1 .. j - 1 PROVE Rank(P[i]) < 8
      <4>1. ASSUME NEW g, P[i] = CreatorLock(g) PROVE Rank(P[i]) < 8 BY <4>1, CreatorIs
      <4>2. i \in 1 .. Len(P) BY <2>2, <2>7
      <4>3. \/ P[i] = X("user", u) \/ P[i] = X("house", h)
            \/ P[i] = X("membership", <<u, h>>) \/ P[i] = X("grant", <<u, h>>)
            \/ \E g \in House : P[i] = CreatorLock(g)
            \/ P[i] = X("diary", h)
        BY <2>1, <2>7, <4>2, InHouseLocks
      <4>4. ASSUME P[i] \in {X("user", u), X("house", h), X("membership", <<u, h>>),
                             X("grant", <<u, h>>), X("diary", h)}
            PROVE  Rank(P[i]) < 8
        <5>1. P[i].what \in {"user", "house", "membership", "grant", "diary"}
          BY <4>4 DEF X, Lock
        <5> QED BY <5>1 DEF Rank
      <4> QED BY <4>1, <4>3, <4>4
    <3>2. /\ P[j].what = "commit-order" /\ P[j].mode = "Update" /\ Rank(P[j]) = 8
      BY <2>7 DEF CommitOrder, X, Lock, Rank
    <3> QED BY <3>1, <3>2
  <2>8. \/ j = 1 \/ j = 2 \/ j = 3 \/ j = 4
        \/ \E g \in House : P[j] = CreatorLock(g)
        \/ j > 2 /\ P[j] = X("diary", h)
        \/ j = Len(P) /\ P[j] = CommitOrder
    BY <2>1, <2>2, InHouseLocks
  <2> QED BY <1>1, <1>2, <2>2, <2>3, <2>4, <2>5, <2>6, <2>7, <2>8
<1> QED BY <1>3, <1>4

LEMMA DeleteFirst ==
  ASSUME NEW u, NEW h, NEW c, Listed(c), NEW P, P = DeletePlan(u, h, c)
  PROVE  P[1] = X("user", u) /\ Len(P) \in Nat /\ 1 <= Len(P)
<1>1. CASE h = NoHouse
  <2>1. PICK n \in Nat : Alone(P, u, n) BY <1>1, DeleteAlone
  <2> QED BY <2>1 DEF Alone
<1>2. CASE h # NoHouse
  <2>1. PICK n \in Nat : InHouse(P, u, h, n) BY <1>2, DeleteInHouse
  <2> QED BY <2>1 DEF InHouse
<1> QED BY <1>1, <1>2

(* What can be read off the plans: an earlier lock has the lower rank, ...  *)
LEMMA PlanRanks ==
  ASSUME NEW k \in KeepsOrder, NEW u \in User, NEW v \in User, NEW c, Listed(c),
         NEW h \in House \cup {NoHouse}, h = NoHouse => k \in InAccount \cup {"create"},
         NEW j \in 1 .. Len(Plan(k, u, v, h, c)), NEW i \in 1 .. j - 1
  PROVE  \/ Rank(Plan(k, u, v, h, c)[i]) < Rank(Plan(k, u, v, h, c)[j])
         \/ Guarded(k, Plan(k, u, v, h, c)[j])
         \/ OfCreator(Plan(k, u, v, h, c)[j])
<1> USE DEF Plan, Rank, Guarded, RowOfHouse, RowOfAccount, OfCreator, Lock, X, S, CommitOrder, InAccount
<1>1. CASE k = "diary" BY <1>1 DEF DiaryPlan
<1>2. CASE k = "lot" BY <1>2 DEF LotPlan
<1>3. CASE k = "consume" BY <1>3 DEF ConsumePlan
<1>4. CASE k = "plan" BY <1>4 DEF PlanPlan
<1>5. CASE k = "migrate" BY <1>5 DEF MigratePlan, InAccount
<1>6. CASE k = "import" BY <1>6 DEF ImportPlan
<1>7. CASE k = "feed" BY <1>7 DEF FeedPlan
<1>8. CASE k = "create" BY <1>8 DEF CreatePlan
<1>9. CASE k = "zone" BY <1>9 DEF ZonePlan
<1>10. CASE k = "add" BY <1>10 DEF AddPlan
<1>11. CASE k = "member" BY <1>11 DEF MemberPlan
<1>12. CASE k = "delete"
  <2>1. PICK P : P = Plan(k, u, v, h, c) OBVIOUS
  <2>2. P = DeletePlan(u, h, c) BY <1>12, <2>1
  <2> HIDE DEF Plan, Rank, Guarded, RowOfHouse, RowOfAccount, OfCreator
  <2>3. Ranked(P, u, h, j) BY <2>1, <2>2, DeleteRanked
  <2> QED BY <2>1, <2>3 DEF Ranked, Guarded
<1>13. CASE k = "grant" BY <1>13 DEF GrantPlan
<1>14. CASE k = "context" BY <1>14 DEF ContextPlan
<1>15. CASE k = "candidate" BY <1>15 DEF CandidatePlan
<1>16. CASE k = "consent" BY <1>16 DEF ConsentPlan
<1>17. CASE k = "chat" BY <1>17 DEF ChatPlan
<1>18. CASE k = "settle" BY <1>18 DEF SettlePlan
<1> QED BY <1>1, <1>2, <1>3, <1>4, <1>5, <1>6, <1>7, <1>8, <1>9, <1>10, <1>11, <1>12, <1>13, <1>14, <1>15, <1>16, <1>17, <1>18 DEF KeepsOrder, AllKinds

(* ... up to the look at the membership, too, ...                          *)
LEMMA LookRanks ==
  ASSUME NEW k \in KeepsOrder, NEW u \in User, NEW v \in User, NEW c, Listed(c), NEW h,
         NEW j \in 1 .. LooksAfter(k), NEW i \in 1 .. j - 1
  PROVE  Rank(Plan(k, u, v, h, c)[i]) < Rank(Plan(k, u, v, h, c)[j])
<1> USE DEF Plan, LooksAfter, Rank, Lock, X, S, CommitOrder
<1>1. CASE k = "diary" BY <1>1 DEF DiaryPlan, AllKinds
<1>2. CASE k = "lot" BY <1>2 DEF LotPlan, AllKinds
<1>3. CASE k = "consume" BY <1>3 DEF ConsumePlan, AllKinds
<1>4. CASE k = "plan" BY <1>4 DEF PlanPlan, AllKinds
<1>5. CASE k = "migrate" BY <1>5 DEF MigratePlan, InAccount, AllKinds
<1>6. CASE k = "import" BY <1>6 DEF ImportPlan, AllKinds
<1>7. CASE k = "feed" BY <1>7 DEF FeedPlan, AllKinds
<1>8. CASE k = "create" BY <1>8 DEF CreatePlan, AllKinds
<1>9. CASE k = "zone" BY <1>9 DEF ZonePlan, AllKinds
<1>10. CASE k = "add" BY <1>10 DEF AddPlan, AllKinds
<1>11. CASE k = "member" BY <1>11 DEF MemberPlan, AllKinds
<1>12. CASE k = "delete" BY <1>12 DEF AllKinds
<1>13. CASE k = "grant" BY <1>13 DEF GrantPlan, AllKinds
<1>14. CASE k = "context" BY <1>14 DEF ContextPlan, AllKinds
<1>15. CASE k = "candidate" BY <1>15 DEF CandidatePlan, AllKinds
<1>16. CASE k = "consent" BY <1>16 DEF ConsentPlan, AllKinds
<1>17. CASE k = "chat" BY <1>17 DEF ChatPlan, AllKinds
<1>18. CASE k = "settle" BY <1>18 DEF SettlePlan, AllKinds
<1> QED BY <1>1, <1>2, <1>3, <1>4, <1>5, <1>6, <1>7, <1>8, <1>9, <1>10, <1>11, <1>12, <1>13, <1>14, <1>15, <1>16, <1>17, <1>18 DEF KeepsOrder, AllKinds

(* ... where the locks do not depend on what is seen, ...                  *)
LEMMA LookKeeps ==
  ASSUME NEW k \in KeepsOrder, NEW u \in User, NEW v \in User, NEW h, NEW g,
         NEW c, Listed(c), NEW d, Listed(d),
         NEW i \in 1 .. LooksAfter(k)
  PROVE  /\ Plan(k, u, v, h, c)[i] = Plan(k, u, v, g, d)[i]
         /\ ~RowOfHouse(Plan(k, u, v, h, c)[i]) /\ ~RowOfAccount(Plan(k, u, v, h, c)[i])
         /\ i <= Len(Plan(k, u, v, h, c))
<1> USE DEF Plan, LooksAfter, Lock, X, S, CommitOrder, RowOfHouse, RowOfAccount
<1>1. CASE k = "diary" BY <1>1 DEF DiaryPlan, AllKinds
<1>2. CASE k = "lot" BY <1>2 DEF LotPlan, AllKinds
<1>3. CASE k = "consume" BY <1>3 DEF ConsumePlan, AllKinds
<1>4. CASE k = "plan" BY <1>4 DEF PlanPlan, AllKinds
<1>5. CASE k = "migrate" BY <1>5 DEF MigratePlan, InAccount, AllKinds
<1>6. CASE k = "import" BY <1>6 DEF ImportPlan, AllKinds
<1>7. CASE k = "feed" BY <1>7 DEF FeedPlan, AllKinds
<1>8. CASE k = "create" BY <1>8 DEF CreatePlan, AllKinds
<1>9. CASE k = "zone" BY <1>9 DEF ZonePlan, AllKinds
<1>10. CASE k = "add" BY <1>10 DEF AddPlan, AllKinds
<1>11. CASE k = "member" BY <1>11 DEF MemberPlan, AllKinds
<1>12. CASE k = "delete"
  <2>1. i = 1 BY <1>12 DEF AllKinds
  <2>2. PICK P : P = Plan(k, u, v, h, c) OBVIOUS
  <2>3. PICK Q : Q = Plan(k, u, v, g, d) OBVIOUS
  <2>4. P = DeletePlan(u, h, c) /\ Q = DeletePlan(u, g, d) BY <1>12, <2>2, <2>3
  <2> HIDE DEF Plan
  <2>5. P[1] = X("user", u) /\ Q[1] = X("user", u) /\ 1 <= Len(P) BY <2>4, DeleteFirst
  <2> QED BY <2>1, <2>2, <2>3, <2>5
<1>13. CASE k = "grant" BY <1>13 DEF GrantPlan, AllKinds
<1>14. CASE k = "context" BY <1>14 DEF ContextPlan, AllKinds
<1>15. CASE k = "candidate" BY <1>15 DEF CandidatePlan, AllKinds
<1>16. CASE k = "consent" BY <1>16 DEF ConsentPlan, AllKinds
<1>17. CASE k = "chat" BY <1>17 DEF ChatPlan, AllKinds
<1>18. CASE k = "settle" BY <1>18 DEF SettlePlan, AllKinds
<1> QED BY <1>1, <1>2, <1>3, <1>4, <1>5, <1>6, <1>7, <1>8, <1>9, <1>10, <1>11, <1>12, <1>13, <1>14, <1>15, <1>16, <1>17, <1>18 DEF KeepsOrder, AllKinds

(* ... a row of a house is locked after the house, ...                     *)
LEMMA HouseBeforeRow ==
  ASSUME NEW k \in KeepsOrder, NEW u \in User, NEW v \in User, NEW c, Listed(c),
         NEW h \in House \cup {NoHouse}, NEW j \in 1 .. Len(Plan(k, u, v, h, c)),
         RowOfHouse(Plan(k, u, v, h, c)[j])
  PROVE  \E i \in 1 .. j - 1 : Plan(k, u, v, h, c)[i] = X("house", Plan(k, u, v, h, c)[j].of)
<1> USE NamesDistinct DEF Plan, RowOfHouse, Lock, X, S, CommitOrder
<1>1. CASE k = "diary" BY <1>1 DEF DiaryPlan
<1>2. CASE k = "lot" BY <1>2 DEF LotPlan
<1>3. CASE k = "consume" BY <1>3 DEF ConsumePlan
<1>4. CASE k = "plan" BY <1>4 DEF PlanPlan
<1>5. CASE k = "migrate" BY <1>5 DEF MigratePlan, InAccount
<1>6. CASE k = "import" BY <1>6 DEF ImportPlan
<1>7. CASE k = "feed" BY <1>7 DEF FeedPlan
<1>8. CASE k = "create" BY <1>8 DEF CreatePlan
<1>9. CASE k = "zone" BY <1>9 DEF ZonePlan
<1>10. CASE k = "add" BY <1>10 DEF AddPlan
<1>11. CASE k = "member" BY <1>11 DEF MemberPlan
<1>12. CASE k = "delete"
  <2>1. PICK P : P = Plan(k, u, v, h, c) OBVIOUS
  <2>2. P = DeletePlan(u, h, c) BY <1>12, <2>1
  <2> HIDE DEF Plan, RowOfHouse, X, Lock
  <2>3. Ranked(P, u, h, j) BY <2>1, <2>2, DeleteRanked
  <2> QED BY <2>1, <2>3 DEF Ranked
<1>13. CASE k = "grant" BY <1>13 DEF GrantPlan
<1>14. CASE k = "context" BY <1>14 DEF ContextPlan
<1>15. CASE k = "candidate" BY <1>15 DEF CandidatePlan
<1>16. CASE k = "consent" BY <1>16 DEF ConsentPlan
<1>17. CASE k = "chat" BY <1>17 DEF ChatPlan
<1>18. CASE k = "settle" BY <1>18 DEF SettlePlan
<1> QED BY <1>1, <1>2, <1>3, <1>4, <1>5, <1>6, <1>7, <1>8, <1>9, <1>10, <1>11, <1>12, <1>13, <1>14, <1>15, <1>16, <1>17, <1>18 DEF KeepsOrder, AllKinds

(* ... a row of an account by whoever works in it, or moves it, ...        *)
LEMMA WhoLocksAccountRow ==
  ASSUME NEW k \in KeepsOrder, NEW u \in User, NEW v \in User, NEW c, Listed(c),
         NEW h \in House \cup {NoHouse}, NEW j \in 1 .. Len(Plan(k, u, v, h, c)),
         RowOfAccount(Plan(k, u, v, h, c)[j])
  PROVE  /\ Plan(k, u, v, h, c)[j].of = u
         /\ \/ k \in Account /\ h = NoHouse
            \/ k = "migrate" /\ j > 3
<1> USE NamesDistinct DEF Plan, RowOfAccount, Account, Lock, X, S, CommitOrder
<1>1. CASE k = "diary" BY <1>1 DEF DiaryPlan
<1>2. CASE k = "lot" BY <1>2 DEF LotPlan
<1>3. CASE k = "consume" BY <1>3 DEF ConsumePlan
<1>4. CASE k = "plan" BY <1>4 DEF PlanPlan
<1>5. CASE k = "migrate" BY <1>5 DEF MigratePlan, InAccount
<1>6. CASE k = "import" BY <1>6 DEF ImportPlan
<1>7. CASE k = "feed" BY <1>7 DEF FeedPlan
<1>8. CASE k = "create" BY <1>8 DEF CreatePlan
<1>9. CASE k = "zone" BY <1>9 DEF ZonePlan
<1>10. CASE k = "add" BY <1>10 DEF AddPlan
<1>11. CASE k = "member" BY <1>11 DEF MemberPlan
<1>12. CASE k = "delete"
  <2>1. PICK P : P = Plan(k, u, v, h, c) OBVIOUS
  <2>2. P = DeletePlan(u, h, c) BY <1>12, <2>1
  <2> HIDE DEF Plan, RowOfAccount
  <2>3. Ranked(P, u, h, j) BY <2>1, <2>2, DeleteRanked
  <2> QED BY <2>1, <2>3 DEF Ranked
<1>13. CASE k = "grant" BY <1>13 DEF GrantPlan
<1>14. CASE k = "context" BY <1>14 DEF ContextPlan
<1>15. CASE k = "candidate" BY <1>15 DEF CandidatePlan
<1>16. CASE k = "consent" BY <1>16 DEF ConsentPlan
<1>17. CASE k = "chat" BY <1>17 DEF ChatPlan
<1>18. CASE k = "settle" BY <1>18 DEF SettlePlan
<1> QED BY <1>1, <1>2, <1>3, <1>4, <1>5, <1>6, <1>7, <1>8, <1>9, <1>10, <1>11, <1>12, <1>13, <1>14, <1>15, <1>16, <1>17, <1>18 DEF KeepsOrder, AllKinds

(* ... only the deletion of an account locks houses for their creators, ...*)
LEMMA WhoLocksCreated ==
  ASSUME NEW k \in KeepsOrder, NEW u \in User, NEW v \in User, NEW c, Listed(c), NEW h,
         NEW j \in 1 .. Len(Plan(k, u, v, h, c)), OfCreator(Plan(k, u, v, h, c)[j])
  PROVE  k = "delete"
<1> USE DEF Plan, OfCreator, Lock, X, S, CommitOrder
<1>1. k # "diary" BY DEF DiaryPlan
<1>2. k # "lot" BY DEF LotPlan
<1>3. k # "consume" BY DEF ConsumePlan
<1>4. k # "plan" BY DEF PlanPlan
<1>5. k # "migrate" BY DEF MigratePlan
<1>6. k # "import" BY DEF ImportPlan
<1>7. k # "feed" BY DEF FeedPlan
<1>8. k # "create" BY DEF CreatePlan
<1>9. k # "zone" BY DEF ZonePlan
<1>10. k # "add" BY DEF AddPlan
<1>11. k # "member" BY DEF MemberPlan
<1>13. k # "grant" BY DEF GrantPlan
<1>14. k # "context" BY DEF ContextPlan
<1>15. k # "candidate" BY DEF CandidatePlan
<1>16. k # "consent" BY DEF ConsentPlan
<1>17. k # "chat" BY DEF ChatPlan
<1>18. k # "settle" BY DEF SettlePlan
<1> QED BY <1>1, <1>2, <1>3, <1>4, <1>5, <1>6, <1>7, <1>8, <1>9, <1>10, <1>11, <1>13, <1>14, <1>15, <1>16, <1>17, <1>18 DEF KeepsOrder, AllKinds

LEMMA CreatedLocks ==
  ASSUME NEW u, NEW h, NEW c, Listed(c), NEW P, P = DeletePlan(u, h, c),
         NEW j \in 1 .. Len(P), OfCreator(P[j])
  PROVE  \E g \in House : P[j] = CreatorLock(g)
<1>1. CASE h = NoHouse
  <2>1. PICK n \in Nat : Alone(P, u, n) BY <1>1, DeleteAlone
  <2>2. j \in 2 .. n + 1 BY <2>1 DEF Alone, OfCreator, X, Lock
  <2> QED BY <2>1, <2>2 DEF Alone
<1>2. CASE h # NoHouse
  <2>1. PICK n \in Nat : InHouse(P, u, h, n) BY <1>2, DeleteInHouse
  <2>2. j \in 5 .. n + 4 BY <2>1 DEF InHouse, OfCreator, X, Lock, CommitOrder
  <2> QED BY <2>1, <2>2 DEF InHouse
<1> QED BY <1>1, <1>2

(* ... and a membership or a grant is locked after its house.              *)
LEMMA HouseBeforeMembership ==
  ASSUME NEW k \in KeepsOrder, NEW u \in User, NEW v \in User, NEW c, Listed(c), NEW h,
         NEW j \in 1 .. Len(Plan(k, u, v, h, c)), NEW w, NEW g \in House,
         Plan(k, u, v, h, c)[j].what \in {"membership", "grant"},
         Plan(k, u, v, h, c)[j].of = <<w, g>>
  PROVE  \E i \in 1 .. j - 1 : Plan(k, u, v, h, c)[i] \in {X("house", g), S("house", g)}
<1> USE NamesDistinct DEF Plan, Lock, X, S, CommitOrder
<1>1. CASE k = "diary" BY <1>1 DEF DiaryPlan
<1>2. CASE k = "lot" BY <1>2 DEF LotPlan
<1>3. CASE k = "consume" BY <1>3 DEF ConsumePlan
<1>4. CASE k = "plan" BY <1>4 DEF PlanPlan
<1>5. CASE k = "migrate" BY <1>5 DEF MigratePlan
<1>6. CASE k = "import" BY <1>6 DEF ImportPlan
<1>7. CASE k = "feed" BY <1>7 DEF FeedPlan
<1>8. CASE k = "create" BY <1>8 DEF CreatePlan
<1>9. CASE k = "zone" BY <1>9 DEF ZonePlan
<1>10. CASE k = "add" BY <1>10 DEF AddPlan
<1>11. CASE k = "member" BY <1>11 DEF MemberPlan
<1>12. CASE k = "delete"
  <2>1. PICK P : P = Plan(k, u, v, h, c) OBVIOUS
  <2>2. P = DeletePlan(u, h, c) BY <1>12, <2>1
  <2> HIDE DEF Plan, X, S, Lock
  <2>3. Ranked(P, u, h, j) BY <2>1, <2>2, DeleteRanked
  <2>4. j > 2 /\ <<u, h>> = <<w, g>> /\ P[2] = X("house", h) BY <2>1, <2>3 DEF Ranked
  <2> QED BY <2>1, <2>4
<1>13. CASE k = "grant" BY <1>13 DEF GrantPlan
<1>14. CASE k = "context" BY <1>14 DEF ContextPlan
<1>15. CASE k = "candidate" BY <1>15 DEF CandidatePlan
<1>16. CASE k = "consent" BY <1>16 DEF ConsentPlan
<1>17. CASE k = "chat" BY <1>17 DEF ChatPlan
<1>18. CASE k = "settle" BY <1>18 DEF SettlePlan
<1> QED BY <1>1, <1>2, <1>3, <1>4, <1>5, <1>6, <1>7, <1>8, <1>9, <1>10, <1>11, <1>12, <1>13, <1>14, <1>15, <1>16, <1>17, <1>18 DEF KeepsOrder, AllKinds
-----------------------------------------------------------------------------
(* The fields of an open transaction.                                      *)
LEMMA OpenTyped ==
  ASSUME TypeOK, Ordered, NEW t \in Tx, Open(t)
  PROVE  /\ tx[t] \in TxType /\ tx[t].kind \in KeepsOrder
         /\ tx[t].user \in User /\ tx[t].target \in User /\ Listed(tx[t].created)
         /\ tx[t].house \in House \cup {NoHouse, Unread} /\ tx[t].held \in Nat
BY KindsKnown DEF Listed, TypeOK, TxType, Open, Ordered, KeepsOrder

(* Whether a transaction is open, what it has locked and what it waits for *)
(* only depends on the transaction.                                        *)
LEMMA SameTx ==
  ASSUME NEW t \in Tx, tx'[t] = tx[t]
  PROVE  /\ Open(t)' = Open(t) /\ Held(t)' = Held(t) /\ Locks(t)' = Locks(t)
         /\ ToTake(t)' = ToTake(t) /\ Waits(t)' = Waits(t)
BY DEF Open, Held, Locks, ToTake, Waits

(* A plan is a sequence, at least as long as what is taken before the look.*)
LEMMA PlanLength ==
  ASSUME NEW k \in KeepsOrder, NEW u \in User, NEW v \in User, NEW c, Listed(c), NEW h
  PROVE  /\ Len(Plan(k, u, v, h, c)) \in Nat /\ LooksAfter(k) \in 0 .. 2
         /\ LooksAfter(k) <= Len(Plan(k, u, v, h, c))
<1> USE DEF Plan, LooksAfter, Lock, X, S, CommitOrder
<1>1. CASE k = "diary" BY <1>1 DEF DiaryPlan, AllKinds
<1>2. CASE k = "lot" BY <1>2 DEF LotPlan, AllKinds
<1>3. CASE k = "consume" BY <1>3 DEF ConsumePlan, AllKinds
<1>4. CASE k = "plan" BY <1>4 DEF PlanPlan, AllKinds
<1>5. CASE k = "migrate" BY <1>5 DEF MigratePlan, InAccount, AllKinds
<1>6. CASE k = "import" BY <1>6 DEF ImportPlan, AllKinds
<1>7. CASE k = "feed" BY <1>7 DEF FeedPlan, AllKinds
<1>8. CASE k = "create" BY <1>8 DEF CreatePlan, AllKinds
<1>9. CASE k = "zone" BY <1>9 DEF ZonePlan, AllKinds
<1>10. CASE k = "add" BY <1>10 DEF AddPlan, AllKinds
<1>11. CASE k = "member" BY <1>11 DEF MemberPlan, AllKinds
<1>12. CASE k = "delete"
  <2>1. PICK P : P = Plan(k, u, v, h, c) OBVIOUS
  <2>2. P = DeletePlan(u, h, c) BY <1>12, <2>1
  <2>3. LooksAfter(k) = 1 BY <1>12 DEF AllKinds
  <2> HIDE DEF Plan, LooksAfter
  <2>4. Len(P) \in Nat /\ 1 <= Len(P) BY <2>2, DeleteFirst
  <2> QED BY <2>1, <2>3, <2>4
<1>13. CASE k = "grant" BY <1>13 DEF GrantPlan, AllKinds
<1>14. CASE k = "context" BY <1>14 DEF ContextPlan, AllKinds
<1>15. CASE k = "candidate" BY <1>15 DEF CandidatePlan, AllKinds
<1>16. CASE k = "consent" BY <1>16 DEF ConsentPlan, AllKinds
<1>17. CASE k = "chat" BY <1>17 DEF ChatPlan, AllKinds
<1>18. CASE k = "settle" BY <1>18 DEF SettlePlan, AllKinds
<1> QED BY <1>1, <1>2, <1>3, <1>4, <1>5, <1>6, <1>7, <1>8, <1>9, <1>10, <1>11, <1>12, <1>13, <1>14, <1>15, <1>16, <1>17, <1>18 DEF KeepsOrder, AllKinds

(* The user is the first lock of whoever works in an account.              *)
LEMMA AccountLocksUser ==
  ASSUME NEW k \in Account, NEW u \in User, NEW v \in User, NEW c, NEW h
  PROVE  /\ Plan(k, u, v, h, c)[1] = IF k = "create" THEN X("user", u) ELSE S("user", u)
         /\ LooksAfter(k) = 1
BY DEF Account, Plan, LooksAfter, DiaryPlan, LotPlan, ConsumePlan, PlanPlan, CreatePlan,
       AllKinds, X, S

(* One step takes one more lock, which nobody refuses, or none.            *)
LEMMA HeldGrows ==
  ASSUME TypeOK, Ordered, Shape, NEW t \in Tx, Acquire(t)
  PROVE  /\ Open(t) /\ Open(t)' /\ Held(t)' = Held(t) \cup {Wanted(t)}
         /\ tx[t].held + 1 \in 1 .. Len(Locks(t))
         /\ \A s \in Tx \ {t} : tx'[s] = tx[s]
<1>1. Open(t) /\ tx[t].held < ToTake(t) /\ tx' = [tx EXCEPT ![t].held = tx[t].held + 1]
  BY DEF Acquire, Waits
<1>2. /\ tx[t] \in TxType /\ tx[t].kind \in KeepsOrder
      /\ tx[t].user \in User /\ tx[t].target \in User /\ Listed(tx[t].created) /\ tx[t].held \in Nat
  BY <1>1, OpenTyped
<1>3. /\ tx'[t].held = tx[t].held + 1 /\ tx'[t].kind = tx[t].kind
      /\ tx'[t].user = tx[t].user /\ tx'[t].target = tx[t].target
      /\ tx'[t].house = tx[t].house /\ tx'[t].created = tx[t].created
  BY <1>1, <1>2 DEF TypeOK, TxType
<1>4. Locks(t)' = Locks(t) BY <1>3 DEF Locks
<1>5. Held(t)' = Held(t) \cup {Wanted(t)}
  <2>1. Held(t)' = {Locks(t)[i] : i \in 1 .. tx[t].held + 1} BY <1>3, <1>4 DEF Held
  <2>2. 1 .. tx[t].held + 1 = (1 .. tx[t].held) \cup {tx[t].held + 1} BY <1>2
  <2> HIDE DEF Locks
  <2> QED BY <2>1, <2>2, Zenon DEF Held, Wanted
<1>6. Len(Locks(t)) \in Nat /\ ToTake(t) <= Len(Locks(t)) /\ ToTake(t) \in Nat
  <2>1. /\ Len(Locks(t)) \in Nat /\ LooksAfter(tx[t].kind) \in 0 .. 2
        /\ LooksAfter(tx[t].kind) <= Len(Locks(t))
    BY <1>2, PlanLength DEF Locks
  <2> QED BY <2>1 DEF ToTake
<1>7. Open(t)' BY <1>3, <1>2 DEF Open, Done, KeepsOrder, AllKinds
<1>8. \A s \in Tx \ {t} : tx'[s] = tx[s] BY <1>1 DEF TypeOK
<1> QED BY <1>1, <1>2, <1>5, <1>6, <1>7, <1>8

-----------------------------------------------------------------------------
(* The steps.                                                              *)
LEMMA CreatedSeq ==
  ASSUME NEW r, NEW c \in LosesCreator(r)
  PROVE  c \in Seq(House)
<1> DEFINE G == {g \in House \ {home[r.user]} : creator[g] = r.user}
<1>1. IsFiniteSet(G) BY HouseFinite, FS_Subset
<1>2. Cardinality(G) \in Nat BY <1>1, FS_CardinalityType
<1>3. c = <<>> \/ c \in [1 .. Cardinality(G) -> G] BY DEF LosesCreator
<1>4. c \in [1 .. Cardinality(G) -> G] => c \in Seq(House)
  <2>1. G \subseteq House OBVIOUS
  <2> HIDE DEF G
  <2> QED BY <1>2, <2>1
<1>5. <<>> \in Seq(House) OBVIOUS
<1> HIDE DEF G
<1> QED BY <1>3, <1>4, <1>5

LEMMA TypeStep ==
  ASSUME TypeOK, Ordered, [Next]_vars
  PROVE  TypeOK'
<1> USE DEF TypeOK
<1>1. CASE UNCHANGED vars BY <1>1 DEF vars
<1>2. ASSUME NEW t \in Tx, NEW k \in Kinds, NEW u \in User, NEW v \in User, Begin(t, k, u, v)
      PROVE  TypeOK'
  BY <1>2 DEF Begin, TxType
<1>3. ASSUME NEW t \in Tx, Open(t), Abort(t) PROVE TypeOK'
  BY <1>3 DEF Abort
<1>4. ASSUME NEW t \in Tx, Look(t) PROVE TypeOK'
  <2>1. Open(t) BY <1>4 DEF Look, AtLook
  <2>2. PICK h \in WorksOn(tx[t]), c \in LosesCreator(tx[t]) :
          tx' = [tx EXCEPT ![t].house = h, ![t].created = c]
    BY <1>4 DEF Look
  <2>3. tx[t] \in TxType /\ tx[t].kind \in KeepsOrder BY <2>1, OpenTyped
  <2>5. c \in Seq(House) BY CreatedSeq
  <2>4. h \in House \cup {NoHouse} BY <2>3 DEF WorksOn, TxType, KeepsOrder, AllKinds
  <2> QED BY <1>4, <2>2, <2>3, <2>4, <2>5 DEF Look, TxType
<1>5. ASSUME NEW t \in Tx, Acquire(t) PROVE TypeOK'
  <2>1. Open(t) BY <1>5 DEF Acquire, Waits
  <2> QED BY <1>5, <2>1, OpenTyped DEF Acquire, TxType
<1>6. ASSUME NEW t \in Tx, Commit(t) PROVE TypeOK'
  <2>1. tx' = [tx EXCEPT ![t] = Done] BY <1>6 DEF Commit
  <2>2. \/ home' = home
        \/ \E h \in House \cup {NoHouse} : home' = [home EXCEPT ![tx[t].target] = h]
    BY <1>6 DEF Commit
  <2>3. creator' \in [House -> User \cup {NoHouse}]
    <3>1. tx[t].user \in User BY <1>6, OpenTyped DEF Commit
    <3>2. ASSUME NEW c \in [House -> User \cup {NoHouse}]
          PROVE  OfHouses(c) \in [House -> User \cup {NoHouse}]
      BY DEF OfHouses
    <3>3. [h \in House |-> IF creator[h] = tx[t].user THEN NoHouse ELSE creator[h]]
            \in [House -> User \cup {NoHouse}]
      OBVIOUS
    <3>4. \A h \in House : [creator EXCEPT ![h] = tx[t].user] \in [House -> User \cup {NoHouse}]
      BY <3>1
    <3> HIDE DEF OfHouses
    <3> QED BY <1>6, <3>2, <3>3, <3>4 DEF Commit
  <2> QED BY <2>1, <2>2, <2>3
<1> QED
  BY <1>1, <1>2, <1>3, <1>4, <1>5, <1>6 DEF Next, LookRefused, NoLongerMember, AtLook, Waits

(* A step of one transaction leaves the others as they are.                *)
OthersStay(t) == \A s \in Tx \ {t} : tx'[s] = tx[s]

(* What a step does: one transaction opens or ends, sees its house, or     *)
(* takes a lock.                                                           *)
LEMMA Steps ==
  ASSUME TypeOK, Ordered, [Next]_vars
  PROVE  \/ UNCHANGED vars
         \/ \E t \in Tx :
              /\ OthersStay(t)
              /\ \/ \E k \in Kinds, u, v \in User : Begin(t, k, u, v)
                 \/ Open(t) /\ ~Open(t)' /\ home' = home
                 \/ Look(t)
                 \/ Acquire(t)
                 \/ Commit(t) /\ ~Open(t)'
<1>1. ASSUME NEW t \in Tx, \/ \E k \in Kinds, u, v \in User : Begin(t, k, u, v)
                          \/ Look(t) \/ Acquire(t)
      PROVE OthersStay(t)
  BY <1>1 DEF OthersStay, TypeOK, Begin, Look, Acquire
<1>2. ASSUME NEW t \in Tx, LookRefused(t) \/ NoLongerMember(t)
      PROVE OthersStay(t) /\ Open(t) /\ ~Open(t)' /\ home' = home
  BY <1>2 DEF OthersStay, TypeOK, LookRefused, NoLongerMember, Abort, Open, AtLook, Waits
<1>3. ASSUME NEW t \in Tx, Commit(t) PROVE OthersStay(t) /\ ~Open(t)'
  BY <1>3 DEF OthersStay, TypeOK, Commit, Open
<1> QED BY <1>1, <1>2, <1>3 DEF Next

(* A look keeps what is locked.                                            *)
LEMMA LookHolds ==
  ASSUME TypeOK, Ordered, Shape, NEW t \in Tx, Look(t)
  PROVE  /\ Open(t) /\ Open(t)' /\ Held(t)' = Held(t)
         /\ tx[t].house = Unread /\ tx[t].held = LooksAfter(tx[t].kind)
         /\ tx'[t].kind = tx[t].kind /\ tx'[t].user = tx[t].user
         /\ tx'[t].target = tx[t].target /\ tx'[t].held = tx[t].held
         /\ Listed(tx'[t].created)
         /\ tx'[t].house \in WorksOn(tx[t]) /\ tx'[t].house \in House \cup {NoHouse}
<1>1. Open(t) /\ tx[t].house = Unread /\ ~Waits(t) BY DEF Look, AtLook
<1>2. /\ tx[t] \in TxType /\ tx[t].kind \in KeepsOrder /\ tx[t].held \in Nat
      /\ tx[t].user \in User /\ tx[t].target \in User /\ Listed(tx[t].created)
  BY <1>1, OpenTyped
<1>3. LooksAfter(tx[t].kind) \in 0 .. 2 BY <1>2, PlanLength
<1>4. tx[t].held = LooksAfter(tx[t].kind) BY <1>1, <1>2, <1>3 DEF Waits, Shape, ToTake
<1>5. PICK h \in WorksOn(tx[t]), c \in LosesCreator(tx[t]) :
        tx' = [tx EXCEPT ![t].house = h, ![t].created = c]
  BY DEF Look
<1>6. h \in House \cup {NoHouse} BY <1>2 DEF WorksOn, TypeOK, KeepsOrder, AllKinds
<1>7. tx'[t] = [tx[t] EXCEPT !.house = h, !.created = c] BY <1>5 DEF TypeOK
<1>8. Listed(c) BY <1>5, CreatedSeq DEF Listed
<1>9. /\ tx'[t].kind = tx[t].kind /\ tx'[t].user = tx[t].user
      /\ tx'[t].target = tx[t].target /\ tx'[t].held = tx[t].held /\ tx'[t].house = h
      /\ tx'[t].created = c
  BY <1>2, <1>7 DEF TxType
<1>10. ASSUME NEW i \in 1 .. tx[t].held PROVE Locks(t)'[i] = Locks(t)[i]
  <2>1. Plan(tx[t].kind, tx[t].user, tx[t].target, tx[t].house, tx[t].created)[i]
          = Plan(tx[t].kind, tx[t].user, tx[t].target, h, c)[i]
    <3>1. i \in 1 .. LooksAfter(tx[t].kind) BY <1>4
    <3> QED BY <1>2, <1>8, <3>1, LookKeeps
  <2> QED BY <1>9, <2>1 DEF Locks
<1>11. Held(t)' = Held(t) BY <1>9, <1>10 DEF Held
<1>12. Open(t)' BY <1>2, <1>9 DEF Open, Done, KeepsOrder, AllKinds
<1> QED BY <1>1, <1>4, <1>5, <1>6, <1>8, <1>9, <1>11, <1>12

LEMMA ShapeStep ==
  ASSUME TypeOK, Ordered, Shape, [Next]_vars
  PROVE  Shape'
<1> DEFINE Fits(t) ==
      /\ tx[t].held <= ToTake(t)
      /\ tx[t].house # Unread => tx[t].held >= LooksAfter(tx[t].kind)
      /\ tx[t].house = NoHouse => tx[t].kind \in InAccount \cup {"create"}
      /\ tx[t].kind = "create" => tx[t].house \in {NoHouse, Unread}
      /\ tx[t].kind \notin {"add", "member"} => tx[t].target = tx[t].user
<1>1. Shape <=> \A t \in Tx : Open(t) => Fits(t) BY DEF Shape
<1>2. Shape' <=> \A t \in Tx : Open(t)' => Fits(t)' BY DEF Shape
<1>3. ASSUME NEW s \in Tx, tx'[s] = tx[s] PROVE Open(s)' => Fits(s)'
  BY <1>3, <1>1, SameTx
<1>4. CASE UNCHANGED vars BY <1>2, <1>3, <1>4 DEF vars
<1>5. ASSUME NEW t \in Tx, OthersStay(t),
             \E k \in Kinds, u, v \in User : Begin(t, k, u, v)
      PROVE  Fits(t)'
  <2>1. PICK k \in Kinds, u \in User, v \in User : Begin(t, k, u, v) BY <1>5
  <2>2. tx'[t] = [kind |-> k, user |-> u, target |-> v, house |-> Unread,
                  created |-> <<>>, held |-> 0]
    BY <2>1 DEF Begin, TypeOK
  <2>3. LooksAfter(k) \in Nat
    <3>1. Listed(<<>>) BY DEF Listed
    <3>2. k \in KeepsOrder BY KindsKnown DEF Ordered, KeepsOrder
    <3> QED BY <3>1, <3>2, PlanLength
  <2> QED BY <2>1, <2>2, <2>3, NamesDistinct DEF ToTake, Begin
<1>6. ASSUME NEW t \in Tx, Look(t) PROVE Fits(t)'
  <2>1. /\ tx[t].held = LooksAfter(tx[t].kind) /\ Open(t)
        /\ tx'[t].kind = tx[t].kind /\ tx'[t].user = tx[t].user
        /\ tx'[t].target = tx[t].target /\ tx'[t].held = tx[t].held
        /\ Listed(tx'[t].created)
        /\ tx'[t].house \in WorksOn(tx[t]) /\ tx'[t].house \in House \cup {NoHouse}
    BY <1>6, LookHolds
  <2>2. /\ tx[t].kind \in KeepsOrder /\ tx[t].user \in User /\ tx[t].target \in User /\ Listed(tx[t].created)
        /\ tx[t].held \in Nat
    BY <2>1, OpenTyped
  <2>3. LooksAfter(tx[t].kind) <= Len(Locks(t)') BY <2>1, <2>2, PlanLength DEF Locks
  <2>4. tx'[t].house # Unread BY <2>1, NamesDistinct
  <2>5. tx'[t].held <= ToTake(t)' BY <2>1, <2>3, <2>4 DEF ToTake
  <2>6. tx'[t].house = NoHouse => tx[t].kind \in InAccount \cup {"create"}
    BY <2>1, <2>2, NamesDistinct DEF WorksOn, KeepsOrder, AllKinds
  <2>7. tx[t].kind = "create" => tx'[t].house = NoHouse
    <3>1. tx[t].kind = "create" => WorksOn(tx[t]) \subseteq {NoHouse}
      BY DEF WorksOn, InAccount
    <3> QED BY <3>1, <2>1
  <2>8. tx[t].kind \notin {"add", "member"} => tx[t].target = tx[t].user
    BY <2>1 DEF Shape
  <2> QED BY <2>1, <2>2, <2>5, <2>6, <2>7, <2>8
<1>7. ASSUME NEW t \in Tx, Acquire(t) PROVE Fits(t)'
  <2>1. /\ tx[t] \in TxType /\ tx[t].held \in Nat /\ tx[t].held < ToTake(t) /\ Open(t)
        /\ tx[t].kind \in KeepsOrder /\ tx[t].user \in User /\ tx[t].target \in User /\ Listed(tx[t].created)
    BY <1>7, OpenTyped DEF Acquire, Waits
  <2>2. tx'[t] = [tx[t] EXCEPT !.held = tx[t].held + 1] BY <1>7 DEF Acquire, TypeOK
  <2>3. /\ tx'[t].kind = tx[t].kind /\ tx'[t].user = tx[t].user
        /\ tx'[t].target = tx[t].target /\ tx'[t].house = tx[t].house
        /\ tx'[t].created = tx[t].created /\ tx'[t].held = tx[t].held + 1
    BY <2>1, <2>2 DEF TxType
  <2>4. ToTake(t)' = ToTake(t) /\ ToTake(t) \in Nat
    <3>1. Locks(t)' = Locks(t) BY <2>3 DEF Locks
    <3>2. Len(Locks(t)) \in Nat /\ LooksAfter(tx[t].kind) \in 0 .. 2
      BY <2>1, PlanLength DEF Locks
    <3> QED BY <3>1, <3>2, <2>3 DEF ToTake
  <2>5. LooksAfter(tx[t].kind) \in 0 .. 2 BY <2>1, PlanLength
  <2> QED BY <2>1, <2>3, <2>4, <2>5, <1>1
<1> QED
  <2>1. ASSUME NEW t \in Tx, OthersStay(t), Open(t)' => Fits(t)' PROVE Shape'
    BY <2>1, <1>2, <1>3 DEF OthersStay
  <2> QED BY <2>1, <1>4, <1>5, <1>6, <1>7, Steps

LEMMA RefusesEither ==
  ASSUME NEW l, NEW m, l.mode \in DOMAIN Modes, m.mode \in DOMAIN Modes
  PROVE  Refuses(l, m) <=> Refuses(m, l)
BY DEF Refuses, Conflict, Modes

(* Every lock of a plan has a mode.                                        *)
LEMMA PlanModes ==
  ASSUME NEW k \in KeepsOrder, NEW u \in User, NEW v \in User, NEW c, Listed(c), NEW h,
         NEW j \in 1 .. Len(Plan(k, u, v, h, c))
  PROVE  Plan(k, u, v, h, c)[j].mode \in DOMAIN Modes
<1> USE DEF Plan, Modes, Lock, X, S, CommitOrder
<1>1. CASE k = "diary" BY <1>1 DEF DiaryPlan
<1>2. CASE k = "lot" BY <1>2 DEF LotPlan
<1>3. CASE k = "consume" BY <1>3 DEF ConsumePlan
<1>4. CASE k = "plan" BY <1>4 DEF PlanPlan
<1>5. CASE k = "migrate" BY <1>5 DEF MigratePlan
<1>6. CASE k = "import" BY <1>6 DEF ImportPlan
<1>7. CASE k = "feed" BY <1>7 DEF FeedPlan
<1>8. CASE k = "create" BY <1>8 DEF CreatePlan
<1>9. CASE k = "zone" BY <1>9 DEF ZonePlan
<1>10. CASE k = "add" BY <1>10 DEF AddPlan
<1>11. CASE k = "member" BY <1>11 DEF MemberPlan
<1>12. CASE k = "delete"
  <2>1. PICK P : P = Plan(k, u, v, h, c) OBVIOUS
  <2>2. P = DeletePlan(u, h, c) BY <1>12, <2>1
  <2> HIDE DEF Plan, Modes
  <2>3. Ranked(P, u, h, j) BY <2>1, <2>2, DeleteRanked
  <2> QED BY <2>1, <2>3 DEF Ranked
<1>13. CASE k = "grant" BY <1>13 DEF GrantPlan
<1>14. CASE k = "context" BY <1>14 DEF ContextPlan
<1>15. CASE k = "candidate" BY <1>15 DEF CandidatePlan
<1>16. CASE k = "consent" BY <1>16 DEF ConsentPlan
<1>17. CASE k = "chat" BY <1>17 DEF ChatPlan
<1>18. CASE k = "settle" BY <1>18 DEF SettlePlan
<1> QED BY <1>1, <1>2, <1>3, <1>4, <1>5, <1>6, <1>7, <1>8, <1>9, <1>10, <1>11, <1>12, <1>13, <1>14, <1>15, <1>16, <1>17, <1>18 DEF KeepsOrder, AllKinds

LEMMA HeldModes ==
  ASSUME TypeOK, Ordered, Shape, NEW t \in Tx, Open(t), NEW l \in Held(t)
  PROVE  l.mode \in DOMAIN Modes
<1>1. /\ tx[t].kind \in KeepsOrder /\ tx[t].user \in User /\ tx[t].target \in User /\ Listed(tx[t].created)
      /\ tx[t].held \in Nat
  BY OpenTyped
<1>2. Len(Locks(t)) \in Nat /\ tx[t].held <= Len(Locks(t))
  <2>1. /\ Len(Locks(t)) \in Nat /\ LooksAfter(tx[t].kind) \in 0 .. 2
        /\ LooksAfter(tx[t].kind) <= Len(Locks(t))
    BY <1>1, PlanLength DEF Locks
  <2> QED BY <1>1, <2>1 DEF Shape, ToTake
<1>3. PICK i \in 1 .. tx[t].held : l = Locks(t)[i] BY DEF Held
<1> QED BY <1>1, <1>2, <1>3, PlanModes DEF Locks

LEMMA ExclusiveStep ==
  ASSUME TypeOK, Ordered, Shape, Exclusive, [Next]_vars
  PROVE  Exclusive'
<1> DEFINE Apart(s, t) == Open(s) /\ Open(t) =>
             \A l \in Held(s), m \in Held(t) : ~Refuses(l, m)
<1>1. Exclusive <=> \A s, t \in Tx : s # t => Apart(s, t) BY DEF Exclusive
<1>2. Exclusive' <=> \A s, t \in Tx : s # t => Apart(s, t)' BY DEF Exclusive
<1>3. ASSUME NEW s \in Tx, NEW t \in Tx, s # t,
             Open(s)' => Open(s) /\ Held(s)' = Held(s),
             Open(t)' => Open(t) /\ Held(t)' = Held(t)
      PROVE  Apart(s, t)'
  BY <1>1, <1>3
<1>4. CASE UNCHANGED vars BY <1>2, <1>3, <1>4, SameTx DEF vars
<1>5. ASSUME NEW t \in Tx, OthersStay(t), Open(t)' => Open(t) /\ Held(t)' = Held(t)
      PROVE  Exclusive'
  <2>1. \A s \in Tx : Open(s)' => Open(s) /\ Held(s)' = Held(s)
    BY <1>5, SameTx DEF OthersStay
  <2> QED BY <2>1, <1>2, <1>3
<1>6. ASSUME NEW t \in Tx, OthersStay(t), Held(t)' = {} PROVE Exclusive'
  <2>1. \A s \in Tx \ {t} : Open(s)' => Open(s) /\ Held(s)' = Held(s)
    BY <1>6, SameTx DEF OthersStay
  <2> QED BY <2>1, <1>2, <1>3, <1>6
<1>7. ASSUME NEW t \in Tx, OthersStay(t), Acquire(t) PROVE Exclusive'
  <2>1. /\ Open(t) /\ Held(t)' = Held(t) \cup {Wanted(t)} /\ Open(t)'
        /\ tx[t].held + 1 \in 1 .. Len(Locks(t))
    BY <1>7, HeldGrows
  <2>2. \A s \in Tx \ {t} : Open(s)' = Open(s) /\ Held(s)' = Held(s)
    BY <1>7, SameTx DEF OthersStay
  <2>3. \A s \in Tx \ {t} : Open(s) => \A l \in Held(s) : ~Refuses(l, Wanted(t))
    BY <1>7 DEF Acquire, Blockers
  <2>4. Wanted(t).mode \in DOMAIN Modes
    BY <2>1, OpenTyped, PlanModes DEF Wanted, Locks
  <2>5. ASSUME NEW s \in Tx \ {t}, Open(s), NEW l \in Held(s), NEW m \in Held(t)'
        PROVE  ~Refuses(l, m) /\ ~Refuses(m, l)
    <3>1. CASE m \in Held(t) BY <3>1, <2>1, <2>5, <1>1
    <3>2. CASE m = Wanted(t) BY <3>2, <2>3, <2>4, <2>5, HeldModes, RefusesEither
    <3> QED BY <3>1, <3>2, <2>1
  <2>6. \A s \in Tx \ {t} : Apart(s, t)' /\ Apart(t, s)' BY <2>2, <2>5
  <2>7. ASSUME NEW r \in Tx \ {t}, NEW s \in Tx \ {t}, r # s PROVE Apart(r, s)'
    BY <2>2, <2>7, <1>3
  <2> HIDE DEF Apart
  <2> QED BY <2>6, <2>7, <1>2
<1>8. ASSUME NEW t \in Tx, NEW k \in Kinds, NEW u \in User, NEW v \in User, Begin(t, k, u, v)
      PROVE  Held(t)' = {}
  <2>1. tx'[t].held = 0 BY <1>8 DEF Begin, TypeOK
  <2> QED BY <2>1 DEF Held
<1>9. ASSUME NEW t \in Tx, Look(t) PROVE Open(t) /\ Held(t)' = Held(t)
  BY <1>9, LookHolds
<1> QED BY <1>4, <1>5, <1>6, <1>7, <1>8, <1>9, Steps

(* Whoever works in an account has it FOR SHARE; who adds or deletes a user*)
(* has that user FOR UPDATE, and who changes or removes a member has the   *)
(* house.                                                                  *)
LEMMA AccountHolds ==
  ASSUME TypeOK, Ordered, Shape, NEW t \in Tx, Open(t), tx[t].kind \in Account,
         tx[t].house # Unread
  PROVE  IF tx[t].kind = "create" THEN X("user", tx[t].user) \in Held(t)
         ELSE S("user", tx[t].user) \in Held(t)
<1>1. /\ tx[t].user \in User /\ tx[t].target \in User /\ Listed(tx[t].created) /\ tx[t].held \in Nat BY OpenTyped
<1>2. LooksAfter(tx[t].kind) = 1 /\ Locks(t)[1] = IF tx[t].kind = "create"
        THEN X("user", tx[t].user) ELSE S("user", tx[t].user)
  BY <1>1, AccountLocksUser DEF Locks
<1>3. 1 \in 1 .. tx[t].held BY <1>1, <1>2 DEF Shape
<1> QED BY <1>2, <1>3 DEF Held

LEMMA CommitHolds ==
  ASSUME TypeOK, Ordered, Shape, NEW t \in Tx, Commit(t)
  PROVE  /\ tx[t].kind \in {"create", "add", "delete"} => X("user", tx[t].target) \in Held(t)
         /\ tx[t].kind = "member" => X("house", tx[t].house) \in Held(t)
<1>1. Open(t) /\ tx[t].house # Unread /\ ~(tx[t].held < ToTake(t)) BY DEF Commit, Waits
<1>2. /\ tx[t].kind \in KeepsOrder /\ tx[t].user \in User /\ tx[t].target \in User /\ Listed(tx[t].created)
      /\ tx[t].held \in Nat
  BY <1>1, OpenTyped
<1>3. tx[t].held = Len(Locks(t))
  <2>1. Len(Locks(t)) \in Nat BY <1>2, PlanLength DEF Locks
  <2> QED BY <1>1, <1>2, <2>1 DEF Shape, ToTake
<1>4. \A i \in 1 .. Len(Locks(t)) : Locks(t)[i] \in Held(t) BY <1>3 DEF Held
<1>5. ASSUME tx[t].kind = "create" PROVE X("user", tx[t].target) \in Held(t)
  BY <1>1, <1>4, <1>5 DEF Shape, Locks, Plan, CreatePlan
<1>6. ASSUME tx[t].kind = "add" PROVE X("user", tx[t].target) \in Held(t)
  BY <1>4, <1>6 DEF Locks, Plan, AddPlan
<1>7. ASSUME tx[t].kind = "member" PROVE X("house", tx[t].house) \in Held(t)
  BY <1>4, <1>7 DEF Locks, Plan, MemberPlan
<1>8. ASSUME tx[t].kind = "delete" PROVE X("user", tx[t].target) \in Held(t)
  <2>1. Locks(t) = DeletePlan(tx[t].user, tx[t].house, tx[t].created)
    BY <1>8 DEF Locks, Plan
  <2>2. Len(Locks(t)) >= 1 /\ Len(Locks(t)) \in Nat /\ Locks(t)[1] = X("user", tx[t].user)
    <3>1. CASE tx[t].house = NoHouse
      <4>1. PICK n \in Nat : Alone(Locks(t), tx[t].user, n) BY <1>2, <2>1, <3>1, DeleteAlone
      <4> QED BY <4>1 DEF Alone
    <3>2. CASE tx[t].house # NoHouse
      <4>1. PICK n \in Nat : InHouse(Locks(t), tx[t].user, tx[t].house, n)
        BY <1>2, <2>1, <3>2, DeleteInHouse
      <4> QED BY <4>1 DEF InHouse
    <3> QED BY <3>1, <3>2
  <2> QED BY <1>1, <1>4, <1>8, <2>2 DEF Shape
<1> QED BY <1>5, <1>6, <1>7, <1>8

(* Locks that refuse each other.                                           *)
LEMMA UserRefuses ==
  ASSUME NEW u
  PROVE  /\ Refuses(S("user", u), X("user", u)) /\ Refuses(X("user", u), X("user", u))
         /\ Refuses(X("house", u), X("house", u))
         /\ Refuses(X("house", u), S("house", u))
BY DEF Refuses, Conflict, Modes, Lock, X, S

(* What a commit does to the membership of a user.                         *)
LEMMA CommitHome ==
  ASSUME TypeOK, Ordered, Shape, NEW t \in Tx, Commit(t), NEW u \in User
  PROVE  \/ home'[u] = home[u]
         \/ /\ tx[t].kind \in {"create", "add"} /\ tx[t].target = u
            /\ tx[t].kind = "add" => home[u] = NoHouse
         \/ /\ tx[t].kind = "member" /\ tx[t].target = u
            /\ home[u] = tx[t].house /\ home'[u] = NoHouse
         \/ tx[t].kind = "delete" /\ tx[t].target = u /\ home'[u] = NoHouse
<1>1. tx[t].kind \in KeepsOrder BY OpenTyped DEF Commit
<1>2. tx[t].kind # "erase" BY <1>1 DEF KeepsOrder
<1> QED BY <1>2 DEF Commit, Joins, TypeOK

LEMMA AccountStep ==
  ASSUME TypeOK, Ordered, Shape, Exclusive, AccountStays, [Next]_vars
  PROVE  AccountStays'
<1> DEFINE Fits(t) == Open(t) /\ tx[t].kind \in Account /\ tx[t].house = NoHouse
                        => home[tx[t].user] = NoHouse
<1>1. ASSUME NEW s \in Tx, tx'[s] = tx[s], home' = home PROVE Fits(s)'
  BY <1>1, SameTx DEF AccountStays
<1>2. CASE UNCHANGED vars BY <1>2, <1>1 DEF vars, AccountStays
<1>3. ASSUME NEW t \in Tx, OthersStay(t), home' = home, Fits(t)' PROVE AccountStays'
  BY <1>1, <1>3 DEF OthersStay, AccountStays
<1>4. ASSUME NEW t \in Tx, OthersStay(t),
             \E k \in Kinds, u, v \in User : Begin(t, k, u, v)
      PROVE  AccountStays'
  <2>1. tx'[t].house = Unread /\ home' = home BY <1>4 DEF Begin, TypeOK
  <2> QED BY <2>1, <1>3, <1>4, NamesDistinct
<1>5. ASSUME NEW t \in Tx, OthersStay(t), ~Open(t)', home' = home PROVE AccountStays'
  BY <1>3, <1>5
<1>6. ASSUME NEW t \in Tx, OthersStay(t), Look(t) PROVE AccountStays'
  <2>1. /\ tx'[t].kind = tx[t].kind /\ tx'[t].user = tx[t].user /\ Open(t)
        /\ tx'[t].house \in WorksOn(tx[t]) /\ home' = home
    BY <1>6, LookHolds DEF Look
  <2>2. tx[t].kind \in Account => WorksOn(tx[t]) \subseteq {home[tx[t].user]}
    BY DEF WorksOn, Account, InAccount
  <2>3. Fits(t)' BY <2>1, <2>2
  <2> QED BY <2>1, <2>3, <1>3, <1>6
<1>7. ASSUME NEW t \in Tx, OthersStay(t), Acquire(t) PROVE AccountStays'
  <2>1. Open(t) /\ home' = home BY <1>7 DEF Acquire, Waits
  <2>2. tx'[t].kind = tx[t].kind /\ tx'[t].user = tx[t].user /\ tx'[t].house = tx[t].house
    BY <1>7, <2>1, OpenTyped DEF Acquire, TypeOK, TxType
  <2>3. Fits(t)' BY <2>1, <2>2 DEF AccountStays
  <2> QED BY <2>1, <2>3, <1>3, <1>7
<1>8. ASSUME NEW t \in Tx, OthersStay(t), Commit(t), ~Open(t)' PROVE AccountStays'
  <2>1. SUFFICES ASSUME NEW s \in Tx \ {t}, Open(s)', tx'[s].kind \in Account,
                        tx'[s].house = NoHouse
                 PROVE  home'[tx'[s].user] = NoHouse
    BY <1>8 DEF AccountStays
  <2>2. /\ tx'[s] = tx[s] /\ Open(s) /\ tx[s].kind \in Account /\ tx[s].house = NoHouse
        /\ home[tx[s].user] = NoHouse
    BY <1>8, <2>1, SameTx DEF OthersStay, AccountStays
  <2>3. tx[s].user \in User BY <2>2, OpenTyped
  <2>4. \/ S("user", tx[s].user) \in Held(s) \/ X("user", tx[s].user) \in Held(s)
    BY <2>2, AccountHolds, NamesDistinct
  <2>5. Open(t) BY <1>8 DEF Commit
  <2>6. ~(tx[t].kind \in {"create", "add"} /\ tx[t].target = tx[s].user)
    BY <1>8, <2>2, <2>4, <2>5, CommitHolds, UserRefuses DEF Exclusive
  <2> QED BY <1>8, <2>2, <2>3, <2>6, CommitHome
<1> QED BY <1>2, <1>4, <1>5, <1>6, <1>7, <1>8, Steps

(* A migration locks its user first and its house second.                  *)
LEMMA MigrateHolds ==
  ASSUME TypeOK, Ordered, NEW t \in Tx, Open(t), tx[t].kind = "migrate", tx[t].held >= 2
  PROVE  S("user", tx[t].user) \in Held(t) /\ X("house", tx[t].house) \in Held(t)
<1>1. tx[t].held \in Nat BY OpenTyped
<1>2. Locks(t)[1] = S("user", tx[t].user) /\ Locks(t)[2] = X("house", tx[t].house)
  BY DEF Locks, Plan, MigratePlan
<1>3. 1 \in 1 .. tx[t].held /\ 2 \in 1 .. tx[t].held BY <1>1
<1> QED BY <1>2, <1>3 DEF Held

LEMMA MigrateStep ==
  ASSUME TypeOK, Ordered, Shape, Exclusive, AccountStays, MigratedStays, [Next]_vars
  PROVE  MigratedStays'
<1> DEFINE Fits(t) == Open(t) /\ tx[t].kind = "migrate" /\ tx[t].held >= 2
                        => tx[t].house \in House /\ home[tx[t].user] = tx[t].house
<1>1. ASSUME NEW s \in Tx, tx'[s] = tx[s], home' = home PROVE Fits(s)'
  BY <1>1, SameTx DEF MigratedStays
<1>2. CASE UNCHANGED vars BY <1>2, <1>1 DEF vars, MigratedStays
<1>3. ASSUME NEW t \in Tx, OthersStay(t), home' = home, Fits(t)' PROVE MigratedStays'
  BY <1>1, <1>3 DEF OthersStay, MigratedStays
<1>4. ASSUME NEW t \in Tx, OthersStay(t),
             \E k \in Kinds, u, v \in User : Begin(t, k, u, v)
      PROVE  MigratedStays'
  <2>1. tx'[t].held = 0 /\ home' = home BY <1>4 DEF Begin, TypeOK
  <2> QED BY <2>1, <1>3, <1>4
<1>5. ASSUME NEW t \in Tx, OthersStay(t), ~Open(t)', home' = home PROVE MigratedStays'
  BY <1>3, <1>5
<1>6. ASSUME NEW t \in Tx, OthersStay(t), Look(t) PROVE MigratedStays'
  <2>1. /\ tx'[t].kind = tx[t].kind /\ tx'[t].held = tx[t].held
        /\ tx[t].held = LooksAfter(tx[t].kind) /\ home' = home
    BY <1>6, LookHolds DEF Look
  <2>2. tx[t].kind = "migrate" => LooksAfter(tx[t].kind) = 1 BY DEF LooksAfter, AllKinds
  <2>3. Fits(t)' BY <2>1, <2>2
  <2> QED BY <2>1, <2>3, <1>3, <1>6
<1>7. ASSUME NEW t \in Tx, OthersStay(t), Acquire(t) PROVE MigratedStays'
  <2>1. Open(t) /\ home' = home /\ StillMember(t) /\ tx[t].held < ToTake(t)
    BY <1>7 DEF Acquire, Waits
  <2>2. /\ tx[t] \in TxType /\ tx[t].held \in Nat
        /\ tx[t].house \in House \cup {NoHouse, Unread}
    BY <2>1, OpenTyped
  <2>3. /\ tx'[t].kind = tx[t].kind /\ tx'[t].user = tx[t].user
        /\ tx'[t].house = tx[t].house /\ tx'[t].held = tx[t].held + 1
    BY <1>7, <2>2 DEF Acquire, TypeOK, TxType
  <2>4. CASE tx[t].kind = "migrate" /\ tx[t].held = 1
    <3>1. Wanted(t) = X("house", tx[t].house) BY <2>4 DEF Wanted, Locks, Plan, MigratePlan
    <3>2. home[tx[t].user] = tx[t].house BY <2>1, <2>4, <3>1 DEF StillMember, X, Lock
    <3>3. tx[t].house # Unread
      BY <2>1, <2>4 DEF ToTake, LooksAfter, AllKinds
    <3>4. tx[t].house # NoHouse BY <2>1, <2>4 DEF Shape, InAccount
    <3> QED BY <2>1, <2>2, <2>3, <3>2, <3>3, <3>4, <1>3, <1>7
  <2>5. CASE ~(tx[t].kind = "migrate" /\ tx[t].held = 1)
    <3>1. tx'[t].kind = "migrate" /\ tx'[t].held >= 2
            => tx[t].kind = "migrate" /\ tx[t].held >= 2
      BY <2>2, <2>3, <2>5
    <3>2. tx[t].kind = "migrate" /\ tx[t].held >= 2
            => tx[t].house \in House /\ home[tx[t].user] = tx[t].house
      BY <2>1 DEF MigratedStays
    <3>3. Fits(t)' BY <3>1, <3>2, <2>1, <2>3
    <3> QED BY <3>3, <2>1, <1>3, <1>7
  <2> QED BY <2>4, <2>5
<1>8. ASSUME NEW t \in Tx, OthersStay(t), Commit(t), ~Open(t)' PROVE MigratedStays'
  <2>1. SUFFICES ASSUME NEW s \in Tx \ {t}, Open(s)', tx'[s].kind = "migrate",
                        tx'[s].held >= 2
                 PROVE  tx'[s].house \in House /\ home'[tx'[s].user] = tx'[s].house
    BY <1>8 DEF MigratedStays
  <2>2. /\ tx'[s] = tx[s] /\ Open(s) /\ tx[s].kind = "migrate" /\ tx[s].held >= 2
        /\ tx[s].house \in House /\ home[tx[s].user] = tx[s].house
    BY <1>8, <2>1, SameTx DEF OthersStay, MigratedStays
  <2>3. /\ tx[s].user \in User /\ S("user", tx[s].user) \in Held(s)
        /\ X("house", tx[s].house) \in Held(s)
    BY <2>2, OpenTyped, MigrateHolds
  <2>4. Open(t) /\ tx[t].house # Unread BY <1>8 DEF Commit
  <2>5. ASSUME tx[t].kind = "create", tx[t].target = tx[s].user PROVE FALSE
    <3>1. tx[t].house = NoHouse /\ tx[t].user = tx[s].user BY <2>4, <2>5 DEF Shape
    <3>2. home[tx[t].user] = NoHouse BY <2>4, <2>5, <3>1 DEF AccountStays, Account
    <3> QED BY <3>1, <3>2, <2>2, NamesDistinct
  <2>6. ASSUME tx[t].kind = "member", tx[t].house = tx[s].house PROVE FALSE
    BY <1>8, <2>2, <2>3, <2>4, <2>6, CommitHolds, UserRefuses, NamesDistinct DEF Exclusive
  <2>7. ASSUME tx[t].kind = "delete", tx[t].target = tx[s].user PROVE FALSE
    BY <1>8, <2>2, <2>3, <2>4, <2>7, CommitHolds, UserRefuses DEF Exclusive
  <2> QED BY <1>8, <2>2, <2>3, <2>5, <2>6, <2>7, CommitHome, NamesDistinct
<1> QED BY <1>2, <1>4, <1>5, <1>6, <1>7, <1>8, Steps

-----------------------------------------------------------------------------
(* Everything a transaction has locked is in its plan, before what it      *)
(* waits for.                                                              *)
LEMMA WaitingPlan ==
  ASSUME TypeOK, Ordered, Shape, NEW t \in Tx, Waits(t)
  PROVE  /\ Open(t) /\ tx[t].held \in Nat /\ tx[t].held + 1 \in 1 .. Len(Locks(t))
         /\ tx[t].kind \in KeepsOrder /\ tx[t].user \in User /\ tx[t].target \in User /\ Listed(tx[t].created)
         /\ tx[t].house \in House \cup {NoHouse, Unread}
         /\ tx[t].house = NoHouse => tx[t].kind \in InAccount \cup {"create"}
         /\ tx[t].house = Unread => tx[t].held + 1 \in 1 .. LooksAfter(tx[t].kind)
<1>1. Open(t) /\ tx[t].held < ToTake(t) BY DEF Waits
<1>2. /\ tx[t].kind \in KeepsOrder /\ tx[t].user \in User /\ tx[t].target \in User /\ Listed(tx[t].created)
      /\ tx[t].house \in House \cup {NoHouse, Unread} /\ tx[t].held \in Nat
  BY <1>1, OpenTyped
<1>3. /\ Len(Locks(t)) \in Nat /\ LooksAfter(tx[t].kind) \in 0 .. 2
      /\ LooksAfter(tx[t].kind) <= Len(Locks(t))
  BY <1>2, PlanLength DEF Locks
<1> QED BY <1>1, <1>2, <1>3 DEF ToTake, Shape

(* What an open transaction has locked.                                    *)
LEMMA HeldPlan ==
  ASSUME TypeOK, Ordered, Shape, NEW t \in Tx, Open(t)
  PROVE  /\ tx[t].held \in Nat /\ Len(Locks(t)) \in Nat /\ tx[t].held <= Len(Locks(t))
         /\ tx[t].kind \in KeepsOrder /\ tx[t].user \in User /\ tx[t].target \in User /\ Listed(tx[t].created)
         /\ tx[t].house \in House \cup {NoHouse, Unread}
         /\ tx[t].house = Unread => tx[t].held <= LooksAfter(tx[t].kind)
<1>1. /\ tx[t].kind \in KeepsOrder /\ tx[t].user \in User /\ tx[t].target \in User /\ Listed(tx[t].created)
      /\ tx[t].house \in House \cup {NoHouse, Unread} /\ tx[t].held \in Nat
  BY OpenTyped
<1>2. /\ Len(Locks(t)) \in Nat /\ LooksAfter(tx[t].kind) \in 0 .. 2
      /\ LooksAfter(tx[t].kind) <= Len(Locks(t))
  BY <1>1, PlanLength DEF Locks
<1> QED BY <1>1, <1>2 DEF ToTake, Shape

(* Whoever has a row of a house locked has the house locked.               *)
LEMMA RowWithHouse ==
  ASSUME TypeOK, Ordered, Shape, NEW t \in Tx, Open(t), NEW l \in Held(t), RowOfHouse(l)
  PROVE  X("house", l.of) \in Held(t)
<1>1. /\ tx[t].held \in Nat /\ Len(Locks(t)) \in Nat /\ tx[t].held <= Len(Locks(t))
      /\ tx[t].kind \in KeepsOrder /\ tx[t].user \in User /\ tx[t].target \in User /\ Listed(tx[t].created)
      /\ tx[t].house \in House \cup {NoHouse, Unread}
      /\ tx[t].house = Unread => tx[t].held <= LooksAfter(tx[t].kind)
  BY HeldPlan
<1>2. PICK j \in 1 .. tx[t].held : l = Locks(t)[j] BY DEF Held
<1>3. tx[t].house # Unread
  <2>1. tx[t].house = Unread => LooksAfter(tx[t].kind) \in 0 .. 2 BY <1>1, PlanLength
  <2> QED BY <1>1, <1>2, <2>1, LookKeeps DEF Locks
<1>4. \E i \in 1 .. j - 1 : Locks(t)[i] = X("house", l.of)
  BY <1>1, <1>2, <1>3, HouseBeforeRow DEF Locks
<1> QED BY <1>1, <1>2, <1>4 DEF Held

(* Whoever has a row of an account locked works in it, or moves it.        *)
LEMMA RowWithAccount ==
  ASSUME TypeOK, Ordered, Shape, NEW t \in Tx, Open(t), NEW l \in Held(t), RowOfAccount(l)
  PROVE  /\ l.of = tx[t].user
         /\ \/ tx[t].kind \in Account /\ tx[t].house = NoHouse
            \/ tx[t].kind = "migrate" /\ tx[t].held >= 3
<1>1. /\ tx[t].held \in Nat /\ Len(Locks(t)) \in Nat /\ tx[t].held <= Len(Locks(t))
      /\ tx[t].kind \in KeepsOrder /\ tx[t].user \in User /\ tx[t].target \in User /\ Listed(tx[t].created)
      /\ tx[t].house \in House \cup {NoHouse, Unread}
      /\ tx[t].house = Unread => tx[t].held <= LooksAfter(tx[t].kind)
  BY HeldPlan
<1>2. PICK j \in 1 .. tx[t].held : l = Locks(t)[j] BY DEF Held
<1>3. tx[t].house # Unread
  <2>1. tx[t].house = Unread => LooksAfter(tx[t].kind) \in 0 .. 2 BY <1>1, PlanLength
  <2> QED BY <1>1, <1>2, <2>1, LookKeeps DEF Locks
<1>4. /\ l.of = tx[t].user
      /\ \/ tx[t].kind \in Account /\ tx[t].house = NoHouse
         \/ tx[t].kind = "migrate" /\ j > 3
  BY <1>1, <1>2, <1>3, WhoLocksAccountRow DEF Locks
<1>5. j > 3 => tx[t].held >= 3 BY <1>1, <1>2
<1> QED BY <1>4, <1>5

(* Nobody waits for a lock that an earlier one guards.                     *)
LEMMA GuardedFree ==
  ASSUME IInv, Ordered, NEW t \in Tx, Waits(t), Guarded(tx[t].kind, Wanted(t)),
         tx[t].house # Unread
  PROVE  Blockers(t) = {}
<1> USE DEF IInv
<1>1. /\ Open(t) /\ tx[t].held \in Nat /\ tx[t].held + 1 \in 1 .. Len(Locks(t))
      /\ tx[t].kind \in KeepsOrder /\ tx[t].user \in User /\ tx[t].target \in User /\ Listed(tx[t].created)
      /\ tx[t].house \in House \cup {NoHouse}
  BY WaitingPlan
<1>2. SUFFICES ASSUME NEW s \in Tx \ {t}, Open(s), NEW l \in Held(s), Refuses(l, Wanted(t))
               PROVE  FALSE
  BY DEF Blockers
<1>3. l.what = Wanted(t).what /\ l.of = Wanted(t).of BY <1>2 DEF Refuses
<1>4. CASE RowOfHouse(Wanted(t))
  <2>1. X("house", l.of) \in Held(s) BY <1>2, <1>3, <1>4, RowWithHouse DEF RowOfHouse
  <2>2. \E i \in 1 .. tx[t].held : Locks(t)[i] = X("house", l.of)
    <3>1. RowOfHouse(Locks(t)[tx[t].held + 1]) BY <1>4 DEF Wanted
    <3>2. \E i \in 1 .. (tx[t].held + 1) - 1 :
            Locks(t)[i] = X("house", Locks(t)[tx[t].held + 1].of)
      <4> DEFINE j == tx[t].held + 1
      <4>1. j \in 1 .. Len(Locks(t)) /\ RowOfHouse(Locks(t)[j]) BY <1>1, <3>1
      <4> HIDE DEF j
      <4>2. \E i \in 1 .. j - 1 : Locks(t)[i] = X("house", Locks(t)[j].of)
        BY <1>1, <4>1, HouseBeforeRow DEF Locks
      <4> QED BY <4>2 DEF j
    <3> QED BY <1>1, <1>3, <3>2 DEF Wanted
  <2>3. X("house", l.of) \in Held(t) BY <2>2 DEF Held
  <2> QED BY <1>1, <1>2, <2>1, <2>3, UserRefuses DEF Exclusive
<1>5. CASE tx[t].kind = "migrate" /\ RowOfAccount(Wanted(t))
  <2>1. Wanted(t).of = tx[t].user /\ tx[t].held + 1 > 3
    BY <1>1, <1>5, WhoLocksAccountRow DEF Wanted, Locks, Account
  <2>2. X("house", tx[t].house) \in Held(t) BY <1>1, <1>5, <2>1, MigrateHolds
  <2>3. home[tx[t].user] = tx[t].house /\ home[tx[t].user] # NoHouse
    BY <1>1, <1>5, <2>1, NamesDistinct DEF MigratedStays
  <2>4. RowOfAccount(l) BY <1>3, <1>5 DEF RowOfAccount
  <2>5. CASE tx[s].kind \in Account /\ tx[s].house = NoHouse
    BY <1>2, <1>3, <2>1, <2>3, <2>4, <2>5, RowWithAccount DEF AccountStays
  <2>6. CASE tx[s].kind = "migrate" /\ tx[s].held >= 3
    <3>1. tx[s].user = tx[t].user BY <1>2, <1>3, <2>1, <2>4, RowWithAccount
    <3>2. tx[s].held >= 2 BY <1>2, <2>6, OpenTyped
    <3>3. X("house", tx[s].house) \in Held(s) /\ home[tx[s].user] = tx[s].house
      BY <1>2, <2>6, <3>2, MigrateHolds DEF MigratedStays
    <3> QED BY <1>1, <1>2, <2>2, <2>3, <3>1, <3>3, UserRefuses DEF Exclusive
  <2> QED BY <1>2, <2>4, <2>5, <2>6, RowWithAccount
<1> QED BY <1>4, <1>5 DEF Guarded

(* Whoever is waited for waits for a lock of a higher rank, or for a house *)
(* that its user has created.                                              *)
LEMMA RankRises ==
  ASSUME IInv, Ordered, NEW t \in Tx, Waits(t), NEW s \in Blockers(t), Waits(s),
         Blockers(s) # {}, ~WaitsAsCreator(s)
  PROVE  Rank(Wanted(t)) < Rank(Wanted(s))
<1> USE DEF IInv
<1>1. PICK l \in Held(s) : Refuses(l, Wanted(t)) BY DEF Blockers
<1>2. s \in Tx BY DEF Blockers
<1>3. Rank(l) = Rank(Wanted(t)) BY <1>1 DEF Refuses, Rank
<1>4. /\ Open(s) /\ tx[s].held \in Nat /\ tx[s].held + 1 \in 1 .. Len(Locks(s))
      /\ tx[s].kind \in KeepsOrder /\ tx[s].user \in User /\ tx[s].target \in User /\ Listed(tx[s].created)
      /\ tx[s].house \in House \cup {NoHouse, Unread}
      /\ tx[s].house = NoHouse => tx[s].kind \in InAccount \cup {"create"}
      /\ tx[s].house = Unread => tx[s].held + 1 \in 1 .. LooksAfter(tx[s].kind)
  BY <1>2, WaitingPlan
<1>5. PICK i \in 1 .. tx[s].held : l = Locks(s)[i] BY <1>1 DEF Held
<1>6. CASE tx[s].house = Unread
  BY <1>3, <1>4, <1>5, <1>6, LookRanks DEF Locks, Wanted
<1>7. CASE tx[s].house # Unread
  <2>1. ~Guarded(tx[s].kind, Wanted(s)) BY <1>2, <1>7, GuardedFree
  <2>2. i \in 1 .. (tx[s].held + 1) - 1 BY <1>4, <1>5
  <2>3. \/ Rank(Locks(s)[i]) < Rank(Wanted(s)) \/ Guarded(tx[s].kind, Wanted(s))
        \/ OfCreator(Wanted(s))
    BY <1>4, <1>7, <2>2, PlanRanks DEF Locks, Wanted
  <2>4. ~OfCreator(Wanted(s))
    <3>1. ASSUME OfCreator(Wanted(s)) PROVE FALSE
      <4>1. tx[s].kind = "delete" BY <1>4, <3>1, WhoLocksCreated DEF Locks, Wanted
      <4>2. Locks(s) = DeletePlan(tx[s].user, tx[s].house, tx[s].created)
        BY <4>1 DEF Locks, Plan
      <4>3. \E g \in House : Wanted(s) = CreatorLock(g)
        BY <1>4, <3>1, <4>2, CreatedLocks DEF Wanted
      <4> QED BY <4>3 DEF WaitsAsCreator
    <3> QED BY <3>1
  <2> QED BY <1>3, <1>5, <2>1, <2>3, <2>4
<1> QED BY <1>6, <1>7

(* The ranks end at eight.                                                 *)
LEMMA RankBound ==
  ASSUME NEW k \in KeepsOrder, NEW u \in User, NEW v \in User, NEW c, Listed(c), NEW h,
         NEW j \in 1 .. Len(Plan(k, u, v, h, c))
  PROVE  Rank(Plan(k, u, v, h, c)[j]) \in 1 .. 8
<1> USE DEF Plan, Rank, Lock, X, S, CommitOrder
<1>1. CASE k = "diary" BY <1>1 DEF DiaryPlan
<1>2. CASE k = "lot" BY <1>2 DEF LotPlan
<1>3. CASE k = "consume" BY <1>3 DEF ConsumePlan
<1>4. CASE k = "plan" BY <1>4 DEF PlanPlan
<1>5. CASE k = "migrate" BY <1>5 DEF MigratePlan
<1>6. CASE k = "import" BY <1>6 DEF ImportPlan
<1>7. CASE k = "feed" BY <1>7 DEF FeedPlan
<1>8. CASE k = "create" BY <1>8 DEF CreatePlan
<1>9. CASE k = "zone" BY <1>9 DEF ZonePlan
<1>10. CASE k = "add" BY <1>10 DEF AddPlan
<1>11. CASE k = "member" BY <1>11 DEF MemberPlan
<1>12. CASE k = "delete"
  <2>1. PICK P : P = Plan(k, u, v, h, c) OBVIOUS
  <2>2. P = DeletePlan(u, h, c) BY <1>12, <2>1
  <2> HIDE DEF Plan, Rank
  <2>3. Ranked(P, u, h, j) BY <2>1, <2>2, DeleteRanked
  <2> QED BY <2>1, <2>3 DEF Ranked
<1>13. CASE k = "grant" BY <1>13 DEF GrantPlan
<1>14. CASE k = "context" BY <1>14 DEF ContextPlan
<1>15. CASE k = "candidate" BY <1>15 DEF CandidatePlan
<1>16. CASE k = "consent" BY <1>16 DEF ConsentPlan
<1>17. CASE k = "chat" BY <1>17 DEF ChatPlan
<1>18. CASE k = "settle" BY <1>18 DEF SettlePlan
<1> QED BY <1>1, <1>2, <1>3, <1>4, <1>5, <1>6, <1>7, <1>8, <1>9, <1>10, <1>11, <1>12, <1>13, <1>14, <1>15, <1>16, <1>17, <1>18 DEF KeepsOrder, AllKinds

(* Whoever waits as a creator has, above the rank of houses, nothing but    *)
(* its membership and grant in the house that it has locked.                *)
LEMMA CreatorHolds ==
  ASSUME TypeOK, Ordered, Shape, NEW x \in Tx, WaitsAsCreator(x), NEW l \in Held(x),
         Rank(l) > 3
  PROVE  /\ l.what \in {"membership", "grant"} /\ l.of = <<tx[x].user, tx[x].house>>
         /\ tx[x].house \in House /\ X("house", tx[x].house) \in Held(x)
<1> DEFINE m == tx[x].held + 1
<1>1. /\ Waits(x) /\ Open(x) /\ tx[x].held \in Nat /\ m \in 1 .. Len(Locks(x))
      /\ tx[x].kind \in KeepsOrder /\ tx[x].user \in User /\ tx[x].target \in User
      /\ Listed(tx[x].created) /\ tx[x].house \in House \cup {NoHouse, Unread}
      /\ tx[x].house = Unread => m \in 1 .. LooksAfter(tx[x].kind)
  BY WaitingPlan DEF WaitsAsCreator
<1>2. OfCreator(Locks(x)[m]) BY DEF WaitsAsCreator, Wanted, OfCreator, CreatorLock, Lock
<1>3. tx[x].kind = "delete" BY <1>1, <1>2, WhoLocksCreated DEF Locks
<1>4. Locks(x) = DeletePlan(tx[x].user, tx[x].house, tx[x].created)
  BY <1>3 DEF Locks, Plan
<1>5. PICK i \in 1 .. tx[x].held : l = Locks(x)[i] BY DEF Held
<1>6. ASSUME NEW P, P = Locks(x), NEW n \in Nat, Alone(P, tx[x].user, n) PROVE FALSE
  <2>1. i \in 1 .. n + 1 /\ l = P[i] BY <1>1, <1>5, <1>6 DEF Alone
  <2>2. l = X("user", tx[x].user) \/ \E g \in House : l = CreatorLock(g)
    BY <1>6, <2>1 DEF Alone
  <2> QED BY <2>2 DEF Rank, X, Lock, CreatorLock
<1>7. tx[x].house # NoHouse
  <2>1. SUFFICES ASSUME tx[x].house = NoHouse PROVE FALSE OBVIOUS
  <2>2. \E n \in Nat : Alone(Locks(x), tx[x].user, n) BY <1>1, <1>4, <2>1, DeleteAlone
  <2> QED BY <1>6, <2>2
<1>8. PICK P : P = Locks(x) OBVIOUS
<1>9. PICK n \in Nat : InHouse(P, tx[x].user, tx[x].house, n)
  BY <1>1, <1>4, <1>7, <1>8, DeleteInHouse
<1>10. m \in 1 .. n + 6 /\ OfCreator(P[m]) /\ i \in 1 .. m - 1 /\ l = P[i]
  BY <1>1, <1>2, <1>5, <1>8, <1>9 DEF InHouse
<1> HIDE DEF m
<1>11. m \in 5 .. n + 4
  BY <1>8, <1>9, <1>10 DEF InHouse, OfCreator, X, Lock, CommitOrder
<1>12. tx[x].house # Unread
  <2>1. LooksAfter("delete") = 1 BY DEF LooksAfter, AllKinds
  <2> QED BY <1>1, <1>3, <1>11, <2>1
<1>13. X("house", tx[x].house) \in Held(x)
  <2>1. 2 \in 1 .. tx[x].held BY <1>1, <1>11 DEF m
  <2> QED BY <1>8, <1>9, <2>1 DEF Held, InHouse
<1>14. \/ l = X("user", tx[x].user) \/ l = X("house", tx[x].house)
       \/ l = X("membership", <<tx[x].user, tx[x].house>>)
       \/ l = X("grant", <<tx[x].user, tx[x].house>>)
       \/ \E g \in House : l = CreatorLock(g)
  <2>1. i \in 1 .. n + 3 BY <1>10, <1>11
  <2>2. i = 1 \/ i = 2 \/ i = 3 \/ i = 4 \/ i \in 5 .. n + 4 BY <2>1
  <2> QED BY <1>8, <1>9, <1>10, <2>2 DEF InHouse
<1>15. l.what \in {"membership", "grant"} /\ l.of = <<tx[x].user, tx[x].house>>
  BY <1>14 DEF Rank, X, Lock, CreatorLock
<1> QED BY <1>1, <1>7, <1>12, <1>13, <1>15

(* So it holds up nobody who is past the houses.                           *)
LEMMA CreatorBlocksBelow ==
  ASSUME IInv, Ordered, NEW t \in Tx, Waits(t), NEW x \in Blockers(t), WaitsAsCreator(x)
  PROVE  ~(Rank(Wanted(t)) > 3)
<1> USE DEF IInv
<1>1. x \in Tx \ {t} /\ Open(x) BY DEF Blockers
<1>2. PICK l \in Held(x) : Refuses(l, Wanted(t)) BY DEF Blockers
<1>3. l.what = Wanted(t).what /\ l.of = Wanted(t).of /\ Rank(l) = Rank(Wanted(t))
  BY <1>2 DEF Refuses, Rank
<1> SUFFICES ASSUME Rank(Wanted(t)) > 3 PROVE FALSE OBVIOUS
<1>4. /\ l.what \in {"membership", "grant"} /\ l.of = <<tx[x].user, tx[x].house>>
      /\ tx[x].house \in House /\ X("house", tx[x].house) \in Held(x)
  BY <1>1, <1>3, CreatorHolds
<1>5. /\ Open(t) /\ tx[t].held \in Nat /\ tx[t].held + 1 \in 1 .. Len(Locks(t))
      /\ tx[t].kind \in KeepsOrder /\ tx[t].user \in User /\ tx[t].target \in User
      /\ Listed(tx[t].created)
  BY WaitingPlan
<1>6. \E i \in 1 .. (tx[t].held + 1) - 1 :
        Locks(t)[i] \in {X("house", tx[x].house), S("house", tx[x].house)}
  <2> DEFINE j == tx[t].held + 1
  <2>1. /\ j \in 1 .. Len(Locks(t)) /\ Locks(t)[j].what \in {"membership", "grant"}
        /\ Locks(t)[j].of = <<tx[x].user, tx[x].house>>
    BY <1>3, <1>4, <1>5 DEF Wanted
  <2> HIDE DEF j
  <2>2. \E i \in 1 .. j - 1 :
          Locks(t)[i] \in {X("house", tx[x].house), S("house", tx[x].house)}
    BY <1>4, <1>5, <2>1, HouseBeforeMembership DEF Locks
  <2> QED BY <2>2 DEF j
<1>7. X("house", tx[x].house) \in Held(t) \/ S("house", tx[x].house) \in Held(t)
  BY <1>5, <1>6 DEF Held
<1> QED BY <1>1, <1>4, <1>5, <1>7, UserRefuses DEF Exclusive

(* Nobody is in a set where everyone's rank is below another's.            *)
LEMMA RanksEnd ==
  ASSUME NEW E \in SUBSET Tx, \A t \in E : Rank(Wanted(t)) \in 1 .. 8,
         \A t \in E : \E s \in E : Rank(Wanted(t)) < Rank(Wanted(s))
  PROVE  E = {}
<1> DEFINE Top(n) == \A t \in E : Rank(Wanted(t)) < n
<1>1. ASSUME NEW m \in 1 .. 8, NEW n \in 1 .. 7, m = n + 1, Top(m) PROVE Top(n)
  <2> SUFFICES ASSUME NEW t \in E PROVE Rank(Wanted(t)) < n OBVIOUS
  <2>1. PICK s \in E : Rank(Wanted(t)) < Rank(Wanted(s)) OBVIOUS
  <2>2. Rank(Wanted(s)) < n + 1 BY <1>1
  <2> QED BY <2>1, <2>2
<1>2. Top(8)
  <2> SUFFICES ASSUME NEW t \in E PROVE Rank(Wanted(t)) < 8 OBVIOUS
  <2>1. PICK s \in E : Rank(Wanted(t)) < Rank(Wanted(s)) OBVIOUS
  <2> QED BY <2>1
<1> HIDE DEF Top
<1>3. Top(7) BY <1>1, <1>2
<1>4. Top(6) BY <1>1, <1>3
<1>5. Top(5) BY <1>1, <1>4
<1>6. Top(4) BY <1>1, <1>5
<1>7. Top(3) BY <1>1, <1>6
<1>8. Top(2) BY <1>1, <1>7
<1>9. Top(1) BY <1>1, <1>8
<1>10. \A t \in E : Rank(Wanted(t)) < 1 BY <1>9 DEF Top
<1> QED BY <1>10

LEMMA OrderFromInv ==
  ASSUME IInv, Ordered
  PROVE  DeadlockNeedsCreators
<1> SUFFICES ASSUME NEW D \in SUBSET Tx, Deadlocked(D),
                    \A s, t \in D : WaitsAsCreator(s) /\ WaitsAsCreator(t) => s = t
             PROVE  FALSE
  BY DEF DeadlockNeedsCreators
<1>1. \A t \in D : Waits(t) /\ Blockers(t) \cap D # {} BY DEF Deadlocked
<1>2. \A t \in D : Rank(Wanted(t)) \in 1 .. 8
  BY <1>1, WaitingPlan, RankBound DEF IInv, Wanted, Locks
<1>3. \A t \in D : \A s \in D : s \in Blockers(t) /\ ~WaitsAsCreator(s)
                                => Rank(Wanted(t)) < Rank(Wanted(s))
  BY <1>1, RankRises
<1>4. CASE \A s \in D : ~WaitsAsCreator(s)
  <2>1. \A t \in D : \E s \in D : Rank(Wanted(t)) < Rank(Wanted(s)) BY <1>1, <1>3, <1>4
  <2>2. D = {} BY <1>2, <2>1, RanksEnd
  <2> QED BY <2>2 DEF Deadlocked
<1>5. ASSUME NEW x \in D, WaitsAsCreator(x) PROVE FALSE
  <2> DEFINE E == {t \in D : t # x /\ Rank(Wanted(t)) > 3}
  <2>1. \A s \in D : s # x => ~WaitsAsCreator(s) BY <1>5
  <2>2. Rank(Wanted(x)) = 3 BY <1>5 DEF WaitsAsCreator, CreatorLock, Lock, Rank
  <2>3. E # {}
    <3>1. PICK s \in D : s \in Blockers(x) BY <1>1, <1>5
    <3>2. s # x BY <3>1 DEF Blockers
    <3>3. Rank(Wanted(s)) > 3 BY <1>2, <1>3, <1>5, <2>1, <2>2, <3>1, <3>2
    <3> QED BY <3>2, <3>3
  <2>4. ASSUME NEW t \in E PROVE \E s \in E : Rank(Wanted(t)) < Rank(Wanted(s))
    <3>1. PICK s \in D : s \in Blockers(t) BY <1>1
    <3>2. s # x BY <1>1, <1>5, <3>1, CreatorBlocksBelow
    <3>3. Rank(Wanted(t)) < Rank(Wanted(s)) BY <1>3, <2>1, <3>1, <3>2
    <3>4. Rank(Wanted(s)) > 3 BY <1>2, <3>3
    <3> QED BY <3>2, <3>3, <3>4
  <2>5. E \in SUBSET Tx /\ \A t \in E : Rank(Wanted(t)) \in 1 .. 8 BY <1>2
  <2> HIDE DEF E
  <2>6. E = {} BY <2>4, <2>5, RanksEnd
  <2> QED BY <2>3, <2>6
<1> QED BY <1>4, <1>5

-----------------------------------------------------------------------------
LEMMA InvInit == Init => IInv
<1> SUFFICES ASSUME Init PROVE IInv OBVIOUS
<1>1. \A t \in Tx : ~Open(t) BY DEF Init, Open
<1>2. TypeOK BY DEF Init, TypeOK
<1> QED BY <1>1, <1>2 DEF IInv, Shape, Exclusive, AccountStays, MigratedStays

LEMMA InvStep == ASSUME IInv, Ordered, [Next]_vars PROVE IInv'
BY TypeStep, ShapeStep, ExclusiveStep, AccountStep, MigrateStep DEF IInv

LEMMA Inductive == Ordered => (Spec => []IInv)
<1>1. ASSUME Ordered PROVE IInv /\ [Next]_vars => IInv' BY <1>1, InvStep
<1> SUFFICES ASSUME Ordered PROVE Spec => []IInv OBVIOUS
<1>2. IInv /\ [Next]_vars => IInv' BY <1>1
<1> QED BY <1>2, InvInit, PTL DEF Spec

(* The variables keep their types.                                         *)
THEOREM TypeCorrect == Ordered => (Spec => []TypeOK)
<1>1. IInv => TypeOK BY DEF IInv
<1> QED BY <1>1, Inductive, PTL

(* However many users, houses and transactions there are: as long as no    *)
(* migration is marked and no account leaves rows in another house, the    *)
(* only transactions of the server that wait for one another are deletions *)
(* of accounts, and whoever waits with them, where at least two wait for   *)
(* houses that their users have created.                                   *)
THEOREM LocksAreOrdered == Ordered => (Spec => []DeadlockNeedsCreators)
<1> SUFFICES ASSUME Ordered PROVE Spec => []DeadlockNeedsCreators OBVIOUS
<1>1. IInv => DeadlockNeedsCreators BY OrderFromInv
<1> QED BY <1>1, Inductive, PTL

(* Where no account is deleted, nobody waits for one another at all.       *)
THEOREM NothingWaitsInCircles ==
  Ordered /\ "delete" \notin Kinds => (Spec => []NoDeadlock)
<1> SUFFICES ASSUME Ordered, "delete" \notin Kinds PROVE Spec => []NoDeadlock OBVIOUS
<1>1. IInv => NoDeadlock
  <2> SUFFICES ASSUME IInv, NEW D \in SUBSET Tx, Deadlocked(D) PROVE FALSE BY DEF NoDeadlock
  <2>1. PICK s \in D : WaitsAsCreator(s) BY OrderFromInv DEF DeadlockNeedsCreators
  <2>2. Waits(s) /\ OfCreator(Wanted(s))
    BY <2>1 DEF WaitsAsCreator, OfCreator, CreatorLock, Lock
  <2>3. /\ Open(s) /\ tx[s].held \in Nat /\ tx[s].held + 1 \in 1 .. Len(Locks(s))
        /\ tx[s].kind \in KeepsOrder /\ tx[s].user \in User /\ tx[s].target \in User
        /\ Listed(tx[s].created)
    BY <2>2, WaitingPlan DEF IInv
  <2>4. tx[s].kind = "delete" BY <2>2, <2>3, WhoLocksCreated DEF Wanted, Locks
  <2>5. tx[s].kind \in Kinds BY <2>3, OpenTyped DEF IInv, TxType
  <2> QED BY <2>4, <2>5
<1> QED BY <1>1, Inductive, PTL

(* A write of an account and a migration of it are never in progress at    *)
(* the same time.                                                          *)
THEOREM AccountIsQuiet == Ordered => (Spec => []AccountQuietDuringMigration)
<1> SUFFICES ASSUME Ordered PROVE Spec => []AccountQuietDuringMigration OBVIOUS
<1>1. IInv => AccountQuietDuringMigration
  <2> SUFFICES ASSUME IInv, NEW s \in Tx, NEW t \in Tx,
                      Open(s), tx[s].kind \in {"diary", "lot", "consume", "plan"},
                      tx[s].house = NoHouse, Open(t), tx[t].kind = "migrate",
                      NEW l \in Held(t), l.what = "house", tx[s].user = tx[t].user
               PROVE  FALSE
    BY DEF AccountQuietDuringMigration
  <2>1. tx[t].held \in Nat BY OpenTyped DEF IInv
  <2>2. Locks(t)[1].what = "user" BY DEF Locks, Plan, MigratePlan, S, Lock
  <2>3. tx[t].held >= 2 BY <2>1, <2>2 DEF Held
  <2>4. home[tx[s].user] = NoHouse BY DEF IInv, AccountStays, Account
  <2>5. home[tx[t].user] \in House BY <2>3 DEF IInv, MigratedStays
  <2> QED BY <2>4, <2>5, NamesDistinct
<1> QED BY <1>1, Inductive, PTL
=============================================================================

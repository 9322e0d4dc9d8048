--------------------------- MODULE ComponentsProofs ---------------------------
(***************************************************************************)
(* Proofs about Components: what is stated of the components together,     *)
(* for every value of their constants. The invariants of the components    *)
(* that have a module of proofs are taken from there; those of the         *)
(* dashboard from DashboardProofs; those of the Channel rows, of the       *)
(* sweeper and of the headers are here.                                    *)
(***************************************************************************)
EXTENDS DashboardProofs

-----------------------------------------------------------------------------
(* The Channel rows, and the walk through them.                            *)

DirectoryChannelRow ==
   [slug : DirectorySlugs, live : BOOLEAN, enabled : BOOLEAN, open : BOOLEAN]

DirectoryRowsTyped ==
    /\ directoryRow \in [DirectoryChannels -> DirectoryChannelRow]
    /\ directoryFailed \in [DirectoryChannels -> Int]
    /\ directoryOff \in [DirectoryChannels -> Int]

\* The walk has come past a Channel, or it has not come to it yet.
CameBy(c) ==
   directoryWalk.after # <<>> /\ ~Directory!After(Directory!Key(c), directoryWalk.after)

DirectoryKeys == Int \X Int \X Int \X Int \X Int

CursorTyped ==
    /\ directoryWalk = [under |-> directoryWalk.under, after |-> directoryWalk.after,
          shown |-> directoryWalk.shown]
    /\ directoryWalk.under \in BOOLEAN /\ directoryWalk.after \in DirectoryKeys \cup {<<>>}
    /\ directoryWalk.shown \in Seq(DirectoryChannels)
    /\ ~directoryWalk.under => directoryWalk.after = <<>>

\* While it lasts, the Channels that stay are those it came by, shown once, and
\* those to come, shown nowhere; when it is over, all of them.
StayersFollow ==
    /\ directoryWalk.under => \A c \in DirectoryChannels \ directoryMoved :
          directoryRow[c].live /\ IF CameBy(c) THEN Once(directoryWalk.shown, c)
             ELSE Nowhere(directoryWalk.shown, c)
    /\ ~directoryWalk.under /\ directoryWalk.shown # <<>> =>
          \A c \in DirectoryChannels \ directoryMoved : Once(directoryWalk.shown, c)

DirectoryInv == DirectoryRowsTyped /\ Directory!OpenIsLong /\ CursorTyped /\ StayersFollow

-----------------------------------------------------------------------------
(* The order of the keys.                                                  *)

\* The keyset's comparison, leg by leg.
LegByLeg(k, l) ==
    \/ k[1] > l[1]
    \/ k[1] = l[1] /\ k[2] > l[2]
    \/ k[1] = l[1] /\ k[2] = l[2] /\ k[3] > l[3]
    \/ k[1] = l[1] /\ k[2] = l[2] /\ k[3] = l[3] /\ k[4] > l[4]
    \/ k[1] = l[1] /\ k[2] = l[2] /\ k[3] = l[3] /\ k[4] = l[4] /\ k[5] > l[5]

LEMMA AfterIsLegByLeg == ASSUME NEW k, NEW l PROVE Directory!After(k, l) <=> LegByLeg(k, l)
  <1>1. ASSUME Directory!After(k, l) PROVE LegByLeg(k, l)
    <2>1. PICK i \in 1..5 : k[i] > l[i] /\ \A j \in 1..(i - 1) : k[j] = l[j]
      BY <1>1 DEF Directory!After
    <2>2. i = 1 \/ i = 2 \/ i = 3 \/ i = 4 \/ i = 5
      BY <2>1
    <2>3. \A j \in {1, 2, 3, 4} : j < i => k[j] = l[j]
      BY <2>1
    <2>. QED BY <2>1, <2>2, <2>3 DEF LegByLeg
  <1>2. ASSUME LegByLeg(k, l) PROVE Directory!After(k, l)
    <2>1. ASSUME NEW i \in 1..5, k[i] > l[i], \A j \in {1, 2, 3, 4} : j < i => k[j] = l[j]
          PROVE  Directory!After(k, l)
      <3>1. \A j \in 1..(i - 1) : j \in {1, 2, 3, 4} /\ j < i
        OBVIOUS
      <3>. QED BY <2>1, <3>1 DEF Directory!After
    <2>2. CASE k[1] > l[1]
      BY <2>1, <2>2
    <2>3. CASE k[1] = l[1] /\ k[2] > l[2]
      BY <2>1, <2>3
    <2>4. CASE k[1] = l[1] /\ k[2] = l[2] /\ k[3] > l[3]
      BY <2>1, <2>4
    <2>5. CASE k[1] = l[1] /\ k[2] = l[2] /\ k[3] = l[3] /\ k[4] > l[4]
      BY <2>1, <2>5
    <2>6. CASE k[1] = l[1] /\ k[2] = l[2] /\ k[3] = l[3] /\ k[4] = l[4] /\ k[5] > l[5]
      BY <2>1, <2>6
    <2>. QED BY <1>2, <2>2, <2>3, <2>4, <2>5, <2>6 DEF LegByLeg
  <1>. QED BY <1>1, <1>2

LEMMA LegsAreOrdered ==
    ASSUME NEW k \in DirectoryKeys, NEW l \in DirectoryKeys
    PROVE  /\ ~Directory!After(k, k)
           /\ Directory!After(k, l) => ~Directory!After(l, k)
           /\ k # l => Directory!After(k, l) \/ Directory!After(l, k)
           /\ \A m \in DirectoryKeys : Directory!After(k, l) /\ Directory!After(l, m) =>
                 Directory!After(k, m)
  <1>1. \A m \in DirectoryKeys :
           /\ m[1] \in Int /\ m[2] \in Int /\ m[3] \in Int /\ m[4] \in Int
                        /\ m[5] \in Int /\ m = <<m[1], m[2], m[3], m[4], m[5]>>
    BY DEF DirectoryKeys
  <1>2. ~LegByLeg(k, k)
    BY <1>1 DEF LegByLeg
  <1>3. LegByLeg(k, l) => ~LegByLeg(l, k)
    BY <1>1 DEF LegByLeg
  <1>4. k # l => LegByLeg(k, l) \/ LegByLeg(l, k)
    <2>1. ~LegByLeg(k, l) /\ ~LegByLeg(l, k) =>
             k[1] = l[1] /\ k[2] = l[2] /\ k[3] = l[3] /\ k[4] = l[4] /\ k[5] = l[5]
      BY <1>1 DEF LegByLeg
    <2>. QED BY <1>1, <2>1
  <1>5. ASSUME NEW m \in DirectoryKeys, LegByLeg(k, l), LegByLeg(l, m) PROVE LegByLeg(k, m)
    BY <1>1, <1>5 DEF LegByLeg
  <1>. QED BY <1>2, <1>3, <1>4, <1>5, AfterIsLegByLeg

LEMMA KeyIsTyped ==
    ASSUME Directory!DirectoryAssumption, DirectoryRowsTyped, NEW c \in DirectoryChannels
    PROVE  Directory!Key(c) \in DirectoryKeys /\ Directory!Key(c)[5] = c
           /\ Directory!Key(c) # <<>>
  <1>1. /\ Directory!HealthRank(c) \in Int /\ -directoryFailed[c] \in Int
           /\ -directoryOff[c] \in Int
        /\ directoryRow[c].slug \in Int /\ c \in Int
    <2>1. directoryRow[c].slug \in DirectorySlugs /\ directoryFailed[c] \in Int
          /\ directoryOff[c] \in Int
      BY DEF DirectoryRowsTyped, DirectoryChannelRow
    <2>2. \A x :
             (x \in DirectorySlugs => x \in Int) /\ (x \in DirectoryChannels => x \in Int)
      BY DEF Directory!DirectoryAssumption
    <2>3. Directory!HealthRank(c) \in {0, 1, 2}
      BY DEF Directory!HealthRank
    <2>. QED BY <2>1, <2>2, <2>3
  <1>. QED BY <1>1 DEF Directory!Key, DirectoryKeys

-----------------------------------------------------------------------------
(* A page.                                                                 *)

Remaining(cursor) ==
    {c \in DirectoryChannels :
       directoryRow[c].live /\ (cursor = <<>> \/ Directory!After(Directory!Key(c), cursor))}

Ahead(cursor) ==
   [c \in Remaining(cursor) |->
      {d \in Remaining(cursor) : Directory!After(Directory!Key(c), Directory!Key(d))}]

LEMMA CandidatesAreOrdered ==
    ASSUME Directory!DirectoryAssumption, DirectoryRowsTyped, NEW cursor
    PROVE  /\ IsFiniteSet(Remaining(cursor))
              /\ Remaining(cursor) \subseteq DirectoryChannels
           /\ Orders(Ahead(cursor), Remaining(cursor))
           /\ Placed(Directory!Candidates(cursor), Ahead(cursor), Remaining(cursor))
  <1>. DEFINE S == Remaining(cursor)
              Pre == Ahead(cursor)
              rows == Directory!Candidates(cursor)
  <1>1. IsFiniteSet(S) /\ S \subseteq DirectoryChannels
    <2>1. S \subseteq DirectoryChannels
      BY DEF Remaining
    <2>2. IsFiniteSet(DirectoryChannels)
      <3>1. Directory!IsFiniteSet(DirectoryChannels)
        BY DEF Directory!DirectoryAssumption
      <3>2. Directory!IsFiniteSet(DirectoryChannels) <=> IsFiniteSet(DirectoryChannels)
        BY DEF Directory!IsFiniteSet, IsFiniteSet
      <3>. QED BY <3>1, <3>2
    <2>. HIDE DEF S
    <2>. QED BY <2>1, <2>2, FS_Subset
  <1>2. \A c \in S :
           Pre[c] = {d \in S : Directory!After(Directory!Key(c), Directory!Key(d))}
    BY DEF Ahead
  <1>3. Pre \in [S -> SUBSET S]
    BY DEF Ahead
  <1>4. rows = [i \in 1..Cardinality(S) |->
                  CHOOSE c \in S :
                     Cardinality({d \in S :
                        Directory!After(Directory!Key(c), Directory!Key(d))}) = i - 1]
    BY DEF Directory!Candidates, Remaining, Directory!InOrder, Directory!Cardinality,
         Cardinality
  <1>5. \A c \in S : Directory!Key(c) \in DirectoryKeys /\ Directory!Key(c)[5] = c
    BY <1>1, KeyIsTyped
  <1>. HIDE DEF S, Pre, rows
  <1>6. Orders(Pre, S)
    <2>1. \A x \in S : x \notin Pre[x]
      BY <1>2, <1>5, LegsAreOrdered
    <2>2. \A x, y \in S : x # y => x \in Pre[y] \/ y \in Pre[x]
      BY <1>2, <1>5, LegsAreOrdered
    <2>3. \A x, y, z \in S : x \in Pre[y] /\ y \in Pre[z] => x \in Pre[z]
      BY <1>2, <1>5, LegsAreOrdered
    <2>. QED BY <1>3, <2>1, <2>2, <2>3 DEF Orders
  <1>7. Placed(rows, Pre, S)
    <2>1. ASSUME NEW i \in 1..Cardinality(S)
          PROVE  \E c \in S :
                    Cardinality({d \in S :
                       Directory!After(Directory!Key(c), Directory!Key(d))}) = i - 1
      <3>1. PICK c \in S : Cardinality(Pre[c]) = i - 1
        BY <1>1, <1>6, EveryPlaceIsTaken
      <3>. QED BY <1>2, <3>1
    <2>2. ASSUME NEW i \in 1..Cardinality(S)
          PROVE  rows[i] \in S
                 /\ Cardinality({d \in S :
                       Directory!After(Directory!Key(rows[i]), Directory!Key(d))}) = i - 1
      BY <1>4, <2>1
    <2>3. rows \in [1..Cardinality(S) -> S]
      BY <1>4, <2>2
    <2>. QED BY <1>2, <2>2, <2>3 DEF Placed
  <1>. QED BY <1>1, <1>6, <1>7 DEF S, Pre, rows

\* What a page adds to what the client was shown.
LEMMA PageOnce ==
    ASSUME Directory!DirectoryAssumption, DirectoryInv, Directory!Page
    PROVE  CursorTyped' /\ StayersFollow'
  <1>. DEFINE S == Remaining(directoryWalk.after)
              Pre == Ahead(directoryWalk.after)
              rows == Directory!Candidates(directoryWalk.after)
              page == Directory!PageOf(rows, DirectoryLimit)
              more == Len(rows) > DirectoryLimit
              last == rows[DirectoryLimit]
              cursor == IF more THEN Directory!Key(last) ELSE <<>>
  <1>1. /\ directoryWalk.under
           /\ UNCHANGED <<directoryRow, directoryFailed, directoryOff, directoryMoved>>
        /\ directoryWalk' = [under |-> more, after |-> cursor,
              shown |-> directoryWalk.shown \o page]
    BY DEF Directory!Page, Directory!CursorRow
  <1>2. DirectoryRowsTyped /\ CursorTyped /\ StayersFollow
    BY DEF DirectoryInv
  <1>3. /\ IsFiniteSet(S) /\ S \subseteq DirectoryChannels /\ Orders(Pre, S)
           /\ Placed(rows, Pre, S)
        /\ DirectoryLimit \in Nat \ {0}
    BY <1>2, CandidatesAreOrdered DEF Directory!DirectoryAssumption
  <1>4. \A c \in DirectoryChannels : c \in S <=>
           directoryRow[c].live
           /\ (directoryWalk.after = <<>>
                 \/ Directory!After(Directory!Key(c), directoryWalk.after))
    BY DEF Remaining
  <1>5. \A c, d \in S : d \in Pre[c] <=> Directory!After(Directory!Key(c), Directory!Key(d))
    BY DEF Ahead
  <1>. HIDE DEF S, Pre, rows
  <1>6. /\ rows \in Seq(S) /\ page \in Seq(S)
        /\ ~more => \A x \in S : Once(page, x)
        /\ more => /\ last \in S
                   /\ \A x \in S : x = last \/ x \in Pre[last] => Once(page, x)
                   /\ \A x \in S : last \in Pre[x] => Nowhere(page, x)
    BY <1>3, PageHasItsRows DEF PageOf, Directory!PageOf
  <1>7. \A i \in DOMAIN page : page[i] \in S
    BY <1>6
  <1>8. more \in BOOLEAN
    OBVIOUS
  <1>. HIDE DEF page, last, more
  <1>9. page \in Seq(DirectoryChannels) /\ directoryWalk.shown \in Seq(DirectoryChannels)
        /\ directoryWalk.shown \o page \in Seq(DirectoryChannels)
    BY <1>2, <1>3, <1>6 DEF CursorTyped
  <1>10. \A c \in S :
            Directory!Key(c) \in DirectoryKeys /\ Directory!Key(c) # <<>>
            /\ Directory!Key(c)[5] = c
    BY <1>2, <1>3, KeyIsTyped
  <1>11. cursor \in DirectoryKeys \cup {<<>>} /\ (cursor = <<>> <=> ~more)
    BY <1>6, <1>10
  <1>12. /\ directoryWalk'.under = more /\ directoryWalk'.after = cursor
         /\ directoryWalk'.shown = directoryWalk.shown \o page
    BY <1>1
  <1>13. CursorTyped'
    BY <1>1, <1>8, <1>9, <1>11, <1>12 DEF CursorTyped
  <1>14. ASSUME NEW c \in DirectoryChannels \ directoryMoved
         PROVE  IF more /\ Directory!After(Directory!Key(c), Directory!Key(last))
                   THEN Nowhere(directoryWalk.shown \o page, c)
                ELSE Once(directoryWalk.shown \o page, c)
    <2>1. /\ directoryRow[c].live /\ Directory!Key(c) \in DirectoryKeys
          /\ IF CameBy(c) THEN Once(directoryWalk.shown, c)
                ELSE Nowhere(directoryWalk.shown, c)
      BY <1>1, <1>2, KeyIsTyped DEF StayersFollow
    <2>2. CASE CameBy(c)
      <3>1. directoryWalk.after # <<>>
            /\ ~Directory!After(Directory!Key(c), directoryWalk.after)
            /\ directoryWalk.after \in DirectoryKeys /\ c \notin S
        BY <1>2, <1>4, <2>2 DEF CameBy, CursorTyped
      <3>2. Nowhere(page, c)
        BY <1>7, <3>1 DEF Nowhere
      <3>3. ~(more /\ Directory!After(Directory!Key(c), Directory!Key(last)))
        <4>1. ASSUME more, Directory!After(Directory!Key(c), Directory!Key(last))
              PROVE  FALSE
          <5>1. last \in S /\ Directory!Key(last) \in DirectoryKeys
                /\ Directory!After(Directory!Key(last), directoryWalk.after)
            BY <1>3, <1>4, <1>6, <1>10, <3>1, <4>1
          <5>. QED BY <2>1, <3>1, <4>1, <5>1, LegsAreOrdered
        <4>. QED BY <4>1
      <3>. QED BY <1>9, <2>1, <2>2, <3>2, <3>3, OnceBefore
    <2>3. CASE ~CameBy(c)
      <3>1. c \in S /\ Nowhere(directoryWalk.shown, c)
        BY <1>4, <2>1, <2>3 DEF CameBy
      <3>2. CASE ~more
        BY <1>6, <1>9, <3>1, <3>2, OnceBehind
      <3>3. CASE more /\ Directory!After(Directory!Key(c), Directory!Key(last))
        <4>1. Nowhere(page, c)
          BY <1>5, <1>6, <3>1, <3>3
        <4>. QED BY <1>9, <3>1, <3>3, <4>1, NowhereBoth
      <3>4. CASE more /\ ~Directory!After(Directory!Key(c), Directory!Key(last))
        <4>1. c = last \/ Directory!After(Directory!Key(last), Directory!Key(c))
          <5>1. Directory!Key(last) # Directory!Key(c) =>
                   Directory!After(Directory!Key(last), Directory!Key(c))
            BY <1>6, <1>10, <3>1, <3>4, LegsAreOrdered
          <5>. QED BY <1>6, <1>10, <3>1, <3>4, <5>1
        <4>2. Once(page, c)
          BY <1>5, <1>6, <3>1, <3>4, <4>1
        <4>. QED BY <1>9, <3>1, <3>4, <4>2, OnceBehind
      <3>. QED BY <3>2, <3>3, <3>4
    <2>. QED BY <2>2, <2>3
  <1>15. ASSUME NEW c \in DirectoryChannels \ directoryMoved
         PROVE  CameBy(c)' <=>
                   more /\ ~Directory!After(Directory!Key(c), Directory!Key(last))
    <2>1. Directory!Key(c)' = Directory!Key(c)
      BY <1>1 DEF Directory!Key, Directory!HealthRank
    <2>. QED BY <1>11, <1>12, <2>1 DEF CameBy, Directory!After
  <1>16. directoryMoved' = directoryMoved /\ directoryRow' = directoryRow
    BY <1>1
  <1>17. \A c \in DirectoryChannels \ directoryMoved : directoryRow[c].live
    BY <1>1, <1>2 DEF StayersFollow
  <1>. QED BY <1>12, <1>13, <1>14, <1>15, <1>16, <1>17 DEF StayersFollow

-----------------------------------------------------------------------------
(* The other steps.                                                        *)

LEMMA BeginFollowsDirectory ==
    ASSUME DirectoryInv, Directory!Begin
    PROVE  CursorTyped' /\ StayersFollow'
  <1>1. /\ ~directoryWalk.under /\ directoryWalk.shown = <<>> /\ directoryWalk.after = <<>>
        /\ directoryWalk' = [under |-> TRUE, after |-> <<>>, shown |-> <<>>]
        /\ directoryMoved' = {c \in DirectoryChannels : ~directoryRow[c].live}
        /\ directoryRow' = directoryRow
    BY DEF Directory!Begin, DirectoryInv, CursorTyped
  <1>2. <<>> \in Seq(DirectoryChannels)
    OBVIOUS
  <1>3. CursorTyped'
    BY <1>1, <1>2 DEF CursorTyped
  <1>4. \A c : Nowhere(<<>>, c)
    BY DEF Nowhere
  <1>. QED BY <1>1, <1>3, <1>4 DEF StayersFollow, CameBy

\* A change of one Channel leaves the keys of the others, and takes it from
\* those that stay.
LEMMA MovedIsLeft ==
    ASSUME DirectoryInv, NEW c \in DirectoryChannels, Directory!Moves(c),
           directoryWalk' = directoryWalk,
           \A d \in DirectoryChannels \ {c} :
              directoryRow'[d] = directoryRow[d] /\ directoryFailed'[d] = directoryFailed[d]
              /\ directoryOff'[d] = directoryOff[d]
    PROVE  CursorTyped' /\ StayersFollow'
  <1>1. CursorTyped'
    BY DEF DirectoryInv, CursorTyped
  <1>2. CASE directoryWalk.under
    <2>1. directoryMoved' = directoryMoved \cup {c}
      BY <1>2 DEF Directory!Moves
    <2>2. ASSUME NEW d \in DirectoryChannels \ directoryMoved'
          PROVE  directoryRow'[d].live /\ (CameBy(d)' <=> CameBy(d))
      <3>1. d \in DirectoryChannels \ {c} /\ d \in DirectoryChannels \ directoryMoved
        BY <2>1
      <3>2. Directory!Key(d)' = Directory!Key(d)
        BY <3>1 DEF Directory!Key, Directory!HealthRank
      <3>3. directoryRow'[d].live
        BY <1>2, <3>1 DEF DirectoryInv, StayersFollow
      <3>. QED BY <3>2, <3>3 DEF CameBy, Directory!After
    <2>. QED BY <1>1, <1>2, <2>1, <2>2 DEF DirectoryInv, StayersFollow
  <1>3. CASE ~directoryWalk.under
    <2>1. directoryMoved' = directoryMoved
      BY <1>3 DEF Directory!Moves
    <2>. QED BY <1>1, <1>3, <2>1 DEF DirectoryInv, StayersFollow
  <1>. QED BY <1>2, <1>3

\* A row that comes to be another.
LEMMA OneRowChanges ==
    ASSUME DirectoryInv, NEW c \in DirectoryChannels, NEW new \in DirectoryChannelRow,
           directoryRow' = [directoryRow EXCEPT ![c] = new], new.live /\ new.open =>
              new.slug >= DirectoryShortSlugs
    PROVE  /\ directoryRow' \in [DirectoryChannels -> DirectoryChannelRow]
              /\ Directory!OpenIsLong'
           /\ \A d \in DirectoryChannels \ {c} : directoryRow'[d] = directoryRow[d]
  <1>1. directoryRow \in [DirectoryChannels -> DirectoryChannelRow]
    BY DEF DirectoryInv, DirectoryRowsTyped
  <1>2. directoryRow' \in [DirectoryChannels -> DirectoryChannelRow]
        /\ directoryRow'[c] = new
        /\ \A d \in DirectoryChannels \ {c} : directoryRow'[d] = directoryRow[d]
    BY <1>1
  <1>3. Directory!OpenIsLong'
    BY <1>2 DEF DirectoryInv, Directory!OpenIsLong
  <1>. QED BY <1>2, <1>3

LEMMA DirectoryBegins ==
    ASSUME Directory!DirectoryAssumption, Directory!Init
    PROVE  DirectoryInv
  <1>1. \A c \in DirectoryChannels :
           directoryRow[c] \in DirectoryChannelRow /\ ~directoryRow[c].open
    <2>. DEFINE first == [c \in DirectoryChannels |->
                            CHOOSE s \in DirectorySlugs :
                               s % Directory!Cardinality(DirectoryChannels) =
                                  c % Directory!Cardinality(DirectoryChannels)]
    <2>1. \A c \in DirectoryChannels : first[c] \in DirectorySlugs
      BY DEF Directory!DirectoryAssumption
    <2>2. directoryRow = [c \in DirectoryChannels |->
                   [slug |-> first[c], live |-> TRUE, enabled |-> TRUE, open |-> FALSE]]
      BY DEF Directory!Init
    <2>. HIDE DEF first
    <2>. QED BY <2>1, <2>2 DEF DirectoryChannelRow
  <1>2. directoryRow \in [DirectoryChannels -> DirectoryChannelRow]
    <2>1. directoryRow = [c \in DirectoryChannels |-> directoryRow[c]]
      BY DEF Directory!Init
    <2>. QED BY <1>1, <2>1
  <1>3. DirectoryRowsTyped /\ Directory!OpenIsLong
    BY <1>1, <1>2 DEF DirectoryRowsTyped, Directory!OpenIsLong, Directory!Init
  <1>4. CursorTyped /\ StayersFollow
    <2>1. <<>> \in Seq(DirectoryChannels)
      OBVIOUS
    <2>. QED BY <2>1 DEF Directory!Init, Directory!Start, CursorTyped, StayersFollow
  <1>. QED BY <1>3, <1>4 DEF DirectoryInv

LEMMA DirectoryGoesOn ==
    ASSUME Directory!DirectoryAssumption, DirectoryInv, [Directory!Next]_directoryVars
    PROVE  DirectoryInv'
  <1>1. CASE UNCHANGED directoryVars
    BY <1>1 DEF directoryVars, DirectoryInv, DirectoryRowsTyped, Directory!OpenIsLong,
         CursorTyped, StayersFollow, CameBy, Directory!Key,
         Directory!HealthRank
  <1>2. CASE Directory!Begin
    <2>1. UNCHANGED <<directoryRow, directoryFailed, directoryOff>>
      BY <1>2 DEF Directory!Begin
    <2>. QED BY <1>2, <2>1, BeginFollowsDirectory DEF DirectoryInv, DirectoryRowsTyped,
         Directory!OpenIsLong
  <1>3. CASE Directory!Page
    <2>1. UNCHANGED <<directoryRow, directoryFailed, directoryOff>>
      BY <1>3 DEF Directory!Page
    <2>. QED BY <1>3, <2>1, PageOnce DEF DirectoryInv, DirectoryRowsTyped,
         Directory!OpenIsLong
  <1>4. ASSUME NEW c \in DirectoryChannels, Directory!CreateChannel(c) PROVE DirectoryInv'
    <2>1. PICK slug \in DirectorySlugs, open \in BOOLEAN :
             /\ Directory!OpenAllowed(slug, open, {"slug", "open"})
             /\ directoryRow' = [directoryRow EXCEPT ![c] =
                   [slug |-> slug, live |-> TRUE, enabled |-> TRUE, open |-> open]]
      BY <1>4 DEF Directory!CreateChannel
    <2>2. [slug |-> slug, live |-> TRUE, enabled |-> TRUE,
             open |-> open] \in DirectoryChannelRow
      BY DEF DirectoryChannelRow
    <2>3. directoryRow' \in [DirectoryChannels -> DirectoryChannelRow]
          /\ Directory!OpenIsLong'
          /\ \A d \in DirectoryChannels \ {c} : directoryRow'[d] = directoryRow[d]
      BY <2>1, <2>2, OneRowChanges DEF Directory!OpenAllowed
    <2>4. /\ directoryFailed' = [directoryFailed EXCEPT ![c] = 0]
             /\ directoryOff' = [directoryOff EXCEPT ![c] = 0]
          /\ Directory!Moves(c) /\ directoryWalk' = directoryWalk
      BY <1>4 DEF Directory!CreateChannel
    <2>5. /\ directoryFailed' \in [DirectoryChannels -> Int]
             /\ directoryOff' \in [DirectoryChannels -> Int]
          /\ \A d \in DirectoryChannels \ {c} :
                directoryFailed'[d] = directoryFailed[d]
                /\ directoryOff'[d] = directoryOff[d]
      BY <2>4 DEF DirectoryInv, DirectoryRowsTyped
    <2>. QED BY <2>3, <2>4, <2>5, MovedIsLeft DEF DirectoryInv, DirectoryRowsTyped
  <1>5. ASSUME NEW c \in DirectoryChannels, Directory!PatchChannel(c) PROVE DirectoryInv'
    <2>1. PICK named \in SUBSET {"slug", "open", "enabled"},
               new \in [slug : DirectorySlugs, live : {TRUE}, enabled : BOOLEAN, open :
                  BOOLEAN] :
             Directory!OpenAllowed(new.slug, new.open, named)
             /\ directoryRow' = [directoryRow EXCEPT ![c] = new]
      BY <1>5 DEF Directory!PatchChannel
    <2>2. new \in DirectoryChannelRow
      BY DEF DirectoryChannelRow
    <2>3. directoryRow' \in [DirectoryChannels -> DirectoryChannelRow]
          /\ Directory!OpenIsLong'
          /\ \A d \in DirectoryChannels \ {c} : directoryRow'[d] = directoryRow[d]
      BY <2>1, <2>2, OneRowChanges DEF Directory!OpenAllowed
    <2>4. Directory!Moves(c) /\ directoryWalk' = directoryWalk
          /\ directoryFailed' = directoryFailed /\ directoryOff' = directoryOff
      BY <1>5 DEF Directory!PatchChannel
    <2>. QED BY <2>3, <2>4, MovedIsLeft DEF DirectoryInv, DirectoryRowsTyped
  <1>6. ASSUME NEW c \in DirectoryChannels, Directory!DeleteChannel(c) PROVE DirectoryInv'
    <2>. DEFINE new == [directoryRow[c] EXCEPT !.live = FALSE]
    <2>1. new \in DirectoryChannelRow /\ ~new.live
      BY DEF DirectoryInv, DirectoryRowsTyped, DirectoryChannelRow
    <2>2. directoryRow' = [directoryRow EXCEPT ![c] = new]
      BY <1>6 DEF Directory!DeleteChannel
    <2>. HIDE DEF new
    <2>3. directoryRow' \in [DirectoryChannels -> DirectoryChannelRow]
          /\ Directory!OpenIsLong'
          /\ \A d \in DirectoryChannels \ {c} : directoryRow'[d] = directoryRow[d]
      BY <2>1, <2>2, OneRowChanges
    <2>4. Directory!Moves(c) /\ directoryWalk' = directoryWalk
          /\ directoryFailed' = directoryFailed /\ directoryOff' = directoryOff
      BY <1>6 DEF Directory!DeleteChannel
    <2>. QED BY <2>3, <2>4, MovedIsLeft DEF DirectoryInv, DirectoryRowsTyped
  <1>7. ASSUME NEW c \in DirectoryChannels, Directory!CountsChange(c) PROVE DirectoryInv'
    <2>1. Directory!Moves(c) /\ directoryWalk' = directoryWalk
          /\ directoryRow' = directoryRow
      BY <1>7 DEF Directory!CountsChange
    <2>2. \/ \E n \in 0..DirectoryMaxFailures :
                directoryFailed' = [directoryFailed EXCEPT ![c] = n]
                /\ directoryOff' = directoryOff
          \/ \E n \in 0..DirectoryMaxOff :
                directoryOff' = [directoryOff EXCEPT ![c] = n]
                /\ directoryFailed' = directoryFailed
      BY <1>7 DEF Directory!CountsChange
    <2>3. /\ directoryFailed' \in [DirectoryChannels -> Int]
             /\ directoryOff' \in [DirectoryChannels -> Int]
          /\ \A d \in DirectoryChannels \ {c} :
                directoryFailed'[d] = directoryFailed[d]
                /\ directoryOff'[d] = directoryOff[d]
      BY <2>2 DEF DirectoryInv, DirectoryRowsTyped
    <2>. QED BY <2>1, <2>3, MovedIsLeft DEF DirectoryInv, DirectoryRowsTyped,
         Directory!OpenIsLong
  <1>. QED BY <1>1, <1>2, <1>3, <1>4, <1>5, <1>6, <1>7 DEF Directory!Next

\* What a walk shows of the Channels that stay where they are.
LEMMA StayersShownOnce == ASSUME DirectoryInv PROVE Directory!StayersListedOnce
  <1>. SUFFICES ASSUME NEW c \in DirectoryChannels \ directoryMoved
                PROVE  Directory!Times(c) <= 1
                       /\ (~directoryWalk.under /\ directoryWalk.shown # <<>> =>
                             Directory!Times(c) = 1)
    BY DEF Directory!StayersListedOnce
  <1>1. Nowhere(<<>>, c)
    BY DEF Nowhere
  <1>2. /\ Once(directoryWalk.shown, c) \/ Nowhere(directoryWalk.shown, c)
        /\ ~directoryWalk.under /\ directoryWalk.shown # <<>> =>
              Once(directoryWalk.shown, c)
    BY <1>1 DEF DirectoryInv, StayersFollow
  <1>3. (Once(directoryWalk.shown, c) => Directory!Times(c) = 1)
        /\ (Nowhere(directoryWalk.shown, c) => Directory!Times(c) = 0)
    <2>1. \A S : Directory!Cardinality(S) = Cardinality(S)
      BY DEF Directory!Cardinality, Cardinality
    <2>. QED BY <2>1, OnceIsOne DEF Directory!Times
  <1>. QED BY <1>2, <1>3

-----------------------------------------------------------------------------
(* The retention sweeper.                                                  *)

\* When the worker that is up started the n-th of its sweeps.
Started(n) == sweepDue - SweepInterval * (sweepCount + 1 - n)

SweeperTyped ==
    /\ sweepNow \in Nat /\ sweepReceived \in [SweepBroadcasts -> Nat \cup {NoTime}]
    /\ sweepWindow \in SweepWindows /\ sweepCount \in Nat /\ sweepSwept \in Nat
    /\ sweepSweeps \subseteq [cutoff : Int, days : SweepWindows, n : Nat]

\* A cutoff is of a moment gone by; that of a sweep of this worker is of the
\* tick the sweep was started with.
CutoffsAreOld ==
    \A s \in sweepSweeps :
        /\ s.cutoff + s.days <= sweepNow
        /\ s.n > 0 => /\ sweepUp /\ s.n <= sweepCount /\ s.days = sweepWindow
                      /\ s.cutoff + s.days = Started(s.n)

TicksAreOnTime ==
    IF sweepUp
    THEN /\ sweepDue \in Int /\ sweepNow <= sweepDue /\ sweepCount > 0
         /\ sweepSwept <= sweepCount
    ELSE sweepDue = NoTime

\* What the last sweep that succeeded has left, and what came since.
SweptIsGone ==
    sweepUp /\ sweepSwept > 0 =>
        /\ Started(sweepSwept) <= sweepNow
        /\ \A b \in SweepBroadcasts : sweepReceived[b] # NoTime =>
              sweepReceived[b] >= Started(sweepSwept) - sweepWindow

SweeperInv == SweeperTyped /\ CutoffsAreOld /\ TicksAreOnTime /\ SweptIsGone

LEMMA SweeperBegins ==
    ASSUME Sweeper!RetentionAssumption, Sweeper!Init PROVE SweeperInv
  BY DEF Sweeper!RetentionAssumption, Sweeper!Init, SweeperInv, SweeperTyped, CutoffsAreOld,
         TicksAreOnTime, SweptIsGone

LEMMA SweeperGoesOn ==
    ASSUME Sweeper!RetentionAssumption, SweeperInv, [Sweeper!Next]_sweepVars
    PROVE  SweeperInv'
  <1>. /\ SweepWindows \subseteq Nat \ {0} /\ SweepInterval \in Nat \ {0} /\ NoTime \notin Int
       /\ SweeperTyped /\ CutoffsAreOld /\ TicksAreOnTime /\ SweptIsGone
    BY DEF Sweeper!RetentionAssumption, SweeperInv
  <1>1. ASSUME NEW b \in SweepBroadcasts, Sweeper!Receive(b) PROVE SweeperInv'
    <2>. USE <1>1 DEF Sweeper!Receive, Sweeper!worker
    <2>1. SweeperTyped'
      BY DEF SweeperTyped
    <2>2. CutoffsAreOld' /\ TicksAreOnTime'
      BY DEF CutoffsAreOld, TicksAreOnTime, Started
    <2>3. SweptIsGone'
      <3>1. /\ Started(sweepSwept)' = Started(sweepSwept)
            /\ sweepNow \in Nat /\ sweepWindow \in Nat
        BY DEF Started, SweeperTyped
      <3>2. sweepUp => Started(sweepSwept) \in Int
        BY DEF Started, SweeperTyped, TicksAreOnTime
      <3>. HIDE DEF Started
      <3>. QED BY <3>1, <3>2 DEF SweptIsGone, SweeperTyped
    <2>. QED BY <2>1, <2>2, <2>3 DEF SweeperInv
  <1>2. ASSUME NEW days \in SweepWindows, Sweeper!Boot(days) PROVE SweeperInv'
    <2>. USE <1>2 DEF Sweeper!Boot
    <2>2. sweepSweeps' = sweepSweeps \cup {[cutoff |-> sweepNow - days, days |-> days,
         n |-> 1]}
      BY DEF Sweeper!AtBoot, Sweeper!Sweep
    <2>3. /\ sweepUp' /\ sweepCount' = 1 /\ sweepSwept' = 0
          /\ sweepDue' = sweepNow + SweepInterval
      BY DEF Sweeper!AtBoot
    <2>4. \A s \in sweepSweeps : s.n = 0
      BY DEF CutoffsAreOld, SweeperTyped
    <2>5. SweeperTyped'
      BY <2>2, <2>3 DEF SweeperTyped
    <2>6. TicksAreOnTime' /\ SweptIsGone'
      BY <2>3 DEF TicksAreOnTime, SweptIsGone, SweeperTyped
    <2>7. CutoffsAreOld'
      BY <2>2, <2>3, <2>4 DEF CutoffsAreOld, Started, SweeperTyped
    <2>. QED BY <2>5, <2>6, <2>7 DEF SweeperInv
  <1>3. CASE Sweeper!Tick
    <2>. USE <1>3 DEF Sweeper!Tick
    <2>1. sweepUp /\ sweepDue \in Int /\ sweepDue = sweepNow
      BY DEF TicksAreOnTime, SweeperTyped
    <2>2. ASSUME NEW n \in Nat PROVE Started(n)' = Started(n) /\ Started(n) \in Int
      BY <2>1 DEF Started, SweeperTyped
    <2>3. ASSUME NEW n \in Nat, n = sweepCount + 1 PROVE Started(n)' = sweepNow
      <3>1. /\ sweepCount' + 1 - n = 1 /\ sweepDue' = sweepNow + SweepInterval
            /\ SweepInterval * 1 = SweepInterval /\ sweepNow \in Nat
        BY <2>3 DEF SweeperTyped
      <3>. QED BY <3>1 DEF Started
    <2>4. sweepSweeps' = sweepSweeps \cup {[cutoff |-> sweepNow - sweepWindow,
                                            days |-> sweepWindow, n |-> sweepCount + 1]}
      BY DEF Sweeper!Sweep
    <2>5. SweeperTyped'
      BY <2>4 DEF SweeperTyped
    <2>6. TicksAreOnTime'
      BY <2>1 DEF TicksAreOnTime, SweeperTyped
    <2>7. CutoffsAreOld'
      <3>1. ASSUME NEW s \in sweepSweeps
            PROVE  /\ s.cutoff + s.days <= sweepNow'
                   /\ s.n > 0 => /\ sweepUp' /\ s.n <= sweepCount' /\ s.days = sweepWindow'
                                 /\ s.cutoff + s.days = Started(s.n)'
        BY <2>2 DEF CutoffsAreOld, SweeperTyped
      <3>. HIDE DEF Started
      <3>. QED BY <2>1, <2>3, <2>4, <3>1 DEF CutoffsAreOld, SweeperTyped
    <2>8. SweptIsGone'
      BY <2>2 DEF SweptIsGone, SweeperTyped
    <2>. QED BY <2>5, <2>6, <2>7, <2>8 DEF SweeperInv
  <1>4. CASE Sweeper!Stop
    <2>. USE <1>4 DEF Sweeper!Stop
    <2>1. ~sweepUp' /\ \A s \in sweepSweeps' : \E t \in sweepSweeps : s = [t EXCEPT !.n = 0]
      OBVIOUS
    <2>2. SweeperTyped' /\ \A s \in sweepSweeps' : s.n = 0 /\ s.cutoff + s.days <= sweepNow
      BY <2>1 DEF SweeperTyped, CutoffsAreOld
    <2>3. CutoffsAreOld' /\ TicksAreOnTime' /\ SweptIsGone'
      BY <2>1, <2>2 DEF CutoffsAreOld, TicksAreOnTime, SweptIsGone, SweeperTyped
    <2>. QED BY <2>2, <2>3 DEF SweeperInv
  <1>5. CASE Sweeper!Pass
    <2>. USE <1>5 DEF Sweeper!Pass, Sweeper!worker
    <2>1. SweeperTyped' /\ TicksAreOnTime'
      BY DEF SweeperTyped, TicksAreOnTime
    <2>2. CutoffsAreOld'
      <3>1. ASSUME NEW n \in Nat PROVE Started(n)' = Started(n)
        BY DEF Started
      <3>2. ASSUME NEW s \in sweepSweeps PROVE s.cutoff + s.days <= sweepNow + 1
        <4>1. s.cutoff \in Int /\ s.days \in Nat /\ sweepNow \in Nat
          BY DEF SweeperTyped
        <4>. QED BY <4>1 DEF CutoffsAreOld
      <3>3. \A s \in sweepSweeps : s.n \in Nat
        BY DEF SweeperTyped
      <3>. HIDE DEF Started
      <3>. QED BY <3>1, <3>2, <3>3 DEF CutoffsAreOld
    <2>3. SweptIsGone'
      <3>1. sweepUp => Started(sweepSwept)' = Started(sweepSwept) /\ Started(sweepSwept) \in Int
        BY DEF Started, SweeperTyped, TicksAreOnTime
      <3>. HIDE DEF Started
      <3>. QED BY <3>1 DEF SweptIsGone, SweeperTyped
    <2>. QED BY <2>1, <2>2, <2>3 DEF SweeperInv
  <1>6. ASSUME NEW s \in sweepSweeps, Sweeper!SweepDeletes(s) PROVE SweeperInv'
    <2>. USE <1>6 DEF Sweeper!SweepDeletes
    <2>1. ASSUME NEW b \in SweepBroadcasts, sweepReceived'[b] # NoTime
          PROVE  sweepReceived'[b] = sweepReceived[b] /\ sweepReceived[b] >= s.cutoff
      BY <2>1 DEF Sweeper!Older, SweeperTyped
    <2>2. SweeperTyped'
      BY DEF SweeperTyped
    <2>3. ASSUME NEW n \in Nat PROVE Started(n)' = Started(n)
      BY DEF Started
    <2>4. CutoffsAreOld' /\ TicksAreOnTime'
      <3>. HIDE DEF Started
      <3>. QED BY <2>3 DEF CutoffsAreOld, TicksAreOnTime, SweeperTyped
    <2>5. SweptIsGone'
      <3>1. CASE s.n > sweepSwept
        <4>1. s.n > 0 /\ s.n \in Nat
          BY <3>1 DEF SweeperTyped
        <4>2. Started(s.n) = s.cutoff + sweepWindow /\ Started(s.n) <= sweepNow
          BY <4>1 DEF CutoffsAreOld
        <4>. HIDE DEF Started
        <4>. QED BY <2>1, <2>3, <3>1, <4>1, <4>2 DEF SweptIsGone, SweeperTyped
      <3>2. CASE ~(s.n > sweepSwept)
        <4>. HIDE DEF Started
        <4>. QED BY <2>1, <2>3, <3>2 DEF SweptIsGone, SweeperTyped
      <3>. QED BY <3>1, <3>2
    <2>. QED BY <2>2, <2>4, <2>5 DEF SweeperInv
  <1>7. CASE UNCHANGED sweepVars \/ \E s \in sweepSweeps : Sweeper!SweepFails(s)
    BY <1>7 DEF sweepVars, Sweeper!SweepFails, SweeperInv, SweeperTyped, CutoffsAreOld,
                TicksAreOnTime, SweptIsGone, Started
  <1>. QED BY <1>1, <1>2, <1>3, <1>4, <1>5, <1>6, <1>7 DEF Sweeper!Next

\* The sweeper's part of DueInTime.
LEMMA SweptInTime ==
    ASSUME Sweeper!RetentionAssumption, SweeperInv PROVE Sweeper!OldGoesInTime
  <1>. SUFFICES ASSUME sweepUp, sweepSwept > 0 \/ sweepCount = 0,
                       NEW b \in SweepBroadcasts, sweepReceived[b] # NoTime
                PROVE  sweepNow - sweepReceived[b]
                          <= sweepWindow + SweepInterval * (sweepCount - sweepSwept + 1)
    BY DEF Sweeper!OldGoesInTime
  <1>1. /\ sweepNow <= sweepDue /\ sweepSwept > 0 /\ sweepDue \in Int /\ SweepInterval \in Nat
        /\ sweepWindow \in Nat /\ sweepNow \in Nat /\ sweepReceived[b] \in Nat
        /\ sweepCount \in Nat /\ sweepSwept \in Nat
    BY DEF SweeperInv, SweeperTyped, TicksAreOnTime, Sweeper!RetentionAssumption
  <1>2. sweepReceived[b] >= Started(sweepSwept) - sweepWindow
    BY <1>1 DEF SweeperInv, SweptIsGone
  <1>3. sweepCount + 1 - sweepSwept = sweepCount - sweepSwept + 1
    BY <1>1
  <1>4. SweepInterval * (sweepCount - sweepSwept + 1) \in Int
    BY <1>1
  <1>. QED BY <1>1, <1>2, <1>3, <1>4 DEF Started

\* The sweeper's part of LateStepsDoNoHarm.
LEMMA NoYoungRowIsSwept ==
    ASSUME Sweeper!RetentionAssumption, SweeperInv, [Sweeper!Next]_sweepVars
    PROVE  Sweeper!NothingYoungSweptStep
  <1>. SUFFICES ASSUME NEW b \in SweepBroadcasts, NEW s \in sweepSweeps,
       s \notin sweepSweeps',
                       sweepReceived[b] # NoTime, sweepReceived'[b] = NoTime
                PROVE  sweepNow - sweepReceived[b] > s.days
    BY DEF Sweeper!NothingYoungSweptStep
  <1>1. PICK t \in sweepSweeps : Sweeper!SweepDeletes(t)
    BY DEF SweeperInv, SweeperTyped, Sweeper!RetentionAssumption, sweepVars, Sweeper!Next,
           Sweeper!Receive, Sweeper!Boot, Sweeper!Tick, Sweeper!Stop, Sweeper!Pass,
           Sweeper!SweepFails, Sweeper!worker
  <1>2. s = t /\ sweepReceived[b] < s.cutoff
    BY <1>1 DEF Sweeper!SweepDeletes, Sweeper!Older
  <1>3. /\ t.cutoff + t.days <= sweepNow /\ t.cutoff \in Int /\ t.days \in Nat
        /\ sweepNow \in Nat /\ sweepReceived[b] \in Nat
    BY DEF SweeperInv, SweeperTyped, CutoffsAreOld, Sweeper!RetentionAssumption
  <1>. QED BY <1>2, <1>3

-----------------------------------------------------------------------------
(* The components with a module of proofs of their own: the instances of   *)
(* that module are the same state machines.                                *)

AuthP == INSTANCE OperatorAuthProofs WITH
    Tokens <- AuthTokens, Key <- TheKey, Calls <- AuthCalls, MaxTime <- AuthMaxTime,
    None <- NoValue, rows <- authRows, unminted <- authUnminted, call <- authCall,
    touches <- authTouches, clock <- authClock, gone <- authGone

LEMMA AuthIsSame ==
    /\ Auth!AuthAssumption <=> AuthP!AuthAssumption
    /\ Auth!Init <=> AuthP!Init
    /\ [Auth!Next]_authVars <=> [AuthP!Next]_(AuthP!vars)
  <1>1. Auth!Next <=> AuthP!Next
    BY DEF Auth!Next, AuthP!Next, Auth!Asks, AuthP!Asks, Auth!Request, AuthP!Request,
         Auth!Admit, AuthP!Admit, Auth!Refuse, AuthP!Refuse, Auth!Read, AuthP!Read,
         Auth!Revoke, AuthP!Revoke, Auth!Mint, AuthP!Mint, Auth!Touch, AuthP!Touch,
         Auth!LookedUp, AuthP!LookedUp, Auth!Found, AuthP!Found, Auth!Serves, AuthP!Serves,
         Auth!Touched, AuthP!Touched
  <1>2. Auth!Init <=> AuthP!Init
    BY DEF Auth!Init, AuthP!Init
  <1>3. UNCHANGED authVars <=> UNCHANGED AuthP!vars
    BY DEF authVars, AuthP!vars
  <1>4. Auth!AuthAssumption <=> AuthP!AuthAssumption
    BY DEF Auth!AuthAssumption, AuthP!AuthAssumption
  <1>. QED BY <1>1, <1>2, <1>3, <1>4

IngestingP == INSTANCE IngestProofs WITH
    Channels <- IngestChannels, Slugs <- IngestSlugs, Tokens <- IngestTokens,
    Endpoints <- IngestEndpoints, Requests <- IngestRequests, OwnerOf <- IngestOwnerOf,
    MaxBody <- IngestMaxBody, MaxChunk <- IngestMaxChunk, MaxChanges <- IngestMaxChanges,
    MaxFaults <- IngestMaxFaults, channel <- ingestChannel, owner <- ingestOwner,
    endpoint <- ingestEndpoint, request <- ingestRequest, broadcast <- ingestBroadcast,
    queued <- ingestQueued, changes <- ingestChanges, failures <- ingestFailures

LEMMA IngestingIsSame ==
    /\ Ingesting!IngestAssumption <=> IngestingP!IngestAssumption
    /\ Ingesting!Init <=> IngestingP!Init
    /\ [Ingesting!Next]_ingestVars <=> [IngestingP!Next]_(IngestingP!vars)
  <1>1. Ingesting!Next <=> IngestingP!Next
    BY DEF Ingesting!Next, IngestingP!Next, Ingesting!Operate, IngestingP!Operate,
         Ingesting!Step, IngestingP!Step, Ingesting!DeleteChannel,
         IngestingP!DeleteChannel, Ingesting!PatchChannel, IngestingP!PatchChannel,
         Ingesting!CreateChannel, IngestingP!CreateChannel, Ingesting!MintToken,
         IngestingP!MintToken, Ingesting!RevokeToken, IngestingP!RevokeToken,
         Ingesting!SwitchEndpoint, IngestingP!SwitchEndpoint, Ingesting!DeleteEndpoint,
         IngestingP!DeleteEndpoint, Ingesting!Lookup, IngestingP!Lookup,
         Ingesting!CheckToken, IngestingP!CheckToken, Ingesting!CheckLength,
         IngestingP!CheckLength, Ingesting!Data, IngestingP!Data, Ingesting!BodyEnds,
         IngestingP!BodyEnds, Ingesting!Guard, IngestingP!Guard, Ingesting!ReadOriginal,
         IngestingP!ReadOriginal, Ingesting!ReadEndpoints, IngestingP!ReadEndpoints,
         Ingesting!Commit, IngestingP!Commit, Ingesting!EnqueueBulk,
         IngestingP!EnqueueBulk, Ingesting!EnqueueFails, IngestingP!EnqueueFails,
         Ingesting!CommitReplyLost, IngestingP!CommitReplyLost, Ingesting!Refused,
         IngestingP!Refused, Ingesting!RollBack, IngestingP!RollBack, Ingesting!ApiDies,
         IngestingP!ApiDies, Ingesting!UnderWay, IngestingP!UnderWay, Ingesting!Fault,
         IngestingP!Fault, Ingesting!Committed, IngestingP!Committed,
         Ingesting!Live, IngestingP!Live, Ingesting!Change, IngestingP!Change,
         Ingesting!SlugFree, IngestingP!SlugFree, Ingesting!None, IngestingP!None,
         Ingesting!Revoked, IngestingP!Revoked, Ingesting!At, IngestingP!At,
         Ingesting!Waiting, IngestingP!Waiting, Ingesting!Barred, IngestingP!Barred,
         Ingesting!Holds, IngestingP!Holds, Ingesting!adminVars, IngestingP!adminVars,
         Ingesting!Entitles, IngestingP!Entitles, Ingesting!Answer, IngestingP!Answer,
         Ingesting!TooLarge, IngestingP!TooLarge, Ingesting!Insertable,
         IngestingP!Insertable, Ingesting!RolledBack, IngestingP!RolledBack,
         Ingesting!NoBroadcast, IngestingP!NoBroadcast
  <1>2. Ingesting!Init <=> IngestingP!Init
    BY DEF Ingesting!Init, IngestingP!Init, Ingesting!Live, IngestingP!Live,
         Ingesting!None, IngestingP!None, Ingesting!Waiting, IngestingP!Waiting,
         Ingesting!NoBroadcast, IngestingP!NoBroadcast
  <1>3. UNCHANGED ingestVars <=> UNCHANGED IngestingP!vars
    BY DEF ingestVars, IngestingP!vars
  <1>4. Ingesting!IngestAssumption <=> IngestingP!IngestAssumption
    BY DEF Ingesting!IngestAssumption, IngestingP!IngestAssumption, Ingesting!None,
         IngestingP!None, Ingesting!Revoked, IngestingP!Revoked
  <1>. QED BY <1>1, <1>2, <1>3, <1>4

AdminP == INSTANCE EndpointAdminProofs WITH
    Channels <- AdminChannels, Endpoints <- AdminEndpoints, Urls <- AdminUrls,
    Unsafe <- AdminUnsafe, Calls <- AdminCalls, First <- AdminFirst, Limit <- AdminLimit,
    MaxChanges <- AdminMaxChanges, None <- NoValue, live <- adminLive, row <- adminRow,
    minted <- adminMinted, call <- adminCall, walk <- adminWalk, changes <- adminChanges

\* One request, and one step of the list.
LEMMA AdminStepsAreSame ==
    /\ \A k, c, body : Admin!Request(k, c, body) <=> AdminP!Request(k, c, body)
    /\ \A k : /\ Admin!Create(k) <=> AdminP!Create(k)
              /\ Admin!Patch(k) <=> AdminP!Patch(k)
              /\ Admin!Delete(k) <=> AdminP!Delete(k)
    /\ \A e : Admin!AutoDisable(e) <=> AdminP!AutoDisable(e)
    /\ \A c : /\ Admin!DeleteChannel(c) <=> AdminP!DeleteChannel(c)
              /\ Admin!Begin(c) <=> AdminP!Begin(c)
    /\ Admin!Page <=> AdminP!Page
    /\ Admin!Close <=> AdminP!Close
  <1>1. \A k, c, body : Admin!Request(k, c, body) <=> AdminP!Request(k, c, body)
    BY DEF Admin!Request, AdminP!Request
  <1>2. Admin!Stayers <=> AdminP!Stayers
    BY DEF Admin!Stayers, AdminP!Stayers
  <1>3. \A k : Admin!Create(k) <=> AdminP!Create(k)
    BY <1>2 DEF Admin!Create, AdminP!Create, Admin!Asks, AdminP!Asks, Admin!Answer,
         AdminP!Answer, Admin!UrlFree, AdminP!UrlFree
  <1>4. \A k : Admin!Patch(k) <=> AdminP!Patch(k)
    BY <1>2 DEF Admin!Patch, AdminP!Patch, Admin!Asks, AdminP!Asks, Admin!Answer, AdminP!Answer,
         Admin!UrlFree, AdminP!UrlFree, Admin!Addressed, AdminP!Addressed, Admin!Patched,
         AdminP!Patched
  <1>5. \A k : Admin!Delete(k) <=> AdminP!Delete(k)
    BY <1>2 DEF Admin!Delete, AdminP!Delete, Admin!Asks, AdminP!Asks, Admin!Answer,
         AdminP!Answer, Admin!Addressed, AdminP!Addressed
  <1>6. \A e : Admin!AutoDisable(e) <=> AdminP!AutoDisable(e)
    BY DEF Admin!AutoDisable, AdminP!AutoDisable
  <1>7. \A c, cursor : Admin!After(c, cursor) = AdminP!After(c, cursor)
    BY DEF Admin!After, AdminP!After, Admin!KeyBefore, AdminP!KeyBefore, Admin!Key, AdminP!Key
  <1>8. \A c : /\ Admin!DeleteChannel(c) <=> AdminP!DeleteChannel(c)
               /\ Admin!Begin(c) <=> AdminP!Begin(c)
    BY <1>7 DEF Admin!DeleteChannel, AdminP!DeleteChannel, Admin!Begin, AdminP!Begin
  <1>9. \A c, cursor : Admin!Rows(c, cursor) = AdminP!Rows(c, cursor)
    BY DEF Admin!Rows, AdminP!Rows, Admin!InOrder, AdminP!InOrder, Admin!After, AdminP!After,
         Admin!KeyBefore, AdminP!KeyBefore, Admin!Key, AdminP!Key, Admin!Cardinality,
         AdminP!Cardinality
  <1>10. Admin!Page <=> AdminP!Page
    BY <1>9 DEF Admin!Page, AdminP!Page, Admin!PageOf, AdminP!PageOf, Admin!NextCursor,
         AdminP!NextCursor, Admin!Key, AdminP!Key
  <1>11. Admin!Close <=> AdminP!Close
    BY DEF Admin!Close, AdminP!Close
  <1>. QED BY <1>1, <1>3, <1>4, <1>5, <1>6, <1>8, <1>10, <1>11

LEMMA AdminIsSame ==
    /\ Admin!AdminAssumption <=> AdminP!AdminAssumption
    /\ Admin!Init <=> AdminP!Init
    /\ [Admin!Next]_adminVars <=> [AdminP!Next]_(AdminP!vars)
  <1>1. Admin!Bodies = AdminP!Bodies
    BY DEF Admin!Bodies, AdminP!Bodies
  <1>2. Admin!Next <=> AdminP!Next
    BY <1>1, AdminStepsAreSame DEF Admin!Next, AdminP!Next
  <1>3. UNCHANGED adminVars <=> UNCHANGED AdminP!vars
    BY DEF adminVars, AdminP!vars
  <1>4. Admin!Endpoint = AdminP!Endpoint
    BY DEF Admin!Endpoint, AdminP!Endpoint
  <1>5. \A S : Admin!IsFiniteSet(S) <=> AdminP!IsFiniteSet(S)
    BY DEF Admin!IsFiniteSet, AdminP!IsFiniteSet
  <1>6. Admin!AdminAssumption <=> AdminP!AdminAssumption
    BY <1>4, <1>5 DEF Admin!AdminAssumption, AdminP!AdminAssumption
  <1>7. Admin!Init <=> AdminP!Init
    BY DEF Admin!Init, AdminP!Init
  <1>. QED BY <1>2, <1>3, <1>6, <1>7

-----------------------------------------------------------------------------
(* The mark of the auto-disable: the fields of the row that are not dates   *)
(* of Deliveries are all there is to it.                                    *)

DisableInv ==
    /\ disableEndpoint = [present |-> disableEndpoint.present,
                          enabled |-> disableEndpoint.enabled,
                          autoDisabledAt |-> disableEndpoint.autoDisabledAt]
    /\ Disable!AutoDisabledIsOff

LEMMA DisableBegins == ASSUME Disable!Init PROVE DisableInv
  <1>1. disableEndpoint = [present |-> TRUE, enabled |-> TRUE,
                           autoDisabledAt |-> Disable!Never]
    BY DEF Disable!Init
  <1>. QED BY <1>1 DEF DisableInv, Disable!AutoDisabledIsOff

LEMMA DisableGoesOn == ASSUME DisableInv, [Disable!Next]_disableVars PROVE DisableInv'
  <1>. USE DEF DisableInv, Disable!AutoDisabledIsOff
  <1>1. ASSUME NEW p \in DisableProcessors, Disable!Disable(p) PROVE DisableInv'
    BY <1>1 DEF Disable!Disable
  <1>2. ASSUME NEW on \in BOOLEAN, Disable!Patch(on) PROVE DisableInv'
    BY <1>2 DEF Disable!Patch, Disable!Patched
  <1>3. CASE Disable!DeleteEndpoint
    BY <1>3 DEF Disable!DeleteEndpoint
  <1>4. CASE UNCHANGED disableEndpoint
    BY <1>4
  <1>. HIDE DEF DisableInv
  <1>5. ASSUME NEW p \in DisableProcessors, Disable!Processor(p)
        PROVE  UNCHANGED disableEndpoint \/ Disable!Disable(p)
    BY <1>5 DEF Disable!Processor, Disable!Try, Disable!Complete, Disable!ReadEndpoint,
       Disable!ReadLastSuccess, Disable!ReadStreak, Disable!Abandon
  <1>6. ASSUME NEW d \in DisableDeliveries, Disable!Retry(d) \/ Disable!Sweep(d)
        PROVE  UNCHANGED disableEndpoint
    BY <1>6 DEF Disable!Retry, Disable!Sweep
  <1>7. Disable!Tick \/ UNCHANGED disableVars => UNCHANGED disableEndpoint
    BY DEF Disable!Tick, disableVars
  <1>. QED BY <1>1, <1>2, <1>3, <1>4, <1>5, <1>6, <1>7 DEF Disable!Next

-----------------------------------------------------------------------------
(* The waits between the Attempts, for every base, cap and number of       *)
(* Attempts, whatever numbers and dates an Endpoint sends, and however     *)
(* long the POST and its recording take.                                   *)

\* What is about to be recorded waits for what was asked from when it was asked.
Promised ==
    schedulePhase = "recording" /\ scheduleAsked.until # Undefined =>
        /\ scheduleRetryAfterMs # Undefined
        /\ scheduleAsked.at <= scheduleNow
        /\ scheduleAsked.until <= scheduleAsked.at + scheduleRetryAfterMs

\* A job that is not over has Attempts left.
BudgetLeft == schedulePhase # "closed" => scheduleAttemptCount < ScheduleMaxAttempts

ScheduleInv ==
    /\ Schedule!TypeOK /\ BudgetLeft /\ Promised
    /\ Schedule!WaitBounded /\ Schedule!AskedIsWaited

LEMMA ScheduleBegins == ASSUME Schedule!ScheduleAssumption, Schedule!Init PROVE ScheduleInv
  <1>. USE DEF Schedule!ScheduleAssumption, Schedule!Init, Schedule!Nothing
  <1>1. Schedule!TypeOK
    BY DEF Schedule!TypeOK, Schedule!Codes
  <1>2. BudgetLeft /\ Promised /\ Schedule!WaitBounded /\ Schedule!AskedIsWaited
    BY DEF BudgetLeft, Promised, Schedule!WaitBounded, Schedule!AskedIsWaited
  <1>. QED BY <1>1, <1>2 DEF ScheduleInv

\* parseRetryAfterMs is never negative, and never less than what was asked.
LEMMA HeaderParsed ==
    ASSUME Schedule!ScheduleAssumption, scheduleNow \in Nat,
           NEW header \in Schedule!Headers, header.kind # "unread"
    PROVE  /\ header.value \in Int /\ Schedule!ParseRetryAfter(header) \in Nat
           /\ header.kind = "date" =>
                 header.value <= scheduleNow + Schedule!ParseRetryAfter(header)
           /\ header.kind # "date" =>
                 scheduleNow + header.value <= scheduleNow + Schedule!ParseRetryAfter(header)
  <1>1. header.value \in Int
    BY DEF Schedule!ScheduleAssumption, Schedule!Headers
  <1>. QED BY <1>1 DEF Schedule!ParseRetryAfter, Schedule!NotNegative

\* computeBackoffDelayMs is within the cap, and waits as asked up to it.
LEMMA DelayInCap ==
    ASSUME Schedule!ScheduleAssumption, NEW n,
           NEW wait \in Nat \cup {Undefined}, NEW d \in Schedule!Delays(n, wait)
    PROVE  d \in 0..ScheduleCap /\ (wait # Undefined => d = wait \/ d = ScheduleCap)
  <1>1. CASE wait = Undefined
    BY <1>1 DEF Schedule!Delays, Schedule!Jittered
  <1>2. CASE wait # Undefined
    BY <1>2 DEF Schedule!Delays, Schedule!ScheduleAssumption
  <1>. QED BY <1>1, <1>2

\* A delay of at most the cap is a wait of at most the cap.
LEMMA WaitTypes ==
    ASSUME Schedule!ScheduleAssumption, Schedule!TypeOK, NEW d \in 0..ScheduleCap,
           Schedule!Wait(d), scheduleNow' = scheduleNow
    PROVE  scheduleDue' \in Nat /\ Schedule!WaitBounded' /\ schedulePhase' = "delayed"
  BY DEF Schedule!ScheduleAssumption, Schedule!TypeOK, Schedule!Wait, Schedule!WaitBounded

LEMMA AttemptKeepsSchedule ==
    ASSUME Schedule!ScheduleAssumption, ScheduleInv, Schedule!Attempt
    PROVE  ScheduleInv'
  BY DEF ScheduleInv, Schedule!Attempt, Schedule!TypeOK, BudgetLeft, Promised,
       Schedule!WaitBounded, Schedule!AskedIsWaited

LEMMA AnswerKeepsSchedule ==
    ASSUME Schedule!ScheduleAssumption, ScheduleInv, NEW code \in Schedule!Codes,
           NEW header \in Schedule!Headers, Schedule!Answer(code, header)
    PROVE  ScheduleInv'
  <1>. USE DEF Schedule!Answer
  <1>1. CASE code = "throttled" /\ header.kind # "unread"
    <2>1. scheduleNow \in Nat
      BY DEF ScheduleInv, Schedule!TypeOK
    <2>2. /\ header.value \in Int /\ Schedule!ParseRetryAfter(header) \in Nat
          /\ header.kind = "date" =>
                 header.value <= scheduleNow + Schedule!ParseRetryAfter(header)
          /\ header.kind # "date" =>
                 scheduleNow + header.value <= scheduleNow + Schedule!ParseRetryAfter(header)
      BY <1>1, <2>1, HeaderParsed
    <2>. DEFINE u == IF header.kind = "date" THEN header.value ELSE scheduleNow + header.value
    <2>3. u \in Int /\ u <= scheduleNow + Schedule!ParseRetryAfter(header)
      BY <2>1, <2>2
    <2>4. scheduleAsked' = [at |-> scheduleNow, until |-> u]
          /\ scheduleRetryAfterMs' = Schedule!ParseRetryAfter(header)
      BY <1>1
    <2>. HIDE DEF u
    <2>5. Schedule!TypeOK'
      BY <2>1, <2>2, <2>3, <2>4 DEF ScheduleInv, Schedule!TypeOK
    <2>6. Promised'
      BY <2>1, <2>2, <2>3, <2>4 DEF Promised, Schedule!ScheduleAssumption
    <2>. QED BY <2>5, <2>6 DEF ScheduleInv, BudgetLeft, Schedule!WaitBounded,
         Schedule!AskedIsWaited
  <1>2. CASE ~(code = "throttled" /\ header.kind # "unread")
    <2>1. scheduleAsked' = Schedule!Nothing /\ scheduleRetryAfterMs' = Undefined
      BY <1>2 DEF Schedule!ParseRetryAfter
    <2>2. Schedule!TypeOK'
      BY <2>1 DEF ScheduleInv, Schedule!TypeOK, Schedule!Nothing
    <2>3. Promised'
      BY <2>1 DEF Promised, Schedule!Nothing
    <2>. QED BY <2>2, <2>3 DEF ScheduleInv, BudgetLeft, Schedule!WaitBounded,
         Schedule!AskedIsWaited
  <1>. QED BY <1>1, <1>2

LEMMA RecordKeepsSchedule ==
    ASSUME Schedule!ScheduleAssumption, ScheduleInv, Schedule!Record
    PROVE  ScheduleInv'
  <1>1. scheduleAttemptCount' = scheduleAttemptCount + 1 /\ scheduleAttemptCount \in Nat
        /\ scheduleAttemptCount < ScheduleMaxAttempts
    BY DEF ScheduleInv, Schedule!TypeOK, BudgetLeft, Schedule!Record,
         Schedule!ScheduleAssumption
  <1>2. CASE schedulePhase' = "closed" /\ UNCHANGED scheduleDue
    BY <1>1, <1>2 DEF Schedule!Record, ScheduleInv, Schedule!TypeOK, BudgetLeft, Promised,
         Schedule!WaitBounded, Schedule!AskedIsWaited,
                      Schedule!ScheduleAssumption
  <1>3. CASE /\ scheduleAttemptCount + 1 < ScheduleMaxAttempts
             /\ \E d \in Schedule!Delays(scheduleAttemptCount + 1, scheduleRetryAfterMs) :
                   Schedule!Wait(d)
    <2>1. PICK d \in Schedule!Delays(scheduleAttemptCount + 1, scheduleRetryAfterMs) :
             Schedule!Wait(d)
      BY <1>3
    <2>2. d \in 0..ScheduleCap
          /\ (scheduleRetryAfterMs # Undefined => d = scheduleRetryAfterMs \/ d = ScheduleCap)
      BY <2>1, DelayInCap DEF ScheduleInv, Schedule!TypeOK
    <2>3. scheduleDue' \in Nat /\ Schedule!WaitBounded' /\ schedulePhase' = "delayed"
      BY <2>1, <2>2, WaitTypes DEF ScheduleInv, Schedule!Record
    <2>4. Schedule!TypeOK'
      BY <1>1, <1>3, <2>3 DEF ScheduleInv, Schedule!TypeOK, Schedule!Record,
           Schedule!ScheduleAssumption
    <2>5. Schedule!AskedIsWaited'
      <3> SUFFICES ASSUME scheduleAsked.until # Undefined
                   PROVE  scheduleDue' >= scheduleAsked.until
                          \/ scheduleDue' >= scheduleAsked.at + ScheduleCap
        BY DEF Schedule!Record, Schedule!AskedIsWaited
      <3>1. /\ scheduleRetryAfterMs \in Nat /\ scheduleAsked.at <= scheduleNow
            /\ scheduleAsked.until <= scheduleAsked.at + scheduleRetryAfterMs
            /\ d = scheduleRetryAfterMs \/ d = ScheduleCap
        BY <2>2 DEF ScheduleInv, Schedule!TypeOK, Promised, Schedule!Record
      <3>2. scheduleAsked.at \in Nat /\ scheduleAsked.until \in Int /\ scheduleNow \in Nat
            /\ scheduleDue' = scheduleNow + d
        BY <2>1 DEF ScheduleInv, Schedule!TypeOK, Schedule!Wait
      <3>. QED BY <3>1, <3>2 DEF Schedule!ScheduleAssumption
    <2>. QED BY <1>1, <1>3, <2>3, <2>4, <2>5 DEF ScheduleInv, BudgetLeft, Promised
  <1>. QED BY <1>2, <1>3 DEF Schedule!Record

LEMMA FailureKeepsSchedule ==
    ASSUME Schedule!ScheduleAssumption, ScheduleInv, Schedule!PersistFails
    PROVE  ScheduleInv'
  <1>1. PICK d \in Schedule!Jittered(scheduleAttemptCount + 1) : Schedule!Wait(d)
    BY DEF Schedule!PersistFails
  <1>2. d \in 0..ScheduleCap
    BY DEF Schedule!Jittered
  <1>3. scheduleDue' \in Nat /\ Schedule!WaitBounded' /\ schedulePhase' = "delayed"
    BY <1>1, <1>2, WaitTypes DEF ScheduleInv, Schedule!PersistFails
  <1>4. Schedule!TypeOK'
    BY <1>3 DEF ScheduleInv, Schedule!TypeOK, Schedule!PersistFails, Schedule!Nothing,
         Schedule!ScheduleAssumption
  <1>5. Schedule!AskedIsWaited' /\ Promised'
    BY <1>3 DEF Schedule!PersistFails, Schedule!Nothing, Schedule!AskedIsWaited, Promised
  <1>. QED BY <1>3, <1>4, <1>5 DEF ScheduleInv, BudgetLeft, Schedule!PersistFails

LEMMA TickKeepsSchedule ==
    ASSUME Schedule!ScheduleAssumption, ScheduleInv, Schedule!Tick
    PROVE  ScheduleInv'
  BY DEF Schedule!ScheduleAssumption, ScheduleInv, Schedule!Tick, Schedule!TypeOK,
       BudgetLeft, Promised, Schedule!WaitBounded, Schedule!AskedIsWaited

\* The invariant is inductive.
LEMMA ScheduleGoesOn ==
    ASSUME Schedule!ScheduleAssumption, ScheduleInv, [Schedule!Next]_scheduleVars
    PROVE  ScheduleInv'
  <1>1. CASE Schedule!Attempt
    BY <1>1, AttemptKeepsSchedule
  <1>2. CASE \E code \in Schedule!Codes, header \in Schedule!Headers :
               Schedule!Answer(code, header)
    BY <1>2, AnswerKeepsSchedule
  <1>3. CASE Schedule!Record
    BY <1>3, RecordKeepsSchedule
  <1>4. CASE Schedule!PersistFails
    BY <1>4, FailureKeepsSchedule
  <1>5. CASE Schedule!Tick
    BY <1>5, TickKeepsSchedule
  <1>6. CASE UNCHANGED scheduleVars
    BY <1>6 DEF scheduleVars, ScheduleInv, Schedule!TypeOK, BudgetLeft, Promised,
         Schedule!WaitBounded, Schedule!AskedIsWaited
  <1>. QED BY <1>1, <1>2, <1>3, <1>4, <1>5, <1>6 DEF Schedule!Next

\* No answer of an Endpoint puts the next Attempt off by more than the cap, and
\* a throttling Endpoint is left alone for as long as it asked, up to the cap.
\* This is RetrySchedule's own specification, whose clock need not be bounded
\* with those of the other components.
THEOREM RetriesAreTimely ==
    ASSUME Schedule!ScheduleAssumption
    PROVE  Schedule!Spec => [](Schedule!WaitBounded /\ Schedule!AskedIsWaited)
  <1>1. Schedule!Init => ScheduleInv
    BY ScheduleBegins
  <1>2. ScheduleInv /\ [Schedule!Next]_(Schedule!vars) => ScheduleInv'
    BY ScheduleGoesOn DEF scheduleVars, Schedule!vars
  <1>3. ScheduleInv => Schedule!WaitBounded /\ Schedule!AskedIsWaited
    BY DEF ScheduleInv
  <1>. QED BY <1>1, <1>2, <1>3, PTL DEF Schedule!Spec

-----------------------------------------------------------------------------
(* The headers of a Broadcast.                                             *)

\* What was kept was not denied when it came, and a content type that was
\* sent is the one that is stored.
KeptWasAllowed ==
    relayStored # NoValue =>
        /\ RelayDenied \subseteq relayStored.denied
        /\ relayStored.headers \cap relayStored.denied = {}
        /\ Relay!Type \in relayStored.headers => relayStored.type = "producer"

RelayInv == Relay!TypeOK /\ KeptWasAllowed

LEMMA RelayBegins == ASSUME Relay!HeaderAssumption, Relay!Init PROVE RelayInv
  BY DEF Relay!HeaderAssumption, Relay!Init, RelayInv, Relay!TypeOK, KeptWasAllowed

LEMMA RelayGoesOn ==
    ASSUME Relay!HeaderAssumption, RelayInv, [Relay!Next]_relayVars PROVE RelayInv'
  <1>. USE DEF Relay!HeaderAssumption, RelayInv, Relay!TypeOK, KeptWasAllowed
  <1>1. ASSUME NEW a \in SUBSET (RelayNames \ {Relay!Type}),
               NEW d \in SUBSET (RelayNames \ {Relay!Type}), Relay!Restart(a, d)
        PROVE  RelayInv'
    BY <1>1 DEF Relay!Restart
  <1>2. ASSUME NEW sent \in SUBSET RelayNames, Relay!Accept(sent) PROVE RelayInv'
    <2>1. /\ relayStored'.headers = {name \in sent : Relay!Kept(name)}
          /\ relayStored'.type = IF Relay!Type \in sent THEN "producer" ELSE "default"
          /\ relayStored'.denied = relayDeny
          /\ UNCHANGED <<relayAllow, relayDeny, relayForward, relayOwn>>
      BY <1>2 DEF Relay!Accept
    <2>2. Relay!TypeOK'
      BY <2>1
    <2>3. KeptWasAllowed'
      BY <2>1 DEF Relay!Kept
    <2>. QED BY <2>2, <2>3
  <1>3. ASSUME NEW list \in Relay!Lists(Relay!Spelled \cup {BlankName}),
               Relay!SetForward(list)
        PROVE  RelayInv'
    BY <1>3 DEF Relay!SetForward, Relay!Lists
  <1>4. ASSUME NEW keys \in Relay!Lists(Relay!Spelled), Relay!SetOwn(keys) PROVE RelayInv'
    BY <1>4 DEF Relay!SetOwn, Relay!Lists
  <1>5. CASE UNCHANGED relayVars
    BY <1>5 DEF relayVars
  <1>. HIDE DEF RelayInv
  <1>. QED BY <1>1, <1>2, <1>3, <1>4, <1>5 DEF Relay!Next

\* The names an Endpoint sets itself.
OwnNames == {key.name : key \in relayOwn}

\* What goes out under a name: the Endpoint's value before the producer's, and
\* the Broadcast's content type before either.
LEMMA WhatGoesOut ==
    ASSUME RelayInv, relayStored # NoValue, NEW name \in RelayNames
    PROVE  Relay!OnWire(name) =
              IF name = Relay!Type THEN {relayStored.type}
              ELSE IF name \in OwnNames THEN {"endpoint"}
              ELSE IF name \in relayStored.headers \cap Relay!Asked THEN {"producer"}
              ELSE {}
  <1>. DEFINE theirs == Relay!ByLowercaseName(Relay!Forwarded)
              own == Relay!ByLowercaseName({Relay!Entry(key, "endpoint") : key \in relayOwn})
              type == {Relay!Entry(Relay!Lower(Relay!Type), relayStored.type)}
              merged == Relay!Spread(theirs, own)
  <1>1. \A k, v : Relay!Entry(k, v).key = k /\ Relay!Entry(k, v).value = v
    BY DEF Relay!Entry
  <1>2. \A n : Relay!Lower(n).name = n
    BY DEF Relay!Lower
  <1>3. /\ \A e \in theirs : /\ e.value = "producer" /\ e.key = Relay!Lower(e.key.name)
                             /\ e.key.name \in relayStored.headers \cap Relay!Asked
        /\ \A n \in relayStored.headers \cap Relay!Asked :
              \E e \in theirs : e.key = Relay!Lower(n)
    <2>1. ASSUME NEW e \in theirs
          PROVE  \E n \in relayStored.headers \cap Relay!Asked :
                    e = Relay!Entry(Relay!Lower(n), "producer")
      BY <1>1, <1>2 DEF Relay!ByLowercaseName, Relay!Forwarded
    <2>2. ASSUME NEW n \in relayStored.headers \cap Relay!Asked
          PROVE  Relay!Entry(Relay!Lower(n), "producer") \in theirs
      <3>. DEFINE e == Relay!Entry(Relay!Lower(n), "producer")
      <3>1. e \in Relay!Forwarded
        BY DEF Relay!Forwarded
      <3>2. Relay!Entry(Relay!Lower(e.key.name), e.value) = e
        BY <1>1, <1>2
      <3>. QED BY <3>1, <3>2 DEF Relay!ByLowercaseName
    <2>. HIDE DEF theirs
    <2>. QED BY <1>1, <1>2, <2>1, <2>2
  <1>4. /\ \A e \in own : /\ e.value = "endpoint" /\ e.key = Relay!Lower(e.key.name)
                          /\ e.key.name \in OwnNames
        /\ \A n \in OwnNames : \E e \in own : e.key = Relay!Lower(n)
    <2>1. ASSUME NEW e \in own
          PROVE  \E key \in relayOwn : e = Relay!Entry(Relay!Lower(key.name), "endpoint")
      BY <1>1, <1>2 DEF Relay!ByLowercaseName
    <2>2. ASSUME NEW key \in relayOwn
          PROVE  Relay!Entry(Relay!Lower(key.name), "endpoint") \in own
      <3>. DEFINE e == Relay!Entry(key, "endpoint")
      <3>1. Relay!Entry(Relay!Lower(e.key.name), e.value) \in own
        BY DEF Relay!ByLowercaseName
      <3>. QED BY <1>1, <3>1
    <2>. HIDE DEF own
    <2>. QED BY <1>1, <1>2, <2>1, <2>2 DEF OwnNames
  <1>5. \A e \in type : e.value = relayStored.type /\ e.key = Relay!Lower(Relay!Type)
    BY DEF Relay!Entry, Relay!Lower
  <1>7. Relay!Request = Relay!Spread(merged, type)
    BY DEF Relay!Request
  <1>. HIDE DEF theirs, own
  <1>8. /\ \A e \in merged : \/ e \in own
                             \/ e \in theirs /\ e.key.name \notin OwnNames
        /\ \A e \in own : e \in merged
        /\ \A e \in theirs : e.key.name \notin OwnNames => e \in merged
        /\ \A e \in merged : e.key = Relay!Lower(e.key.name)
    BY <1>3, <1>4, <1>2 DEF Relay!Spread
  <1>. HIDE DEF merged
  <1>9. \A e \in Relay!Request : e \in type \/ (e \in merged /\ e.key.name # Relay!Type)
    BY <1>5, <1>7, <1>8, <1>2 DEF Relay!Spread
  <1>10. /\ type \subseteq Relay!Request
         /\ \A e \in merged : e.key.name # Relay!Type => e \in Relay!Request
    BY <1>5, <1>7, <1>8, <1>2 DEF Relay!Spread
  <1>11. \E e \in type : TRUE
    OBVIOUS
  <1>. HIDE DEF type
  <1>12. CASE name = Relay!Type
    BY <1>12, <1>5, <1>2, <1>9, <1>10, <1>11 DEF Relay!OnWire
  <1>13. CASE name # Relay!Type /\ name \in OwnNames
    <2>1. PICK e \in own : e.key.name = name
      BY <1>13, <1>4, <1>2
    <2>2. e \in Relay!Request /\ e.value = "endpoint"
      BY <1>13, <2>1, <1>4, <1>8, <1>10
    <2>3. ASSUME NEW d \in Relay!Request, d.key.name = name PROVE d.value = "endpoint"
      BY <1>13, <2>3, <1>9, <1>5, <1>2, <1>8, <1>4
    <2>. QED BY <1>13, <2>1, <2>2, <2>3 DEF Relay!OnWire
  <1>14. CASE /\ name # Relay!Type /\ name \notin OwnNames
              /\ name \in relayStored.headers \cap Relay!Asked
    <2>1. PICK e \in theirs : e.key.name = name
      BY <1>14, <1>3, <1>2
    <2>2. e \in Relay!Request /\ e.value = "producer"
      BY <1>14, <2>1, <1>3, <1>8, <1>10
    <2>3. ASSUME NEW d \in Relay!Request, d.key.name = name PROVE d.value = "producer"
      BY <1>14, <2>3, <1>9, <1>5, <1>2, <1>8, <1>4, <1>3
    <2>. QED BY <1>14, <2>1, <2>2, <2>3 DEF Relay!OnWire
  <1>15. CASE /\ name # Relay!Type /\ name \notin OwnNames
              /\ name \notin relayStored.headers \cap Relay!Asked
    <2>1. ASSUME NEW d \in Relay!Request, d.key.name = name PROVE FALSE
      BY <1>15, <2>1, <1>9, <1>5, <1>2, <1>8, <1>4, <1>3
    <2>. QED BY <1>15, <2>1 DEF Relay!OnWire
  <1>. QED BY <1>12, <1>13, <1>14, <1>15

\* The fingerprints are of the names asked for that came.
LEMMA WhatIsMarked ==
    ASSUME Relay!HeaderAssumption, RelayInv, relayStored # NoValue
    PROVE  /\ Relay!Fingerprints = NoValue <=> Relay!Asked = {}
           /\ Relay!Asked # {} => Relay!Fingerprints = relayStored.headers \cap Relay!Asked
           /\ Relay!Asked = {} <=> relayForward \subseteq {BlankName}
  <1>1. {entry.key.name : entry \in Relay!Forwarded} = relayStored.headers \cap Relay!Asked
    <2>1. \A k, v : Relay!Entry(k, v).key = k
      BY DEF Relay!Entry
    <2>2. \A n : Relay!Lower(n).name = n
      BY DEF Relay!Lower
    <2>3. ASSUME NEW entry \in Relay!Forwarded
          PROVE  entry.key.name \in relayStored.headers \cap Relay!Asked
      BY <2>1, <2>2 DEF Relay!Forwarded
    <2>4. ASSUME NEW n \in relayStored.headers \cap Relay!Asked
          PROVE  \E entry \in Relay!Forwarded : entry.key.name = n
      <3>1. Relay!Entry(Relay!Lower(n), "producer") \in Relay!Forwarded
        BY DEF Relay!Forwarded
      <3>. QED BY <2>1, <2>2, <3>1
    <2>. QED BY <2>3, <2>4
  <1>2. relayStored.headers \cap Relay!Asked # NoValue
    BY DEF RelayInv, Relay!TypeOK, Relay!HeaderAssumption
  <1>3. Relay!Asked = {} <=> relayForward \subseteq {BlankName}
    BY DEF Relay!Asked
  <1>. QED BY <1>1, <1>2, <1>3 DEF Relay!Fingerprints

LEMMA HeadersArePickedRight ==
    ASSUME Relay!HeaderAssumption, RelayInv
    PROVE  Relay!DeniedStaysHere /\ Relay!EndpointWins /\ Relay!FingerprintsMatch
  <1>. SUFFICES ASSUME relayStored # NoValue
                PROVE  Relay!DeniedStaysHere /\ Relay!EndpointWins /\ Relay!FingerprintsMatch
    BY DEF Relay!DeniedStaysHere, Relay!EndpointWins, Relay!FingerprintsMatch
  <1>1. /\ relayStored.headers \subseteq RelayNames /\ relayStored.denied \subseteq RelayNames
        /\ RelayDenied \subseteq RelayNames /\ Relay!Type \in RelayNames
        /\ RelayDenied \subseteq relayStored.denied
        /\ relayStored.headers \cap relayStored.denied = {}
        /\ Relay!Type \in relayStored.headers => relayStored.type = "producer"
    BY DEF RelayInv, Relay!TypeOK, KeptWasAllowed, Relay!HeaderAssumption
  <1>2. Relay!DeniedStaysHere
    <2>1. ASSUME NEW name \in (RelayDenied \cup relayStored.denied) \ {Relay!Type}
          PROVE  "producer" \notin Relay!OnWire(name)
      BY <1>1, WhatGoesOut
    <2>. QED BY <2>1 DEF Relay!DeniedStaysHere
  <1>3. Relay!EndpointWins
    <2>1. Relay!Cardinality({}) = 0 /\ \A v : Relay!Cardinality({v}) = 1
      BY FS_EmptySet, FS_Singleton DEF Relay!Cardinality, Cardinality
    <2>2. ASSUME NEW name \in RelayNames \ {Relay!Type}
          PROVE  /\ Relay!Cardinality(Relay!OnWire(name)) <= 1
                 /\ name \in OwnNames => Relay!OnWire(name) = {"endpoint"}
      <3>1. \/ Relay!OnWire(name) = {} \/ Relay!OnWire(name) = {"endpoint"}
            \/ Relay!OnWire(name) = {"producer"}
        BY WhatGoesOut
      <3>2. Relay!Cardinality(Relay!OnWire(name)) \in {0, 1}
        BY <2>1, <3>1
      <3>3. name \in OwnNames => Relay!OnWire(name) = {"endpoint"}
        BY WhatGoesOut
      <3>. QED BY <3>2, <3>3
    <2>3. Relay!OnWire(Relay!Type) = {relayStored.type}
      BY <1>1, WhatGoesOut
    <2>4. \A name : (\E key \in relayOwn : key.name = name) => name \in OwnNames
      BY DEF OwnNames
    <2>. QED BY <2>2, <2>3, <2>4 DEF Relay!EndpointWins
  <1>4. Relay!FingerprintsMatch
    <2>1. ASSUME NEW name \in RelayNames \ OwnNames,
                 name \in relayStored.headers \cap Relay!Asked
          PROVE  Relay!OnWire(name) = {"producer"}
      BY <1>1, <2>1, WhatGoesOut
    <2>2. ASSUME NEW name \in RelayNames \ {Relay!Type}, "producer" \in Relay!OnWire(name)
          PROVE  name \in relayStored.headers \cap Relay!Asked
      BY <2>2, WhatGoesOut
    <2>. QED BY <2>1, <2>2, WhatIsMarked DEF Relay!FingerprintsMatch, OwnNames
  <1>. QED BY <1>2, <1>3, <1>4

-----------------------------------------------------------------------------
(* The failures of a Channel by Endpoint.                                  *)

RollInv ==
    /\ rollFailing \in [RollEndpoints -> {"no", "failed", "dead", "off"}]
    /\ rollPoll \in Seq(RollEndpoints) \cup {NoRows}
    /\ rollData \in Seq(RollEndpoints) \cup {NoRows}
    /\ Rollup!Live \subseteq rollKnown /\ rollKnown \subseteq RollEndpoints
    /\ rollDefault \in RollEndpoints \cup {NoEndpoint}
    /\ rollParam \in Seq(RollEndpoints) \cup {Absent}
    /\ rollParam = Absent /\ Rollup!Live # {} => rollDefault # NoEndpoint

\* The roll-up lists the failing Endpoints, each at its place.
LEMMA RollupLists ==
    ASSUME Rollup!RollupAssumption, RollInv
    PROVE  /\ Rollup!Rollup \in Seq(RollEndpoints)
           /\ Rollup!Range(Rollup!Rollup) = {e \in RollEndpoints : rollFailing[e] # "no"}
  <1>. DEFINE S == {e \in RollEndpoints : rollFailing[e] # "no"}
              Pre == [e \in S |-> {f \in S : Rollup!RanksBefore(f, e)}]
              rows == Rollup!Rollup
  <1>1. \A e \in RollEndpoints : Rollup!SeverityOf(e) \in 1..4
    <2>1. ASSUME NEW e \in RollEndpoints
          PROVE  \E i \in 1..4 : Rollup!Severities[i] = rollFailing[e]
      <3>1. rollFailing[e] \in {"no", "failed", "dead", "off"}
        BY DEF RollInv
      <3>2. /\ Rollup!Severities[1] = "no" /\ Rollup!Severities[2] = "failed"
            /\ Rollup!Severities[3] = "dead" /\ Rollup!Severities[4] = "off"
        BY DEF Rollup!Severities
      <3>. QED BY <3>1, <3>2
    <2>. QED BY <2>1 DEF Rollup!SeverityOf
  <1>2. IsFiniteSet(S) /\ \A e \in S : e \in Int /\ Rollup!SeverityOf(e) \in Int
    <2>1. IsFiniteSet(RollEndpoints)
      BY DEF Rollup!RollupAssumption, Rollup!IsFiniteSet, IsFiniteSet
    <2>. QED BY <1>1, <2>1, FS_Subset DEF Rollup!RollupAssumption
  <1>3. Orders(Pre, S)
    <2>. HIDE DEF S
    <2>. QED BY <1>2 DEF Orders, Rollup!RanksBefore
  <1>4. Placed(rows, Pre, S)
    <2>1. rows = [i \in 1..Rollup!Cardinality(S) |-> CHOOSE e \in S :
             Rollup!Cardinality({f \in S : Rollup!RanksBefore(f, e)}) = i - 1]
      BY DEF Rollup!Rollup, Rollup!InOrder
    <2>2. \A T : Rollup!Cardinality(T) = Cardinality(T)
      BY DEF Rollup!Cardinality, Cardinality
    <2>3. \A e \in S : Pre[e] = {f \in S : Rollup!RanksBefore(f, e)}
      OBVIOUS
    <2>. HIDE DEF S, Pre, rows
    <2>4. ASSUME NEW i \in 1..Cardinality(S)
          PROVE  \E e \in S :
                    Rollup!Cardinality({f \in S : Rollup!RanksBefore(f, e)}) = i - 1
      <3>1. PICK e \in S : Cardinality(Pre[e]) = i - 1
        BY <1>2, <1>3, EveryPlaceIsTaken
      <3>. QED BY <2>2, <2>3, <3>1
    <2>5. ASSUME NEW i \in 1..Cardinality(S)
          PROVE  rows[i] \in S
                 /\ Rollup!Cardinality({f \in S : Rollup!RanksBefore(f, rows[i])}) = i - 1
      BY <2>1, <2>2, <2>4
    <2>6. rows \in [1..Cardinality(S) -> S]
      BY <2>1, <2>2, <2>5
    <2>. QED BY <2>2, <2>3, <2>5, <2>6 DEF Placed
  <1>. HIDE DEF S, Pre, rows
  <1>5. /\ rows \in Seq(S) /\ Len(rows) = Cardinality(S) /\ Cardinality(S) \in Nat
        /\ \A x \in S : \E i \in DOMAIN rows : rows[i] = x
    BY <1>2, <1>3, <1>4, RowsAreInOrder
  <1>6. S \subseteq RollEndpoints
    BY DEF S
  <1>. QED BY <1>5, <1>6 DEF rows, S, Rollup!Range

\* A set of Endpoints written into the address is read from it again, and
\* written once each.
LEMMA SearchValueHolds ==
    ASSUME Rollup!RollupAssumption, NEW ids \in SUBSET RollEndpoints
    PROVE  /\ Rollup!SearchValue(ids) \in Seq(RollEndpoints)
           /\ Rollup!Range(Rollup!SearchValue(ids)) = ids
           /\ Rollup!IsInjective(Rollup!SearchValue(ids))
  <1>. DEFINE n == Cardinality(ids)
              Pre == [e \in ids |-> {d \in ids : d < e}]
              s == Rollup!SearchValue(ids)
  <1>1. IsFiniteSet(ids) /\ \A e \in ids : e \in Int
    <2>1. IsFiniteSet(RollEndpoints)
      BY DEF Rollup!RollupAssumption, Rollup!IsFiniteSet, IsFiniteSet
    <2>. QED BY <2>1, FS_Subset DEF Rollup!RollupAssumption
  <1>2. Orders(Pre, ids)
    BY <1>1 DEF Orders
  <1>3. s = [i \in 1..Rollup!Cardinality(ids) |->
               CHOOSE e \in ids : Rollup!Cardinality({d \in ids : d < e}) = i - 1]
    BY DEF Rollup!SearchValue, Rollup!InOrder
  <1>4. \A T : Rollup!Cardinality(T) = Cardinality(T)
    BY DEF Rollup!Cardinality, Cardinality
  <1>5. \A e \in ids : Pre[e] = {d \in ids : d < e}
    OBVIOUS
  <1>. HIDE DEF n, Pre, s
  <1>6. ASSUME NEW i \in 1..n
        PROVE  \E e \in ids : Rollup!Cardinality({d \in ids : d < e}) = i - 1
    <2>1. PICK e \in ids : Cardinality(Pre[e]) = i - 1
      BY <1>1, <1>2, EveryPlaceIsTaken DEF n
    <2>. QED BY <1>4, <1>5, <2>1
  <1>7. ASSUME NEW i \in 1..n
        PROVE  s[i] \in ids /\ Rollup!Cardinality({d \in ids : d < s[i]}) = i - 1
    BY <1>3, <1>4, <1>6 DEF n
  <1>8. s \in [1..n -> ids]
    BY <1>3, <1>4, <1>7 DEF n
  <1>9. Placed(s, Pre, ids)
    BY <1>4, <1>5, <1>7, <1>8 DEF Placed, n
  <1>10. /\ s \in Seq(ids) /\ Len(s) = Cardinality(ids) /\ Cardinality(ids) \in Nat
         /\ \A x \in ids : \E i \in DOMAIN s : s[i] = x
    BY <1>1, <1>2, <1>9, RowsAreInOrder
  <1>11. Rollup!IsInjective(s)
    <2>1. ASSUME NEW i \in 1..n, NEW j \in 1..n, s[i] = s[j] PROVE i = j
      <3>1. {d \in ids : d < s[i]} = {d \in ids : d < s[j]}
        BY <2>1
      <3>2. i - 1 = Rollup!Cardinality({d \in ids : d < s[i]})
        BY <1>7
      <3>3. j - 1 = Rollup!Cardinality({d \in ids : d < s[j]})
        BY <1>7
      <3>4. i - 1 = j - 1
        BY ONLY <3>1, <3>2, <3>3
      <3>5. i \in Int /\ j \in Int
        BY <1>10 DEF n
      <3>. QED BY <3>4, <3>5
    <2>. QED BY <1>8, <2>1 DEF Rollup!IsInjective
  <1>. QED BY <1>10, <1>11 DEF s, Rollup!Range

LEMMA RollBegins == ASSUME Rollup!RollupAssumption, Rollup!Init PROVE RollInv
  <1>1. Rollup!Range(Rollup!Severities) = {"no", "failed", "dead", "off"}
    BY DEF Rollup!Range, Rollup!Severities
  <1>2. rollParam \in Seq(RollEndpoints) \cup {Absent}
    <2>1. \A e \in RollEndpoints : <<e>> \in Seq(RollEndpoints)
      OBVIOUS
    <2>3. <<>> \in Seq(RollEndpoints)
      OBVIOUS
    <2>2. rollParam = Absent \/ rollParam = <<>> \/ \E e \in RollEndpoints : rollParam = <<e>>
      BY DEF Rollup!Init
    <2>. QED BY <2>1, <2>2, <2>3
  <1>. QED BY <1>1, <1>2 DEF RollInv, Rollup!Init, Rollup!Live

LEMMA RollGoesOn ==
    ASSUME Rollup!RollupAssumption, RollInv, [Rollup!Next]_rollVars PROVE RollInv'
  <1>1. ASSUME NEW e \in RollEndpoints, NEW s \in Rollup!Range(Rollup!Severities),
               Rollup!Deliver(e, s)
        PROVE  RollInv'
    <2>1. s \in {"no", "failed", "dead", "off"}
      BY DEF Rollup!Range, Rollup!Severities
    <2>. QED BY <1>1, <2>1 DEF RollInv, Rollup!Deliver, Rollup!Live
  <1>2. CASE Rollup!Poll
    BY <1>2, RollupLists DEF RollInv, Rollup!Poll, Rollup!Live
  <1>3. CASE Rollup!PollLands
    <2>1. /\ rollData' = rollPoll /\ rollPoll \in Seq(RollEndpoints) /\ rollPoll # NoRows
          /\ rollPoll' = NoRows /\ rollDefault' = Rollup!Latched(rollPoll)
          /\ rollKnown' = rollKnown \cup Rollup!Range(rollPoll)
          /\ UNCHANGED <<rollFailing, rollParam>>
      BY <1>3 DEF RollInv, Rollup!PollLands
    <2>2. /\ Rollup!Range(rollPoll) \subseteq RollEndpoints
          /\ rollPoll # <<>> => rollPoll[1] \in RollEndpoints
          /\ Rollup!Range(rollPoll) # {} => rollPoll # <<>>
      BY <2>1 DEF Rollup!Range
    <2>3. /\ rollDefault' \in RollEndpoints \cup {NoEndpoint}
          /\ rollParam = Absent /\ rollPoll # <<>> => rollDefault' # NoEndpoint
      BY <2>1, <2>2 DEF RollInv, Rollup!Latched, Rollup!HasParam, Rollup!RollupAssumption
    <2>4. Rollup!Live' = Rollup!Range(rollPoll)
      BY <2>1 DEF Rollup!Live
    <2>. QED BY <2>1, <2>2, <2>3, <2>4 DEF RollInv
  <1>4. ASSUME NEW e \in RollEndpoints, Rollup!Toggle(e) PROVE RollInv'
    <2>1. Rollup!Expanded \subseteq RollEndpoints
      BY DEF RollInv, Rollup!Expanded, Rollup!HasParam, Rollup!Range
    <2>2. rollParam' \in Seq(RollEndpoints) /\ UNCHANGED <<rollFailing, rollPoll, rollData,
             rollKnown, rollDefault>>
      BY <1>4, <2>1, SearchValueHolds DEF Rollup!Toggle
    <2>. QED BY <2>2 DEF RollInv, Rollup!Live, Rollup!RollupAssumption
  <1>5. CASE Rollup!Reload
    BY <1>5 DEF RollInv, Rollup!Reload, Rollup!Live
  <1>6. CASE UNCHANGED rollVars
    BY <1>6 DEF RollInv, rollVars, Rollup!Live
  <1>. QED BY <1>1, <1>2, <1>3, <1>4, <1>5, <1>6 DEF Rollup!Next

\* What is collapsed stays so, and without a choice one group is open.
LEMMA ExpansionHolds ==
    ASSUME Rollup!RollupAssumption, RollInv
    PROVE  Rollup!CollapseAllHolds /\ Rollup!OpensOne
  <1>1. Rollup!CollapseAllHolds
    <2>1. <<>> # Absent
      <3>1. <<>> \in Seq(RollEndpoints)
        OBVIOUS
      <3>. QED BY <3>1 DEF Rollup!RollupAssumption
    <2>2. Rollup!Range(<<>>) = {}
      BY DEF Rollup!Range
    <2>. QED BY <2>1, <2>2 DEF Rollup!CollapseAllHolds, Rollup!Expanded, Rollup!HasParam
  <1>2. Rollup!OpensOne
    BY DEF RollInv, Rollup!OpensOne, Rollup!Expanded, Rollup!HasParam
  <1>. QED BY <1>1, <1>2

\* What is open stays open and on screen.
LEMMA OpenStaysOpen ==
    ASSUME Rollup!RollupAssumption, RollInv, [Rollup!Next]_rollVars
    PROVE  Rollup!StaysOpenStep
  <1>. SUFFICES ASSUME NEW e \in Rollup!Expanded \cap Rollup!Displayed,
                       ~Rollup!Toggle(e), ~Rollup!Reload
                PROVE  e \in Rollup!Expanded' \cap Rollup!Displayed'
    BY DEF Rollup!StaysOpenStep
  <1>1. rollData # NoRows /\ e \in rollKnown
    BY DEF RollInv, Rollup!Displayed, Rollup!Cleared
  <1>2. CASE UNCHANGED <<rollData, rollKnown, rollDefault, rollParam>>
    BY <1>2 DEF Rollup!Expanded, Rollup!Displayed, Rollup!Cleared, Rollup!Live,
       Rollup!HasParam
  <1>3. CASE Rollup!PollLands
    <2>1. /\ rollPoll # NoRows /\ rollData' = rollPoll
          /\ rollDefault' = Rollup!Latched(rollPoll)
          /\ rollKnown' = rollKnown \cup Rollup!Range(rollPoll) /\ rollParam' = rollParam
      BY <1>3 DEF Rollup!PollLands
    <2>2. e \in Rollup!Expanded'
      BY <2>1 DEF Rollup!Expanded, Rollup!HasParam, Rollup!Latched
    <2>. QED BY <1>1, <2>1, <2>2 DEF Rollup!Displayed, Rollup!Cleared, Rollup!Live
  <1>4. ASSUME NEW f \in RollEndpoints, Rollup!Toggle(f)
        PROVE  e \in Rollup!Expanded' \cap Rollup!Displayed'
    <2>1. Rollup!Expanded \subseteq RollEndpoints /\ f # e
      BY <1>4 DEF RollInv, Rollup!Expanded, Rollup!HasParam, Rollup!Range
    <2>. DEFINE ids == IF f \in Rollup!Expanded THEN Rollup!Expanded \ {f}
                       ELSE Rollup!Expanded \cup {f}
    <2>2. /\ rollParam' = Rollup!SearchValue(ids) /\ ids \subseteq RollEndpoints
          /\ UNCHANGED <<rollData, rollKnown, rollDefault>>
      BY <1>4, <2>1 DEF Rollup!Toggle
    <2>3. e \in ids
      BY <2>1
    <2>. HIDE DEF ids
    <2>4. rollParam' # Absent /\ Rollup!Range(rollParam') = ids
      BY <2>2, SearchValueHolds DEF Rollup!RollupAssumption
    <2>5. e \in Rollup!Expanded'
      BY <2>3, <2>4 DEF Rollup!Expanded, Rollup!HasParam, Rollup!Range
    <2>. QED BY <1>1, <2>2, <2>5 DEF Rollup!Displayed, Rollup!Cleared, Rollup!Live
  <1>. QED BY <1>2, <1>3, <1>4 DEF Rollup!Next, Rollup!Deliver, Rollup!Poll, rollVars

-----------------------------------------------------------------------------
(* What is open on a Channel's page, and its keys.                         *)

\* The address and the lists have their types, and the focus is on a row that
\* is on screen.
ViewTyped ==
    /\ viewUrl \in [tab : View!Tabs, at : ViewBroadcasts \cup {NoValue},
                    filter : {"all", "failed"},
                    endpoint : (SUBSET ViewEndpoints) \cup {Absent}]
    /\ viewFeed \subseteq ViewBroadcasts
    /\ viewFailing \in [ViewEndpoints -> SUBSET ViewBroadcasts]

FocusIsShown ==
    viewFocus # NoValue =>
       /\ viewFocus \in [row : View!Paths, inside : BOOLEAN]
       /\ View!IsShown(viewFocus.row)

ViewInv == ViewTyped /\ FocusIsShown

LEMMA PathFacts ==
    ASSUME NEW p \in View!Paths
    PROVE  /\ p \in Seq(ViewEndpoints \cup ViewBroadcasts) /\ Len(p) \in 1..3
           /\ DOMAIN p = 1..Len(p)
  <1>. DEFINE R == ViewEndpoints \cup ViewBroadcasts
  <1>1. PICK n \in 1..3 : p \in [1..n -> R]
    BY DEF View!Paths
  <1>. HIDE DEF R
  <1>2. p \in Seq(R) /\ Len(p) = n /\ DOMAIN p = 1..n
    BY <1>1
  <1>. QED BY <1>1, <1>2 DEF R

LEMMA PrefixFacts ==
    ASSUME NEW p \in View!Paths, NEW i \in 1..Len(p)
    PROVE  /\ View!Prefix(p, i) \in View!Paths /\ Len(View!Prefix(p, i)) = i
           /\ \A j \in 1..i : View!Prefix(p, i)[j] = p[j]
           /\ \A j \in 0..i : View!Prefix(View!Prefix(p, i), j) = View!Prefix(p, j)
           /\ View!Prefix(p, Len(p)) = p
  <1>. DEFINE R == ViewEndpoints \cup ViewBroadcasts
              q == View!Prefix(p, i)
  <1>1. p \in Seq(R) /\ Len(p) \in 1..3
    BY PathFacts
  <1>. HIDE DEF R
  <1>2. q \in Seq(R) /\ Len(q) = i /\ \A j \in 1..i : q[j] = p[j]
    BY <1>1 DEF View!Prefix
  <1>3. q \in [1..i -> R] /\ i \in 1..3
    BY <1>1, <1>2
  <1>4. q \in View!Paths
    BY <1>3 DEF View!Paths, R
  <1>5. ASSUME NEW j \in 0..i PROVE View!Prefix(q, j) = View!Prefix(p, j)
    <2>. HIDE DEF q
    <2>1. \A k \in 1..j : SubSeq(q, 1, j)[k] = SubSeq(p, 1, j)[k]
      BY <1>1, <1>2
    <2>2. /\ SubSeq(q, 1, j) \in Seq(R) /\ SubSeq(p, 1, j) \in Seq(R)
          /\ Len(SubSeq(q, 1, j)) = j /\ Len(SubSeq(p, 1, j)) = j
      BY <1>1, <1>2
    <2>3. SubSeq(q, 1, j) = SubSeq(p, 1, j)
      BY <2>1, <2>2, SeqEqual
    <2>. QED BY <2>3 DEF View!Prefix
  <1>6. View!Prefix(p, Len(p)) = p
    BY <1>1 DEF View!Prefix
  <1>. QED BY <1>2, <1>4, <1>5, <1>6 DEF q

\* A row on screen is in the structure that is shown: what it is follows from
\* how deep it lies.
LEMMA KindFacts ==
    ASSUME ViewTyped, NEW p, Len(p) \in 1..View!Depth
    PROVE  /\ viewUrl.filter = "all" =>
                 /\ Len(p) = 1 => View!Kind(p) = "broadcast"
                 /\ Len(p) = 2 => View!Kind(p) = "delivery"
                 /\ Len(p) \in 1..2 /\ View!Depth = 2
           /\ viewUrl.filter # "all" =>
                 /\ Len(p) = 1 => View!Kind(p) = "group"
                 /\ Len(p) = 2 => View!Kind(p) = "broadcast"
                 /\ Len(p) = 3 => View!Kind(p) = "delivery"
                 /\ Len(p) \in 1..3 /\ View!Depth = 3
  <1>1. /\ <<"broadcast", "delivery">>[1] = "broadcast"
        /\ <<"broadcast", "delivery">>[2] = "delivery"
        /\ <<"group", "broadcast", "delivery">>[1] = "group"
        /\ <<"group", "broadcast", "delivery">>[2] = "broadcast"
        /\ <<"group", "broadcast", "delivery">>[3] = "delivery"
    OBVIOUS
  <1>2. CASE viewUrl.filter = "all"
    BY <1>1, <1>2 DEF View!Kind, View!Depth
  <1>3. CASE viewUrl.filter # "all"
    BY <1>1, <1>3 DEF View!Kind, View!Depth
  <1>. QED BY <1>2, <1>3

\* The lists and the structure stay, and so does what a row is.
SameLists ==
    /\ viewUrl'.filter = viewUrl.filter /\ viewUrl'.endpoint = viewUrl.endpoint
    /\ UNCHANGED <<viewFeed, viewFailing>>

LEMMA SameMembers ==
    ASSUME SameLists
    PROVE  /\ View!Depth' = View!Depth /\ View!Groups' = View!Groups
           /\ \A q : View!Members(q)' = View!Members(q)
           /\ \A q : View!Kind(q)' = View!Kind(q)
  <1>1. View!Depth' = View!Depth /\ View!Groups' = View!Groups
    BY DEF SameLists, View!Depth, View!Groups
  <1>2. ASSUME NEW q PROVE View!Members(q)' = View!Members(q)
    BY <1>1 DEF SameLists, View!Members
  <1>3. ASSUME NEW q PROVE View!Kind(q)' = View!Kind(q)
    BY DEF SameLists, View!Kind
  <1>. QED BY <1>1, <1>2, <1>3

LEMMA StillShown ==
    ASSUME ViewTyped, NEW p \in View!Paths, View!IsShown(p), SameLists,
           viewUrl'.tab = "activity",
           \A i \in 1..(Len(p) - 1) : View!IsOpen(View!Prefix(p, i))
                                         => View!IsOpen(View!Prefix(p, i))'
    PROVE  View!IsShown(p)'
  <1>1. /\ Len(p) \in 1..View!Depth
        /\ \A i \in DOMAIN p : p[i] \in View!Members(View!Prefix(p, i - 1))
                               /\ (i < Len(p) => View!IsOpen(View!Prefix(p, i)))
    BY DEF View!IsShown
  <1>2. DOMAIN p = 1..Len(p) /\ Len(p) \in 1..3
    BY PathFacts
  <1>3. ASSUME NEW i \in DOMAIN p
        PROVE  p[i] \in View!Members(View!Prefix(p, i - 1))'
    BY <1>1, <1>3, SameMembers
  <1>4. ASSUME NEW i \in DOMAIN p, i < Len(p) PROVE View!IsOpen(View!Prefix(p, i))'
    BY <1>1, <1>2, <1>4
  <1>5. Len(p) \in 1..View!Depth'
    BY <1>1, SameMembers
  <1>. QED BY <1>3, <1>4, <1>5 DEF View!IsShown

\* What contains a row on screen is on screen.
LEMMA PrefixIsShown ==
    ASSUME NEW p \in View!Paths, View!IsShown(p), NEW i \in 1..Len(p)
    PROVE  View!IsShown(View!Prefix(p, i))
  <1>. DEFINE q == View!Prefix(p, i)
  <1>1. /\ q \in View!Paths /\ Len(q) = i /\ \A j \in 1..i : q[j] = p[j]
        /\ \A j \in 0..i : View!Prefix(q, j) = View!Prefix(p, j)
    BY PrefixFacts
  <1>2. /\ viewUrl.tab = "activity" /\ Len(p) \in 1..View!Depth
        /\ \A j \in DOMAIN p : p[j] \in View!Members(View!Prefix(p, j - 1))
                               /\ (j < Len(p) => View!IsOpen(View!Prefix(p, j)))
    BY DEF View!IsShown
  <1>3. DOMAIN p = 1..Len(p) /\ DOMAIN q = 1..i /\ Len(p) \in 1..3
    BY <1>1, PathFacts
  <1>. HIDE DEF q
  <1>4. View!Depth \in Int
    BY DEF View!Depth
  <1>5. Len(q) \in 1..View!Depth
    BY <1>1, <1>2, <1>3, <1>4
  <1>6. ASSUME NEW j \in 1..i
        PROVE  /\ q[j] \in View!Members(View!Prefix(q, j - 1))
               /\ j < Len(q) => View!IsOpen(View!Prefix(q, j))
    <2>1. j \in DOMAIN p /\ j - 1 \in 0..i /\ j \in 0..i /\ (j < Len(q) => j < Len(p))
      BY <1>1, <1>3
    <2>2. View!Prefix(q, j - 1) = View!Prefix(p, j - 1)
          /\ View!Prefix(q, j) = View!Prefix(p, j) /\ q[j] = p[j]
      BY <1>1, <2>1
    <2>. QED BY <1>2, <2>1, <2>2
  <1>7. View!IsShown(q)
    BY <1>2, <1>3, <1>5, <1>6 DEF View!IsShown
  <1>. QED BY <1>7 DEF q

\* What the row of a Broadcast or of a group names.
LEMMA ShownNames ==
    ASSUME ViewTyped, NEW p \in View!Shown
    PROVE  /\ p \in View!Paths /\ View!IsShown(p) /\ viewUrl.tab = "activity"
           /\ Len(p) \in 1..View!Depth
           /\ View!Kind(p) = "broadcast" => p[Len(p)] \in ViewBroadcasts
           /\ View!Kind(p) = "group" => Len(p) = 1 /\ p[1] \in ViewEndpoints
  <1>1. /\ p \in View!Paths /\ View!IsShown(p) /\ viewUrl.tab = "activity"
        /\ Len(p) \in 1..View!Depth
        /\ \A i \in DOMAIN p : p[i] \in View!Members(View!Prefix(p, i - 1))
    BY DEF View!Shown, View!IsShown
  <1>2. p \in Seq(ViewEndpoints \cup ViewBroadcasts) /\ DOMAIN p = 1..Len(p)
        /\ Len(p) \in 1..3
    BY <1>1, PathFacts
  <1>3. p[Len(p)] \in View!Members(View!Prefix(p, Len(p) - 1))
        /\ Len(View!Prefix(p, Len(p) - 1)) = Len(p) - 1
    BY <1>1, <1>2 DEF View!Prefix
  <1>4. ASSUME View!Kind(p) = "broadcast" PROVE p[Len(p)] \in ViewBroadcasts
    <2>1. Len(p) = View!Depth - 1
      <3>1. CASE viewUrl.filter = "all"
        <4>1. Len(p) = 1 /\ View!Depth = 2
          BY <1>1, <1>4, <3>1, KindFacts
        <4>. QED BY <4>1
      <3>2. CASE viewUrl.filter # "all"
        <4>1. Len(p) = 2 /\ View!Depth = 3
          BY <1>1, <1>4, <3>2, KindFacts
        <4>. QED BY <4>1
      <3>. QED BY <3>1, <3>2
    <2>2. CASE viewUrl.filter = "all"
      BY <1>3, <2>1, <2>2 DEF View!Members, View!Depth, ViewTyped
    <2>3. CASE viewUrl.filter # "all"
      <3>1. Len(p) = 2 /\ View!Depth = 3
        BY <2>1, <2>3 DEF View!Depth
      <3>2. View!Prefix(p, 1)[1] \in ViewEndpoints
        <4>1. p[1] \in View!Members(View!Prefix(p, 0)) /\ Len(View!Prefix(p, 0)) = 0
          BY <1>1, <1>2 DEF View!Prefix
        <4>2. View!Prefix(p, 1)[1] = p[1]
          BY <1>2 DEF View!Prefix
        <4>. QED BY <2>3, <3>1, <4>1, <4>2 DEF View!Members
      <3>. QED BY <1>3, <2>3, <3>1, <3>2 DEF View!Members, ViewTyped
    <2>. QED BY <2>2, <2>3
  <1>5. ASSUME View!Kind(p) = "group" PROVE Len(p) = 1 /\ p[1] \in ViewEndpoints
    <2>1. Len(p) = 1 /\ viewUrl.filter # "all" /\ View!Depth = 3
      BY <1>1, <1>5, KindFacts
    <2>2. p[1] \in View!Members(View!Prefix(p, 0)) /\ Len(View!Prefix(p, 0)) = 0
      BY <1>1, <1>2, <2>1 DEF View!Prefix
    <2>. QED BY <2>1, <2>2 DEF View!Members
  <1>. QED BY <1>1, <1>4, <1>5
\* Between the openings of the rows only the Broadcast's and its Deliveries'
\* own change.
LEMMA GroupStaysOpen ==
    ASSUME SameLists, NEW q, View!Kind(q) = "group"
    PROVE  View!IsOpen(q)' <=> View!IsOpen(q)
  BY SameMembers DEF View!IsOpen

\* The drill-down never drops back to the other list.
LEMMA DrillDownHolds ==
    ASSUME View!ViewAssumption, ViewInv, [View!Next]_viewVars
    PROVE  View!DrillDownStaysStep
  <1>. SUFFICES ASSUME NEW p \in View!Shown, View!ClickBroadcast(p)
                PROVE  /\ View!IsShown(p)' /\ View!IsOpen(p)' # View!IsOpen(p)
                       /\ viewUrl'.filter = viewUrl.filter
    BY DEF View!DrillDownStaysStep
  <1>1. /\ View!Kind(p) = "broadcast" /\ viewUrl' = View!Toggled(p[Len(p)])
        /\ UNCHANGED <<viewFeed, viewFailing>>
    BY DEF View!ClickBroadcast
  <1>2. /\ viewUrl'.filter = viewUrl.filter /\ viewUrl'.endpoint = viewUrl.endpoint
        /\ viewUrl'.tab = "activity"
        /\ viewUrl'.at = IF viewUrl.at = p[Len(p)] THEN NoValue ELSE p[Len(p)]
    BY <1>1 DEF View!Toggled, ViewInv, ViewTyped
  <1>3. SameLists
    BY <1>1, <1>2 DEF SameLists
  <1>4. /\ p \in View!Paths /\ View!IsShown(p) /\ Len(p) \in 1..View!Depth
        /\ p[Len(p)] \in ViewBroadcasts
    BY <1>1, ShownNames DEF ViewInv
  <1>5. View!IsShown(p)'
    <2>1. ASSUME NEW i \in 1..(Len(p) - 1) PROVE View!Kind(View!Prefix(p, i)) = "group"
      <3>1. Len(p) = 2 /\ i = 1 /\ viewUrl.filter # "all" /\ View!Depth = 3
        <4>1. ASSUME viewUrl.filter = "all" PROVE Len(p) = 1
          BY <1>1, <1>4, <4>1, KindFacts DEF ViewInv
        <4>2. ASSUME viewUrl.filter # "all" PROVE Len(p) \in 1..2 /\ View!Depth = 3
          BY <1>1, <1>4, <4>2, KindFacts DEF ViewInv
        <4>3. Len(p) \in 1..3 /\ i \in Int /\ 1 <= i /\ i <= Len(p) - 1
          BY <1>4, PathFacts
        <4>4. Len(p) # 1
          BY <4>3
        <4>5. viewUrl.filter # "all"
          BY <4>1, <4>4
        <4>6. Len(p) = 2 /\ View!Depth = 3
          BY <4>2, <4>4, <4>5
        <4>7. i = 1
          BY <4>3, <4>6
        <4>. QED BY <4>5, <4>6, <4>7
      <3>2. i \in 1..Len(p)
        BY <3>1
      <3>3. Len(View!Prefix(p, i)) = 1
        BY <1>4, <3>1, <3>2, PrefixFacts
      <3>. QED BY <3>1, <3>3, KindFacts DEF ViewInv
    <2>2. \A i \in 1..(Len(p) - 1) : View!IsOpen(View!Prefix(p, i))
                                        => View!IsOpen(View!Prefix(p, i))'
      BY <1>3, <2>1, GroupStaysOpen
    <2>. QED BY <1>2, <1>3, <1>4, <2>2, StillShown DEF ViewInv
  <1>6. View!IsOpen(p)' # View!IsOpen(p)
    <2>1. View!Kind(p)' = "broadcast"
      BY <1>1, <1>3, SameMembers
    <2>2. View!IsOpen(p) <=> p[Len(p)] = viewUrl.at
      BY <1>1 DEF View!IsOpen
    <2>3. View!IsOpen(p)' <=> p[Len(p)] = viewUrl'.at
      BY <2>1 DEF View!IsOpen
    <2>. QED BY <1>2, <1>4, <2>2, <2>3 DEF View!ViewAssumption
  <1>. QED BY <1>2, <1>5, <1>6

LEMMA UrlTyped ==
    ASSUME NEW tab \in View!Tabs, NEW at \in ViewBroadcasts \cup {NoValue},
           NEW filter \in {"all", "failed"},
           NEW endpoint \in (SUBSET ViewEndpoints) \cup {Absent}
    PROVE  [tab |-> tab, at |-> at, filter |-> filter, endpoint |-> endpoint]
              \in [tab : View!Tabs, at : ViewBroadcasts \cup {NoValue},
                   filter : {"all", "failed"},
                   endpoint : (SUBSET ViewEndpoints) \cup {Absent}]
  OBVIOUS

LEMMA ViewBegins == ASSUME View!ViewAssumption, View!Init PROVE ViewInv
  <1>. DEFINE plain == View!Plain("activity")
  <1>1. PICK f \in {"all", "failed"}, b \in ViewBroadcasts \cup {NoValue} :
           viewUrl = [plain EXCEPT !.filter = f, !.at = b]
    BY DEF View!Init
  <1>2. plain = [tab |-> "activity", at |-> NoValue, filter |-> "all", endpoint |-> Absent]
    BY DEF View!Plain
  <1>. HIDE DEF plain
  <1>3. viewUrl = [tab |-> "activity", at |-> b, filter |-> f, endpoint |-> Absent]
    BY <1>1, <1>2
  <1>4. /\ viewFeed = ViewBroadcasts
        /\ viewFailing = [e \in ViewEndpoints |-> ViewBroadcasts] /\ viewFocus = NoValue
    BY DEF View!Init
  <1>5. "activity" \in View!Tabs
    BY DEF View!Tabs
  <1>6. ViewTyped
    BY <1>3, <1>4, <1>5, UrlTyped DEF ViewTyped
  <1>. QED BY <1>4, <1>6 DEF ViewInv, FocusIsShown

\* Whatever settles has its focus on screen.
LEMMA SettledIsShown ==
    ASSUME NEW f, viewFocus' = IF f # NoValue /\ View!IsShown(f.row)' THEN f ELSE NoValue,
           f # NoValue => f \in [row : View!Paths, inside : BOOLEAN]
    PROVE  FocusIsShown'
  <1>1. CASE f # NoValue /\ View!IsShown(f.row)'
    BY <1>1 DEF FocusIsShown
  <1>2. CASE ~(f # NoValue /\ View!IsShown(f.row)')
    BY <1>2 DEF FocusIsShown
  <1>. QED BY <1>1, <1>2

LEMMA OnRowTyped ==
    ASSUME NEW p \in View!Paths
    PROVE  View!OnRow(p) \in [row : View!Paths, inside : BOOLEAN]
           /\ View!OnRow(p).row = p /\ View!OnRow(p).inside = FALSE
  BY DEF View!OnRow

LEMMA SettledOnRow ==
    ASSUME NEW p \in View!Paths, View!Settled(viewOpened, View!OnRow(p))
    PROVE  FocusIsShown'
  <1>1. PICK f : /\ f = View!OnRow(p)
                 /\ viewFocus' = IF f # NoValue /\ View!IsShown(f.row)' THEN f ELSE NoValue
    BY DEF View!Settled
  <1>. QED BY <1>1, OnRowTyped, SettledIsShown

\* A step that leaves the view alone and the focus on a row of it.
LEMMA FocusMoves ==
    ASSUME ViewInv, UNCHANGED View!view, NEW p \in View!Shown,
           viewFocus' = View!OnRow(p) \/ viewFocus' = [row |-> p, inside |-> TRUE]
    PROVE  ViewInv'
  <1>1. ViewTyped'
    BY DEF ViewInv, ViewTyped, View!view
  <1>2. p \in View!Paths /\ View!IsShown(p) /\ viewUrl.tab = "activity"
    BY ShownNames DEF ViewInv
  <1>3. SameLists /\ viewUrl'.tab = "activity" /\ UNCHANGED viewOpened /\ UNCHANGED viewUrl
    BY <1>2 DEF SameLists, View!view
  <1>4. ASSUME NEW q PROVE View!IsOpen(q)' <=> View!IsOpen(q)
    BY <1>3, SameMembers DEF View!IsOpen
  <1>5. View!IsShown(p)'
    BY <1>2, <1>3, <1>4, StillShown DEF ViewInv
  <1>6. viewFocus' = [row |-> p, inside |-> FALSE] \/ viewFocus' = [row |-> p, inside |-> TRUE]
    BY DEF View!OnRow
  <1>7. viewFocus' \in [row : View!Paths, inside : BOOLEAN] /\ viewFocus'.row = p
    <2>. DEFINE R == [row : View!Paths, inside : BOOLEAN]
    <2>1. [row |-> p, inside |-> FALSE] \in R /\ [row |-> p, inside |-> TRUE] \in R
      BY <1>2
    <2>2. [row |-> p, inside |-> FALSE].row = p /\ [row |-> p, inside |-> TRUE].row = p
      OBVIOUS
    <2>. HIDE DEF R
    <2>3. viewFocus' \in R /\ viewFocus'.row = p
      BY <1>6, <2>1, <2>2
    <2>. QED BY <2>3 DEF R
  <1>. QED BY <1>1, <1>5, <1>7 DEF ViewInv, FocusIsShown

\* One Escape closes the innermost open row around the focus, and no other.
LEMMA EscapeFacts ==
    ASSUME View!ViewAssumption, ViewInv, View!Escape
    PROVE  /\ ViewTyped' /\ FocusIsShown' /\ View!EscapeClosesOneStep
  <1>. USE DEF ViewInv
  <1>1. viewFocus # NoValue /\ View!Handlers # {}
    BY DEF View!Escape, View!Handlers, View!Around
  <1>2. PICK row : row = viewFocus.row
    OBVIOUS
  <1>3. row \in View!Paths /\ View!IsShown(row) /\ row \in View!Shown
    BY <1>1, <1>2 DEF FocusIsShown, View!Shown
  <1>4. Len(row) \in 1..3 /\ DOMAIN row = 1..Len(row) /\ Len(row) \in 1..View!Depth
    BY <1>3, PathFacts, ShownNames
  <1>5. View!Around = {i \in 1..Len(row) : /\ View!IsOpen(View!Prefix(row, i))
                                           /\ View!Kind(View!Prefix(row, i)) # "group"}
    BY <1>1, <1>2, <1>4 DEF View!Around
  <1>6. PICK m \in View!Around : \A j \in View!Around : j <= m
    BY <1>1 DEF View!Handlers
  <1>7. View!Handlers = {m} /\ m \in 1..Len(row)
    BY <1>4, <1>5, <1>6 DEF View!Handlers
  <1>8. PICK q : q = View!Prefix(row, m)
    OBVIOUS
  <1>9. /\ q \in View!Paths /\ Len(q) = m /\ DOMAIN q = 1..m /\ View!Prefix(q, m) = q
        /\ \A j \in 0..m : View!Prefix(q, j) = View!Prefix(row, j)
        /\ View!IsShown(q) /\ q \in View!Shown
    <2>1. q \in View!Paths /\ Len(q) = m
          /\ \A j \in 0..m : View!Prefix(q, j) = View!Prefix(row, j)
      BY <1>3, <1>7, <1>8, PrefixFacts
    <2>2. View!IsShown(q)
      BY <1>3, <1>7, <1>8, PrefixIsShown
    <2>3. View!Prefix(q, m) = q /\ DOMAIN q = 1..m
      BY <1>4, <1>7, <2>1, PrefixFacts, PathFacts
    <2>. QED BY <2>1, <2>2, <2>3 DEF View!Shown
  <1>10. View!IsOpen(q) /\ View!Kind(q) # "group"
    BY <1>5, <1>6, <1>8
  <1>11. /\ viewUrl' = [viewUrl EXCEPT !.at = IF View!Kind(q) = "broadcast" THEN NoValue ELSE @]
         /\ UNCHANGED <<viewFeed, viewFailing>>
         /\ View!Settled(viewOpened \ {q}, View!OnRow(q))
    <2>1. {View!Prefix(viewFocus.row, i) : i \in View!Handlers} = {q}
      BY <1>2, <1>7, <1>8
    <2>2. m <= m
      BY <1>4, <1>7
    <2>3. (CHOOSE p \in {q} : \A t \in {q} : Len(p) <= Len(t)) = q
      BY <1>9, <2>2
    <2>. QED BY <2>1, <2>3 DEF View!Escape
  <1>12. ViewTyped'
    BY <1>11 DEF ViewTyped
  <1>13. SameLists /\ viewUrl'.tab = "activity"
         /\ viewUrl'.at = IF View!Kind(q) = "broadcast" THEN NoValue ELSE viewUrl.at
    BY <1>3, <1>11, ShownNames DEF ViewTyped, SameLists
  <1>14. ASSUME NEW i \in 1..(m - 1)
         PROVE  View!IsOpen(View!Prefix(q, i))' <=> View!IsOpen(View!Prefix(q, i))
    <2>1. PICK t : t = View!Prefix(q, i)
      OBVIOUS
    <2>2. Len(t) = i /\ i \in 1..3 /\ m \in 1..3 /\ i < m /\ m \in 1..View!Depth
          /\ i \in 1..View!Depth
      <3>1. m \in 1..3 /\ i \in 1..3 /\ i < m
        BY <1>4, <1>7
      <3>2. View!Depth \in {2, 3}
        BY DEF View!Depth
      <3>. QED BY <1>4, <1>7, <1>9, <2>1, <3>1, <3>2, PrefixFacts
    <2>3. \/ View!Kind(t) = "group"
          \/ View!Kind(t) = "broadcast" /\ View!Kind(q) = "delivery"
      <3>1. /\ viewUrl.filter = "all" => i = 1 /\ m = 2
            /\ viewUrl.filter # "all" => i = 1 \/ (i = 2 /\ m = 3)
        BY <2>2 DEF View!Depth
      <3>2. CASE viewUrl.filter = "all"
        BY <1>9, <2>2, <3>1, <3>2, KindFacts
      <3>3. CASE viewUrl.filter # "all"
        BY <1>9, <2>2, <3>1, <3>3, KindFacts
      <3>. QED BY <3>2, <3>3
    <2>4. CASE View!Kind(t) = "group"
      BY <1>13, <2>1, <2>4, GroupStaysOpen
    <2>5. CASE View!Kind(t) = "broadcast" /\ View!Kind(q) = "delivery"
      <3>1. View!Kind(t)' = "broadcast" /\ viewUrl'.at = viewUrl.at
        BY <1>13, <2>5, SameMembers
      <3>2. View!IsOpen(t)' <=> View!IsOpen(t)
        BY <2>5, <3>1 DEF View!IsOpen
      <3>. QED BY <2>1, <3>2
    <2>. QED BY <2>3, <2>4, <2>5
  <1>15. View!IsShown(q)'
    <2>1. \A i \in 1..(Len(q) - 1) : View!IsOpen(View!Prefix(q, i))
                                        => View!IsOpen(View!Prefix(q, i))'
      BY <1>9, <1>14
    <2>. QED BY <1>9, <1>13, <2>1, StillShown
  <1>16. viewFocus' = View!OnRow(q) /\ View!OnRow(q) # NoValue
         /\ View!OnRow(q).row = q
         /\ View!OnRow(q) \in [row : View!Paths, inside : BOOLEAN]
    <2>1. View!OnRow(q) # NoValue
      <3>1. q \in Seq(ViewEndpoints \cup ViewBroadcasts)
        BY <1>9, PathFacts
      <3>2. View!OnRow(q) \in [row : Seq(ViewEndpoints \cup ViewBroadcasts), inside : BOOLEAN]
        BY <3>1 DEF View!OnRow
      <3>. QED BY <3>2 DEF View!ViewAssumption
    <2>2. PICK f : /\ f = View!OnRow(q)
                   /\ viewFocus' = IF f # NoValue /\ View!IsShown(f.row)' THEN f ELSE NoValue
      BY <1>11 DEF View!Settled
    <2>3. f.row = q
      BY <1>9, <2>2, OnRowTyped
    <2>. QED BY <1>9, <1>15, <2>1, <2>2, <2>3, OnRowTyped
  <1>17. ~View!IsOpen(q)'
    <2>1. View!Kind(q)' = View!Kind(q)
      BY <1>13, SameMembers
    <2>2. CASE View!Kind(q) = "broadcast"
      <3>1. q[Len(q)] # viewUrl'.at
        BY <1>9, <1>13, <2>2, ShownNames DEF View!ViewAssumption
      <3>. QED BY <2>1, <2>2, <3>1 DEF View!IsOpen
    <2>3. CASE View!Kind(q) # "broadcast"
      <3>1. q \notin viewOpened'
        BY <1>11 DEF View!Settled
      <3>. QED BY <1>10, <2>1, <2>3, <3>1 DEF View!IsOpen
    <2>. QED BY <2>2, <2>3
  <1>18. View!Around' = View!Around \ {m}
    <2>1. viewFocus' # NoValue /\ viewFocus'.row = q
      BY <1>16
    <2>2. View!Around' = {i \in 1..m : /\ View!IsOpen(View!Prefix(q, i))'
                                       /\ View!Kind(View!Prefix(q, i))' # "group"}
      BY <1>9, <2>1 DEF View!Around, View!IsOpen, View!Kind, View!Prefix
    <2>3. ASSUME NEW i \in 1..(m - 1)
          PROVE  i \in View!Around' <=> i \in View!Around
      <3>1. View!Kind(View!Prefix(q, i))' = View!Kind(View!Prefix(q, i))
        BY <1>13, SameMembers
      <3>2. i \in 1..m /\ i \in 1..Len(row) /\ i \in 0..m
        BY <1>4, <1>7
      <3>3. View!Prefix(q, i) = View!Prefix(row, i)
        BY <1>9, <3>2
      <3>. QED BY <1>5, <1>14, <2>2, <3>1, <3>2, <3>3
    <2>4. m \notin View!Around'
      BY <1>9, <1>17, <2>2
    <2>5. \A i \in View!Around' : i \in 1..m
      BY <2>2
    <2>6. \A i \in View!Around : i \in 1..m
      BY <1>4, <1>5, <1>6, <1>7
    <2>7. \A i \in 1..m : i = m \/ i \in 1..(m - 1)
      BY <1>4, <1>7
    <2>. QED BY <2>3, <2>4, <2>5, <2>6, <2>7
  <1>19. View!Cardinality(View!Around') = View!Cardinality(View!Around) - 1
    <2>1. IsFiniteSet(View!Around)
      <3>1. IsFiniteSet(1..Len(row))
        BY <1>4, FS_Interval
      <3>. QED BY <1>5, <3>1, FS_Subset
    <2>2. Cardinality(View!Around \ {m}) = Cardinality(View!Around) - 1
      BY <1>6, <2>1, FS_RemoveElement
    <2>3. \A T : View!Cardinality(T) = Cardinality(T)
      BY DEF View!Cardinality, Cardinality
    <2>. QED BY <1>18, <2>2, <2>3
  <1>20. FocusIsShown'
    BY <1>15, <1>16 DEF FocusIsShown
  <1>21. View!EscapeClosesOneStep
    <2>1. viewFocus' # NoValue /\ Len(viewFocus'.row) = m
      BY <1>9, <1>16
    <2>. QED BY <1>6, <1>19, <2>1 DEF View!EscapeClosesOneStep
  <1>. QED BY <1>12, <1>20, <1>21

LEMMA ViewGoesOn ==
    ASSUME View!ViewAssumption, ViewInv, [View!Next]_viewVars PROVE ViewInv'
  <1>. USE DEF ViewInv
  <1>1. ASSUME NEW p \in View!Shown, View!ClickBroadcast(p) PROVE ViewInv'
    <2>1. /\ View!Kind(p) = "broadcast" /\ viewUrl' = View!Toggled(p[Len(p)])
          /\ UNCHANGED <<viewFeed, viewFailing>>
          /\ View!Settled(viewOpened, View!OnRow(p))
      BY <1>1 DEF View!ClickBroadcast
    <2>2. p \in View!Paths /\ p[Len(p)] \in ViewBroadcasts
      BY <2>1, ShownNames
    <2>3. ViewTyped'
      BY <2>1, <2>2 DEF ViewTyped, View!Toggled, View!Tabs
    <2>4. FocusIsShown'
      BY <2>1, <2>2, SettledOnRow
    <2>. QED BY <2>3, <2>4
  <1>2. ASSUME NEW p \in View!Shown, View!ClickDelivery(p) PROVE ViewInv'
    <2>1. /\ View!Kind(p) = "delivery" /\ viewFocus' = View!OnRow(p)
          /\ UNCHANGED <<viewUrl, viewFeed, viewFailing>>
          /\ viewOpened' = (viewOpened \ {p}) \cup ({p} \ viewOpened)
      BY <1>2 DEF View!ClickDelivery
    <2>2. p \in View!Paths /\ View!IsShown(p) /\ Len(p) \in 1..View!Depth
          /\ viewUrl.tab = "activity"
      BY ShownNames
    <2>3. ViewTyped' /\ SameLists
      BY <2>1 DEF ViewTyped, SameLists
    <2>4. ASSUME NEW i \in 1..(Len(p) - 1), View!IsOpen(View!Prefix(p, i))
          PROVE  View!IsOpen(View!Prefix(p, i))'
      <3>1. View!Prefix(p, i) # p
        <4>1. Len(p) \in 1..3 /\ i \in 1..Len(p) /\ i # Len(p)
          BY <2>2, PathFacts
        <4>. QED BY <2>2, <4>1, PrefixFacts
      <3>2. View!Prefix(p, i) \in viewOpened => View!Prefix(p, i) \in viewOpened'
        BY <2>1, <3>1
      <3>. QED BY <2>1, <2>3, <2>4, <3>2, SameMembers DEF View!IsOpen
    <2>5. View!IsShown(p)'
      BY <2>1, <2>2, <2>3, <2>4, StillShown
    <2>. QED BY <2>1, <2>2, <2>3, <2>5, OnRowTyped DEF FocusIsShown
  <1>3. ASSUME NEW p \in View!Shown, View!ClickGroup(p) PROVE ViewInv'
    <2>1. /\ View!Kind(p) = "group" /\ UNCHANGED <<viewFeed, viewFailing>>
          /\ viewUrl' = [viewUrl EXCEPT !.endpoint =
                           (View!Groups \ {p[1]}) \cup ({p[1]} \ View!Groups)]
          /\ View!Settled(viewOpened, View!OnRow(p))
      BY <1>3 DEF View!ClickGroup
    <2>2. p \in View!Paths /\ p[1] \in ViewEndpoints
      BY <2>1, ShownNames
    <2>3. View!Groups \subseteq ViewEndpoints
      <3>1. viewUrl.endpoint = Absent \/ viewUrl.endpoint \subseteq ViewEndpoints
        BY DEF ViewTyped
      <3>2. {ViewTop} \subseteq ViewEndpoints
        BY DEF View!ViewAssumption
      <3>. QED BY <3>1, <3>2 DEF View!Groups
    <2>4. ViewTyped'
      BY <2>1, <2>2, <2>3 DEF ViewTyped
    <2>5. FocusIsShown'
      BY <2>1, <2>2, SettledOnRow
    <2>. QED BY <2>4, <2>5
  <1>4. ASSUME NEW p \in View!Shown, View!Enter(p) PROVE ViewInv'
    BY <1>4, FocusMoves DEF View!Enter
  <1>5. ASSUME NEW f \in {"all", "failed"}, View!SetFilter(f) PROVE ViewInv'
    BY <1>5 DEF View!SetFilter, ViewTyped, FocusIsShown
  <1>6. ASSUME NEW tab \in View!Tabs, View!ClickTab(tab) PROVE ViewInv'
    <2>1. viewUrl' = [tab |-> tab, at |-> NoValue, filter |-> "all", endpoint |-> Absent]
          /\ viewFocus' = NoValue /\ UNCHANGED <<viewFeed, viewFailing>>
      BY <1>6 DEF View!ClickTab, View!Plain
    <2>2. ViewTyped'
      BY <1>6, <2>1, UrlTyped DEF ViewTyped
    <2>. QED BY <2>1, <2>2 DEF FocusIsShown
  <1>7. CASE View!Reload
    BY <1>7 DEF View!Reload, ViewTyped, FocusIsShown
  <1>8. CASE View!Poll
    <2>1. ViewTyped'
      <3>1. UNCHANGED viewUrl
        BY <1>8 DEF View!Poll
      <3>2. viewFeed' \subseteq ViewBroadcasts
        BY <1>8 DEF View!Poll, ViewTyped
      <3>3. viewFailing' \in [ViewEndpoints -> SUBSET ViewBroadcasts]
        BY <1>8 DEF View!Poll, ViewTyped
      <3>. QED BY <3>1, <3>2, <3>3 DEF ViewTyped
    <2>2. PICK f : /\ f = viewFocus
                   /\ viewFocus' = IF f # NoValue /\ View!IsShown(f.row)' THEN f ELSE NoValue
      BY <1>8 DEF View!Poll, View!Settled
    <2>3. FocusIsShown'
      BY <2>2, SettledIsShown DEF FocusIsShown
    <2>. QED BY <2>1, <2>3
  <1>9. CASE View!Escape
    BY <1>9, EscapeFacts
  <1>10. ASSUME View!Arrow(TRUE) \/ View!Arrow(FALSE) \/ View!Jump PROVE ViewInv'
    <2>1. UNCHANGED View!view
      BY <1>10 DEF View!Arrow, View!Jump
    <2>2. viewFocus' = viewFocus \/ \E p \in View!Shown : viewFocus' = View!OnRow(p)
      BY <1>10 DEF View!Arrow, View!Jump, View!OwnRows
    <2>3. viewFocus # NoValue /\ ~viewFocus.inside
      BY <1>10 DEF View!Arrow, View!Jump
    <2>4. viewFocus.row \in View!Shown /\ viewFocus \in [row : View!Paths, inside : BOOLEAN]
      BY <2>3 DEF FocusIsShown, View!Shown
    <2>5. viewFocus = View!OnRow(viewFocus.row)
      BY <2>3, <2>4 DEF View!OnRow
    <2>6. PICK p \in View!Shown : viewFocus' = View!OnRow(p)
      <3>1. CASE viewFocus' = viewFocus
        BY <2>4, <2>5, <3>1
      <3>. QED BY <2>2, <3>1
    <2>. QED BY <2>1, <2>6, FocusMoves
  <1>11. CASE UNCHANGED viewVars
    <2>1. /\ UNCHANGED <<viewUrl, viewFeed, viewFailing, viewOpened, viewFocus>>
      BY <1>11 DEF viewVars
    <2>2. ViewTyped' /\ UNCHANGED View!view /\ (viewFocus = NoValue => FocusIsShown')
      BY <2>1 DEF ViewTyped, View!view, FocusIsShown
    <2>3. ASSUME viewFocus # NoValue PROVE ViewInv'
      <3>1. viewFocus \in [row : View!Paths, inside : BOOLEAN] /\ viewFocus.row \in View!Shown
        BY <2>3 DEF FocusIsShown, View!Shown
      <3>2. viewFocus = View!OnRow(viewFocus.row)
            \/ viewFocus = [row |-> viewFocus.row, inside |-> TRUE]
        BY <3>1 DEF View!OnRow
      <3>. DEFINE p == viewFocus.row
      <3>3. PICK q \in View!Shown : q = p
        BY <3>1
      <3>. QED BY <2>1, <2>2, <3>2, <3>3, FocusMoves
    <2>. QED BY <2>2, <2>3
  <1>. QED BY <1>1, <1>2, <1>3, <1>4, <1>5, <1>6, <1>7, <1>8, <1>9, <1>10,
          <1>11
          DEF View!Next
\* The arrow keys, Home and End move in the list the focus is in.
LEMMA KeysMoveInList == ASSUME ViewInv PROVE View!KeysStayInListStep
  <1>1. ASSUME NEW q, NEW p, q \in View!OwnRows(View!ListOf(p))
        PROVE  View!ListOf(q) = View!ListOf(p)
    <2>1. Len(q) = Len(View!ListOf(p)) + 1 /\ Len(q) \in 1..3
      BY <1>1, PathFacts DEF View!OwnRows, View!Shown
    <2>2. Len(View!ListOf(p)) = Len(q) - 1
      <3>1. PICK t : t = View!ListOf(p)
        OBVIOUS
      <3>2. Len(t) \in Nat
        OBVIOUS
      <3>. QED BY <2>1, <3>1, <3>2
    <2>3. View!Prefix(q, Len(q) - 1) = View!ListOf(p)
      BY <1>1, <2>2 DEF View!OwnRows
    <2>. QED BY <2>3 DEF View!Prefix, View!ListOf
  <1>2. ASSUME View!Arrow(TRUE) \/ View!Arrow(FALSE) \/ View!Jump
        PROVE  View!ListOf(viewFocus'.row) = View!ListOf(viewFocus.row) /\ ~viewFocus'.inside
    <2>1. ~viewFocus.inside
      BY <1>2 DEF View!Arrow, View!Jump
    <2>2. \/ viewFocus' = viewFocus
          \/ \E q \in View!OwnRows(View!ListOf(viewFocus.row)) : viewFocus' = View!OnRow(q)
      BY <1>2 DEF View!Arrow, View!Jump
    <2>3. CASE viewFocus' = viewFocus
      BY <2>1, <2>3
    <2>4. CASE viewFocus' # viewFocus
      <3>1. PICK q \in View!OwnRows(View!ListOf(viewFocus.row)) : viewFocus' = View!OnRow(q)
        BY <2>2, <2>4
      <3>. QED BY <1>1, <3>1 DEF View!OnRow
    <2>. QED BY <2>3, <2>4
  <1>. QED BY <1>2 DEF View!KeysStayInListStep

-----------------------------------------------------------------------------
(* The types of the dashboard's components.                                *)

FreshCounts ==
    /\ freshServer \in 1..FreshMaxChanges + 1
    /\ freshData \in 0..freshServer /\ freshRead \in 0..freshServer
    /\ freshOwed \in 0..freshServer
    /\ freshHides \in 0..FreshMaxHides /\ freshFailures \in 0..FreshMaxFailures
FreshFlags ==
    /\ freshVisible \in BOOLEAN /\ freshIsError \in BOOLEAN
    /\ freshFetching \in BOOLEAN /\ freshInterval \in BOOLEAN

LEMMA FreshTypesAre == ASSUME FreshCounts, FreshFlags PROVE Fresh!TypeOK
  <1>1. {freshRead, freshOwed} \subseteq 0..freshServer
    BY Zenon DEF FreshCounts
  <1>2. {freshVisible, freshIsError, freshFetching, freshInterval} \subseteq BOOLEAN
    BY Zenon DEF FreshFlags
  <1>. QED BY Zenon, <1>1, <1>2 DEF FreshCounts, Fresh!TypeOK

LEMMA FreshTypesBegin ==
    ASSUME Fresh!FreshnessAssumption, Fresh!Init PROVE FreshCounts /\ FreshFlags
  <1>1. FreshCounts
    BY DEF Fresh!FreshnessAssumption, Fresh!Init, FreshCounts
  <1>2. FreshFlags
    BY Zenon DEF Fresh!Init, FreshFlags, Fresh!FreshnessRefetchInterval
  <1>. QED BY <1>1, <1>2

LEMMA FreshTypesGoOn ==
    ASSUME Fresh!FreshnessAssumption, FreshCounts, FreshFlags, [Fresh!Next]_freshVars
    PROVE  FreshCounts' /\ FreshFlags'
  <1>. USE Fresh!FreshnessAssumption DEF Fresh!FreshnessAssumption, Fresh!Next, Fresh!Change,
       Fresh!Poll, Fresh!FetchReads, Fresh!FetchLands, Fresh!FetchFails, Fresh!Hide,
       Fresh!Show, Fresh!RefetchOnVisible, Fresh!FreshnessRefetchInterval, freshVars
  <1>1. FreshCounts'
    BY DEF FreshCounts
  <1>2. FreshFlags'
    BY Zenon DEF FreshFlags
  <1>. QED BY <1>1, <1>2

-----------------------------------------------------------------------------
(* A deleted Endpoint stays deleted, in the row, on the list and on a poll
   under way: so a form that is gone with its row does not come back.      *)

EditorRows == [EditEndpoints -> EditValues \cup {Deleted}]
EditorSaves ==
    [of : EditEndpoints, value : EditValues, press : Nat, reply : {NoValue, "ok", "failed"}]
EditorGoneFor(rows) == \A e \in EditEndpoints : editList[e] = Deleted => rows[e] = Deleted
EditorStillGone(rows) == \A e \in EditEndpoints : rows[e] = Deleted => editServer[e] = Deleted

EditorLists ==
    /\ editServer \in EditorRows /\ editList \in EditorRows /\ EditorGoneFor(editServer)
    /\ editPoll # NoValue => /\ editPoll.rows \in EditorRows
                             /\ EditorGoneFor(editPoll.rows) /\ EditorStillGone(editPoll.rows)
    /\ editSaves \subseteq EditorSaves

EditorForm ==
    /\ editEditingId \in EditEndpoints \cup {NoValue}
    /\ editPendingSwitchId \in EditEndpoints \cup {NoValue}
    /\ editForm # NoValue <=> Editor!Mounted
    /\ editForm # NoValue => editForm \in EditValues \cup EditMalformed

EditorFlags == editDirty \in BOOLEAN /\ editSubmitted \in BOOLEAN

EditorCounts ==
    /\ editChanges \in 0..EditMaxChanges /\ editTyped \in 0..EditMaxTyped
    /\ editPressed \in 0..EditMaxSaves

EditorTypes == EditorLists /\ EditorForm /\ EditorFlags /\ EditorCounts

LEMMA EditorTypesAre == ASSUME EditorTypes PROVE Editor!TypeOK
  <1>1. (editForm # NoValue) = Editor!Mounted
    BY DEF EditorTypes, EditorForm, Editor!Mounted
  <1>. QED BY <1>1 DEF EditorTypes, EditorLists, EditorRows, EditorForm, EditorFlags,
           EditorCounts,
          Editor!TypeOK

LEMMA EditorTypesBegin ==
    ASSUME Editor!EditorAssumption, Editor!Init PROVE EditorTypes
  <1>1. editServer \in [EditEndpoints -> EditValues] /\ editList = editServer
    BY DEF Editor!Init
  <1>2. editServer \in EditorRows
    BY <1>1 DEF EditorRows
  <1>3. EditorLists
    BY <1>1, <1>2 DEF Editor!Init, EditorLists, EditorGoneFor
  <1>4. EditorForm
    BY DEF Editor!Init, EditorForm, Editor!Mounted
  <1>5. EditorFlags
    BY Zenon DEF Editor!Init, EditorFlags
  <1>6. EditorCounts
    BY DEF Editor!Init, Editor!EditorAssumption, EditorCounts
  <1>. QED BY <1>3, <1>4, <1>5, <1>6 DEF EditorTypes

LEMMA EditorListsGoOn ==
    ASSUME Editor!EditorAssumption, EditorTypes, [Editor!Next]_editVars
    PROVE  EditorLists'
  <1>. USE DEF EditorLists, EditorGoneFor, EditorStillGone
  <1>. EditorLists
    BY DEF EditorTypes
  <1>1. CASE UNCHANGED <<editServer, editList, editPoll>> /\ editSaves' \subseteq editSaves
    BY <1>1
  <1>2. ASSUME NEW e \in EditEndpoints, NEW v \in EditValues \cup {Deleted},
               editServer[e] # Deleted, editServer' = [editServer EXCEPT ![e] = v],
               UNCHANGED <<editList, editPoll>>,
               editSaves' \subseteq EditorSaves
        PROVE  EditorLists'
    <2>1. editServer' \in EditorRows
      BY <1>2 DEF EditorRows
    <2>2. \A f \in EditEndpoints : editServer[f] = Deleted => editServer'[f] = Deleted
      BY <1>2 DEF EditorRows
    <2>. QED BY <1>2, <2>1, <2>2
  <1>3. ASSUME NEW e \in EditEndpoints,
               Editor!OthersChange(e) \/ Editor!OthersDelete(e) \/ Editor!RowClick(e)
        PROVE  EditorLists'
    <2>1. CASE Editor!OthersChange(e) \/ Editor!OthersDelete(e)
      BY <1>2, <2>1 DEF Editor!OthersChange, Editor!OthersDelete
    <2>2. CASE Editor!RowClick(e)
      BY <1>1, <2>2 DEF Editor!RowClick
    <2>. QED BY <1>3, <2>1, <2>2
  <1>4. ASSUME NEW s \in editSaves, Editor!Commit(s) PROVE EditorLists'
    <2>1. editSaves' \subseteq EditorSaves
      <3>1. \A word \in {"ok", "failed"} : [s EXCEPT !.reply = word] \in EditorSaves
        BY DEF EditorSaves
      <3>. QED BY <1>4, <3>1 DEF Editor!Commit
    <2>2. CASE editServer[s.of] = Deleted
      BY <1>4, <2>1, <2>2 DEF Editor!Commit
    <2>3. CASE editServer[s.of] # Deleted
      <3>1. /\ editServer' = [editServer EXCEPT ![s.of] = s.value]
            /\ UNCHANGED <<editList, editPoll>>
        BY <1>4, <2>3 DEF Editor!Commit
      <3>2. s.of \in EditEndpoints /\ s.value \in EditValues
        BY DEF EditorSaves
      <3>. QED BY <1>2, <2>1, <2>3, <3>1, <3>2
    <2>. QED BY <2>2, <2>3
  <1>5. ASSUME NEW s \in editSaves, Editor!SaveAnswered(s) \/ Editor!SaveFailed(s)
        PROVE  EditorLists'
    <2>1. CASE Editor!SaveAnswered(s)
      <3>1. /\ editPoll' = [rows |-> editServer] /\ UNCHANGED <<editServer, editList>>
            /\ editSaves' \subseteq editSaves
        BY <2>1 DEF Editor!SaveAnswered
      <3>. QED BY <3>1
    <2>2. CASE Editor!SaveFailed(s)
      BY <1>1, <2>2 DEF Editor!SaveFailed
    <2>. QED BY <1>5, <2>1, <2>2
  <1>6. CASE Editor!Poll
    BY <1>6 DEF Editor!Poll
  <1>7. CASE Editor!PollLands
    BY <1>7 DEF Editor!PollLands
  <1>8. CASE Editor!Type \/ Editor!Cancel \/ Editor!DiscardAndSwitch \/ Editor!KeepEditing
    BY <1>1, <1>8 DEF Editor!Type, Editor!Cancel, Editor!DiscardAndSwitch, Editor!KeepEditing
  <1>9. CASE Editor!Submit
    <2>1. /\ editEditingId \in EditEndpoints /\ editForm \in EditValues
          /\ editPressed \in Nat
      BY <1>9 DEF Editor!Submit, Editor!Mounted, Editor!Accepted, EditorTypes, EditorForm,
         EditorCounts
    <2>. QED BY <1>9, <2>1 DEF Editor!Submit, EditorSaves
  <1>10. CASE UNCHANGED editVars
    BY <1>1, <1>10 DEF editVars
  <1>. QED BY <1>3, <1>4, <1>5, <1>6, <1>7, <1>8, <1>9, <1>10 DEF Editor!Next

LEMMA EditorFormGoesOn ==
    ASSUME Editor!EditorAssumption, EditorTypes, [Editor!Next]_editVars
    PROVE  EditorForm'
  <1>. USE DEF Editor!Mounted, Editor!Listed
  <1>. EditorForm /\ EditorLists
    BY DEF EditorTypes
  <1>. NoValue \notin EditEndpoints \cup EditValues \cup EditMalformed
    BY DEF Editor!EditorAssumption
  <1>1. CASE UNCHANGED <<editList, editEditingId, editForm>>
             /\ editPendingSwitchId' \in EditEndpoints \cup {NoValue}
    BY <1>1 DEF EditorForm
  <1>2. ASSUME NEW e \in EditEndpoints \cup {NoValue}, Editor!OpenEditor(e),
               e # NoValue => editList[e] # Deleted, UNCHANGED editList
        PROVE  EditorForm'
    BY <1>2 DEF Editor!OpenEditor, EditorForm, EditorLists, EditorRows
  <1>3. ASSUME NEW e \in EditEndpoints,
               Editor!OthersChange(e) \/ Editor!OthersDelete(e) \/ Editor!RowClick(e)
        PROVE  EditorForm'
    <2>1. CASE Editor!OthersChange(e) \/ Editor!OthersDelete(e)
      BY <1>1, <2>1 DEF Editor!OthersChange, Editor!OthersDelete, Editor!tab, EditorForm
    <2>2. CASE Editor!RowClick(e)
      BY <1>1, <1>2, <2>2 DEF Editor!RowClick
    <2>. QED BY <1>3, <2>1, <2>2
  <1>4. ASSUME NEW s \in editSaves,
               Editor!Commit(s) \/ Editor!SaveAnswered(s) \/ Editor!SaveFailed(s)
        PROVE  EditorForm'
    <2>1. CASE Editor!Commit(s) \/ Editor!SaveFailed(s)
      BY <1>1, <2>1 DEF Editor!Commit, Editor!SaveFailed, Editor!tab, EditorForm
    <2>2. CASE Editor!SaveAnswered(s)
      BY <1>2, <2>2 DEF Editor!SaveAnswered, Editor!CloseEditing
    <2>. QED BY <1>4, <2>1, <2>2
  <1>5. CASE Editor!PollLands
    BY <1>5 DEF Editor!PollLands, EditorForm, EditorLists, EditorGoneFor
  <1>6. CASE Editor!Type
    BY <1>6 DEF Editor!Type, EditorForm
  <1>7. CASE Editor!Cancel
    BY <1>2, <1>7 DEF Editor!Cancel, Editor!CloseEditing
  <1>8. CASE Editor!DiscardAndSwitch
    BY <1>2, <1>8 DEF Editor!DiscardAndSwitch, Editor!Asking, EditorForm
  <1>9. CASE Editor!Poll \/ Editor!KeepEditing \/ Editor!Submit \/ UNCHANGED editVars
    BY <1>1, <1>9 DEF Editor!Poll, Editor!KeepEditing, Editor!Submit, Editor!tab, editVars,
       EditorForm
  <1>. QED BY <1>3, <1>4, <1>5, <1>6, <1>7, <1>8, <1>9 DEF Editor!Next

LEMMA EditorTypesGoOn ==
    ASSUME Editor!EditorAssumption, EditorTypes, [Editor!Next]_editVars
    PROVE  EditorTypes'
  <1>. USE DEF EditorTypes
  <1>1. EditorCounts'
    <2>1. CASE UNCHANGED editVars
      BY <2>1 DEF editVars, EditorCounts
    <2>2. CASE Editor!Next
      BY <2>2 DEF EditorCounts, Editor!Next, Editor!OthersChange, Editor!OthersDelete,
         Editor!RowClick, Editor!Commit, Editor!SaveAnswered, Editor!SaveFailed, Editor!Poll,
         Editor!PollLands, Editor!Type, Editor!Cancel, Editor!DiscardAndSwitch,
         Editor!KeepEditing, Editor!Submit, Editor!EditorAssumption
    <2>. QED BY <2>1, <2>2
  <1>2. EditorFlags'
    <2>1. CASE UNCHANGED editVars
      BY <2>1 DEF editVars, EditorFlags
    <2>2. CASE Editor!Next
      BY <2>2 DEF EditorFlags, Editor!Next, Editor!OthersChange, Editor!OthersDelete,
         Editor!RowClick, Editor!Commit, Editor!SaveAnswered, Editor!SaveFailed, Editor!Poll,
         Editor!PollLands, Editor!Type, Editor!Cancel, Editor!DiscardAndSwitch,
         Editor!KeepEditing, Editor!Submit, Editor!tab, Editor!OpenEditor,
         Editor!CloseEditing, Editor!DirtyAfterPoll
    <2>. QED BY <2>1, <2>2
  <1>. QED BY <1>1, <1>2, EditorListsGoOn, EditorFormGoesOn

-----------------------------------------------------------------------------
(* A batch's calls are the Deliveries it was confirmed for.                *)

BulkCalls == {NoValue, "fulfilled", "rejected"}
BulkRows ==
    /\ bulkDead \subseteq BulkDeliveries /\ bulkDeadLettered \subseteq BulkDeliveries
    /\ bulkPoll # NoValue => bulkPoll.dead \subseteq BulkDeliveries
    /\ bulkQueued \subseteq BulkDeliveries /\ bulkRetries \in 0..BulkMaxRetries
BulkBatch ==
    /\ bulkResults # NoValue <=> bulkRetrying
    /\ bulkResults # NoValue =>
          \E asked \in SUBSET BulkDeliveries : bulkResults \in [asked -> BulkCalls]
    /\ bulkOutcomes # NoValue => DOMAIN bulkOutcomes \subseteq BulkDeliveries
BulkFlags == bulkConfirming \in BOOLEAN /\ bulkRetrying \in BOOLEAN
BulkTypes == BulkRows /\ BulkBatch /\ BulkFlags

LEMMA BulkTypesAre == ASSUME BulkTypes PROVE Bulk!TypeOK
  <1>1. {bulkConfirming, bulkRetrying} \subseteq BOOLEAN
    BY Zenon DEF BulkTypes, BulkFlags
  <1>2. (bulkResults # NoValue) = bulkRetrying
    BY DEF BulkTypes, BulkBatch, BulkFlags
  <1>3. bulkResults # NoValue => DOMAIN bulkResults \subseteq BulkDeliveries
    BY DEF BulkTypes, BulkBatch
  <1>. QED BY <1>1, <1>2, <1>3 DEF BulkTypes, BulkRows, BulkBatch, Bulk!TypeOK

LEMMA BulkTypesBegin == ASSUME Bulk!BulkAssumption, Bulk!Init PROVE BulkTypes
  <1>1. BulkRows
    BY DEF Bulk!BulkAssumption, Bulk!Init, BulkRows
  <1>2. BulkBatch
    BY DEF Bulk!Init, BulkBatch
  <1>3. BulkFlags
    BY Zenon DEF Bulk!Init, BulkFlags
  <1>. QED BY <1>1, <1>2, <1>3 DEF BulkTypes

LEMMA BulkTypesGoOn ==
    ASSUME Bulk!BulkAssumption, BulkTypes, [Bulk!Next]_bulkVars PROVE BulkTypes'
  <1>. BulkRows /\ BulkBatch /\ BulkFlags
    BY DEF BulkTypes
  <1>1. BulkRows'
    <2>. USE DEF BulkRows
    <2>1. CASE UNCHANGED bulkVars
      BY <2>1 DEF bulkVars
    <2>2. ASSUME NEW d \in BulkDeliveries,
                 Bulk!OthersRetry(d) \/ Bulk!Redead(d) \/ Bulk!RetryOne(d)
          PROVE  BulkRows'
      BY <2>2 DEF Bulk!OthersRetry, Bulk!Redead, Bulk!RetryOne, Bulk!BulkAssumption
    <2>3. CASE Bulk!OpenBulk \/ Bulk!CancelBulk \/ Bulk!ConfirmBulk
      BY <2>3 DEF Bulk!OpenBulk, Bulk!CancelBulk, Bulk!ConfirmBulk
    <2>4. CASE Bulk!Settle \/ Bulk!Poll \/ Bulk!PollLands
      BY <2>4 DEF Bulk!Settle, Bulk!Poll, Bulk!PollLands
    <2>. QED BY <2>1, <2>2, <2>3, <2>4 DEF Bulk!Next
  <1>2. BulkBatch'
    <2>. USE DEF BulkBatch
    <2>1. CASE UNCHANGED <<bulkResults, bulkOutcomes, bulkRetrying>>
      BY <2>1
    <2>2. ASSUME NEW d \in BulkDeliveries, Bulk!RetryOne(d) PROVE BulkBatch'
      <3>1. PICK asked \in SUBSET BulkDeliveries : bulkResults \in [asked -> BulkCalls]
        BY <2>2 DEF Bulk!RetryOne
      <3>2. bulkResults' \in [asked -> BulkCalls]
        BY <2>2, <3>1 DEF Bulk!RetryOne, BulkCalls
      <3>3. bulkResults' # NoValue
        BY <3>2 DEF Bulk!BulkAssumption, BulkCalls
      <3>. QED BY <2>2, <3>2, <3>3 DEF Bulk!RetryOne
    <2>3. CASE Bulk!ConfirmBulk
      <3>1. bulkResults' \in [bulkDeadLettered -> BulkCalls]
        BY <2>3 DEF Bulk!ConfirmBulk, BulkCalls
      <3>2. bulkDeadLettered \in SUBSET BulkDeliveries
        BY DEF BulkRows
      <3>3. bulkResults' # NoValue
        BY <3>1, <3>2 DEF Bulk!BulkAssumption, BulkCalls
      <3>. QED BY <2>3, <3>1, <3>2, <3>3 DEF Bulk!ConfirmBulk
    <2>4. CASE Bulk!Settle
      BY <2>4 DEF Bulk!Settle, Bulk!Report
    <2>. QED BY <2>1, <2>2, <2>3, <2>4 DEF Bulk!Next, Bulk!OthersRetry, Bulk!Redead,
            Bulk!OpenBulk, Bulk!CancelBulk, Bulk!Poll, Bulk!PollLands, Bulk!Mounted, bulkVars
  <1>3. BulkFlags'
    BY Zenon DEF BulkFlags, Bulk!Next, Bulk!OthersRetry, Bulk!Redead, Bulk!RetryOne,
       Bulk!OpenBulk, Bulk!CancelBulk, Bulk!ConfirmBulk, Bulk!Settle, Bulk!Poll,
       Bulk!PollLands, Bulk!Mounted, bulkVars
  <1>. QED BY <1>1, <1>2, <1>3 DEF BulkTypes

-----------------------------------------------------------------------------
(* The numbers a question was asked on.                                    *)

ReplayRows ==
    /\ replayEnabled \subseteq ReplayEndpoints
    /\ replayEndpoints = NoValue \/ replayEndpoints \subseteq ReplayEndpoints
    /\ replayRefetch # NoValue =>
          /\ replayRefetch = [read |-> replayRefetch.read]
          /\ replayRefetch.read = NoValue \/ replayRefetch.read \subseteq ReplayEndpoints
    /\ replaySeen \subseteq 0..Replay!Cardinality(ReplayEndpoints)
    /\ replayAsked \in 0..ReplayMaxAsked /\ replaySwitches \in 0..ReplayMaxSwitches
ReplayFlags ==
    /\ replayAsking \in BOOLEAN /\ replayReplaying \in BOOLEAN
    /\ replayReplayed \in BOOLEAN /\ replayReplayError \in BOOLEAN
    /\ replayIsError \in BOOLEAN /\ replayJoined \in BOOLEAN
ReplayTypes == ReplayRows /\ ReplayFlags

LEMMA ReplayCounts ==
    ASSUME Replay!ReplayAssumption, NEW S \in SUBSET ReplayEndpoints
    PROVE  Replay!Cardinality(S) \in 0..Replay!Cardinality(ReplayEndpoints)
  <1>1. \A T : Replay!Cardinality(T) = Cardinality(T)
    BY DEF Replay!Cardinality, Cardinality
  <1>2. IsFiniteSet(ReplayEndpoints)
    BY DEF Replay!ReplayAssumption, Replay!IsFiniteSet, IsFiniteSet
  <1>3. /\ Cardinality(S) \in Nat /\ Cardinality(ReplayEndpoints) \in Nat
        /\ Cardinality(S) <= Cardinality(ReplayEndpoints)
    BY <1>2, FS_Subset, FS_CardinalityType
  <1>. QED BY <1>1, <1>3

LEMMA ReplayTypesAre == ASSUME ReplayTypes PROVE Replay!TypeOK
  <1>1. {replayIsError, replayJoined, replayAsking, replayReplaying, replayReplayed,
         replayReplayError} \subseteq BOOLEAN
    BY Zenon DEF ReplayTypes, ReplayFlags
  <1>. QED BY <1>1 DEF ReplayTypes, ReplayRows, Replay!TypeOK

LEMMA ReplayTypesBegin == ASSUME Replay!ReplayAssumption, Replay!Init PROVE ReplayTypes
  <1>1. ReplayRows
    BY DEF Replay!ReplayAssumption, Replay!Init, ReplayRows, Replay!Started
  <1>2. ReplayFlags
    BY Zenon DEF Replay!Init, ReplayFlags
  <1>. QED BY <1>1, <1>2 DEF ReplayTypes

LEMMA ReplayTypesGoOn ==
    ASSUME Replay!ReplayAssumption, ReplayTypes, [Replay!Next]_replayVars PROVE ReplayTypes'
  <1>. ReplayRows /\ ReplayFlags
    BY DEF ReplayTypes
  <1>. ReplayMaxAsked \in Nat /\ ReplayMaxSwitches \in Nat
    BY DEF Replay!ReplayAssumption
  <1>1. ReplayRows'
    <2>. USE DEF ReplayRows, Replay!query, Replay!Started
    <2>1. CASE UNCHANGED replayVars
      BY <2>1 DEF replayVars
    <2>2. ASSUME NEW e \in ReplayEndpoints, Replay!Switch(e) PROVE ReplayRows'
      <3>1. replayEnabled' \in SUBSET ReplayEndpoints
        BY <2>2 DEF Replay!Switch
      <3>2. Replay!Cardinality(replayEnabled') \in 0..Replay!Cardinality(ReplayEndpoints)
        BY <3>1, ReplayCounts
      <3>3. replaySeen' \subseteq 0..Replay!Cardinality(ReplayEndpoints)
        BY <2>2, <3>2 DEF Replay!Switch
      <3>4. replaySwitches' \in 0..ReplayMaxSwitches
        BY <2>2 DEF Replay!Switch
      <3>5. UNCHANGED <<replayEndpoints, replayRefetch, replayAsked>>
        BY <2>2 DEF Replay!Switch
      <3>. QED BY <3>1, <3>3, <3>4, <3>5
    <2>3. CASE Replay!OpenReplay
      <3>1. Replay!Cardinality(replayEnabled) \in 0..Replay!Cardinality(ReplayEndpoints)
        BY ReplayCounts
      <3>. QED BY <2>3, <3>1 DEF Replay!OpenReplay, Replay!Refetches
    <2>4. CASE Replay!RefetchLands
      BY <2>4 DEF Replay!RefetchLands
    <2>5. CASE Replay!CancelReplay \/ Replay!ConfirmReplay \/ Replay!ReplayAnswered
      BY <2>5 DEF Replay!CancelReplay, Replay!ConfirmReplay, Replay!ReplayAnswered
    <2>6. CASE Replay!Focus \/ Replay!RefetchReads \/ Replay!RefetchFails
      BY <2>6 DEF Replay!Focus, Replay!RefetchReads, Replay!RefetchFails
    <2>. QED BY <2>1, <2>2, <2>3, <2>4, <2>5, <2>6 DEF Replay!Next
  <1>2. ReplayFlags'
    BY Zenon DEF ReplayFlags, Replay!Next, Replay!Switch, Replay!OpenReplay,
       Replay!Refetches, Replay!Focus, Replay!RefetchReads, Replay!RefetchLands,
       Replay!RefetchFails, Replay!CancelReplay, Replay!ConfirmReplay,
       Replay!ReplayAnswered, Replay!query, replayVars
  <1>. QED BY <1>1, <1>2 DEF ReplayTypes

-----------------------------------------------------------------------------
(* The Attempts a retried Delivery can have come to.                       *)

VerdictCountsFrom ==
    /\ verdictServer.count >= VerdictFirst /\ verdictDelivery.count >= VerdictFirst
    /\ verdictPoll # NoValue => verdictPoll.count >= VerdictFirst

\* What is under way has its Attempt left: the budget's, or its retry's.
VerdictBudget ==
    /\ verdictRetries \in 0..VerdictMaxRetries /\ verdictOpened \in 0..VerdictMaxLoads
    /\ verdictServer.count + (IF verdictServer.status \in Verdict!Settled THEN 0 ELSE 1)
          <= (IF VerdictFirst > VerdictMaxAttempts THEN VerdictFirst ELSE VerdictMaxAttempts)
                + verdictRetries

VerdictTypes == VerdictCountsFrom /\ VerdictBudget

LEMMA VerdictTypesAre ==
    ASSUME Verdict!VerdictAssumption, VerdictInv, VerdictTypes PROVE Verdict!TypeOK
  <1>. USE DEF VerdictTypes, VerdictInv
  <1>1. /\ Verdict!MostAttempts \in Nat
        /\ \A n \in Nat : VerdictFirst <= n /\ n <= verdictServer.count
              => n \in VerdictFirst..Verdict!MostAttempts
    BY DEF Verdict!MostAttempts, Verdict!VerdictAssumption, VerdictBudget, VerdictTyped,
       VerdictRow
  <1>2. ASSUME NEW row \in VerdictRow, VerdictFirst <= row.count,
               row.count <= verdictServer.count
        PROVE  row \in Verdict!Rows
    <2>1. row.count \in VerdictFirst..Verdict!MostAttempts
      BY <1>1, <1>2 DEF VerdictRow
    <2>. QED BY <2>1 DEF VerdictRow, Verdict!Rows
  <1>3. verdictServer \in Verdict!Rows
    BY <1>2 DEF VerdictTyped, VerdictCountsFrom, VerdictRow
  <1>4. verdictDelivery \in Verdict!Rows
    BY <1>2 DEF VerdictTyped, VerdictCountsFrom
  <1>5. verdictPoll = NoValue \/ verdictPoll \in Verdict!Rows
    BY <1>2 DEF VerdictTyped, VerdictCountsFrom
  <1>. QED BY <1>3, <1>4, <1>5 DEF Verdict!TypeOK, VerdictTyped, VerdictBudget

LEMMA VerdictTypesBegin ==
    ASSUME Verdict!VerdictAssumption, Verdict!Init PROVE VerdictTypes
  BY DEF Verdict!VerdictAssumption, Verdict!Init, VerdictTypes, VerdictCountsFrom,
     VerdictBudget, Verdict!Settled

LEMMA VerdictTypesGoOn ==
    ASSUME Verdict!VerdictAssumption, VerdictInv, VerdictTypes, [Verdict!Next]_verdictVars
    PROVE  VerdictTypes'
  <1>. USE DEF VerdictTypes, VerdictCountsFrom, VerdictBudget
  <1>1. /\ verdictServer \in VerdictRow /\ verdictRetries \in Nat /\ verdictOpened \in Nat
        /\ VerdictFirst \in Nat /\ VerdictMaxAttempts \in Nat
        /\ VerdictMaxRetries \in Nat /\ VerdictMaxLoads \in Nat
    BY DEF VerdictInv, VerdictTyped, Verdict!VerdictAssumption
  <1>2. CASE UNCHANGED verdictVars
    BY <1>2 DEF verdictVars
  <1>3. ASSUME Verdict!Retry, UNCHANGED <<verdictDelivery, verdictPoll, verdictOpened>>
        PROVE  VerdictTypes'
    BY <1>1, <1>3 DEF Verdict!Retry, Verdict!Settled, VerdictRow
  <1>4. CASE Verdict!OthersRetry \/ Verdict!Accept
    BY <1>3, <1>4 DEF Verdict!OthersRetry, Verdict!Accept
  <1>5. CASE Verdict!Take
    BY <1>1, <1>5 DEF Verdict!Take, Verdict!Settled, VerdictRow
  <1>6. CASE Verdict!Attempt
    BY <1>1, <1>6 DEF Verdict!Attempt, Verdict!Settled, VerdictRow
  <1>7. CASE Verdict!Press \/ Verdict!Refused \/ Verdict!Answered \/ Verdict!Finish
    BY <1>7 DEF Verdict!Press, Verdict!Refused, Verdict!Answered, Verdict!Finish
  <1>8. CASE (\E n \in verdictLoads : Verdict!LoadLands(n)) \/ Verdict!Open
    BY <1>1, <1>8 DEF Verdict!LoadLands, Verdict!Open
  <1>9. CASE Verdict!Poll \/ Verdict!PollLands
    BY <1>9 DEF Verdict!Poll, Verdict!PollLands
  <1>. QED BY <1>2, <1>4, <1>5, <1>6, <1>7, <1>8, <1>9 DEF Verdict!Next

-----------------------------------------------------------------------------
(* The confirmation that is open, and the revocation.                      *)

TokenTypes ==
    /\ tokenConfirming \in TokenTokens \cup {NoValue}
    /\ tokenRevoke # NoValue =>
          tokenRevoke \in [at : {"sent", "served", "refused", "refetching"},
                           channel : TokenChannels, token : TokenTokens \cup {NoValue},
                           shown : TokenTokens \cup {NoValue}]
    /\ tokenUpsets \in 0..TokenMaxUpsets

LEMMA TokenTypesAre == ASSUME TokenInv, TokenTypes PROVE TokensTab!TypeOK
  <1>1. TokenTyped
    BY DEF TokenInv
  <1>2. tokenFetch \in [TokenChannels -> TokensTab!Fetches]
    BY <1>1 DEF TokenTyped, TokensTab!Fetches
  <1>3. \A call \in {tokenMint, tokenRevoke} :
           call # NoValue =>
              call.channel \in TokenChannels /\ call.token \in TokenTokens \cup {NoValue}
    BY <1>1 DEF TokenTyped, TokenTypes, TokensTab!Mints
  <1>. QED BY <1>1, <1>2, <1>3 DEF TokenTyped, TokenTypes, TokensTab!TypeOK

LEMMA TokenTypesBegin ==
    ASSUME TokensTab!TokenAssumption, TokensTab!Init PROVE TokenTypes
  BY DEF TokensTab!TokenAssumption, TokensTab!Init, TokenTypes

LEMMA TokenTypesGoOn ==
    ASSUME TokensTab!TokenAssumption, TokenInv, TokenTypes, [TokensTab!Next]_tokenVars
    PROVE  TokenTypes'
  <1>. USE DEF TokenTypes
  <1>1. /\ tokenChannelId \in TokenChannels /\ tokenMinted \in TokenTokens \cup {NoValue}
        /\ tokenList \in [TokenChannels -> {NoValue} \cup SUBSET TokenTokens]
        /\ TokenMaxUpsets \in Nat
    BY DEF TokenInv, TokenTyped, TokensTab!TokenAssumption
  <1>2. CASE UNCHANGED tokenVars
    BY <1>2 DEF tokenVars
  <1>3. CASE UNCHANGED <<tokenConfirming, tokenRevoke, tokenUpsets>>
    BY <1>3
  <1>4. ASSUME NEW c \in TokenChannels,
               TokensTab!FetchReads(c) \/ TokensTab!FetchSettles(c) \/ TokensTab!MoveTo(c)
        PROVE  TokenTypes'
    <2>1. CASE TokensTab!FetchReads(c)
      BY <1>3, <2>1 DEF TokensTab!FetchReads, TokensTab!panel
    <2>2. CASE TokensTab!FetchSettles(c)
      BY <1>1, <2>2 DEF TokensTab!FetchSettles, TokensTab!Awaited
    <2>3. CASE TokensTab!MoveTo(c)
      BY <1>1, <2>3 DEF TokensTab!MoveTo
    <2>. QED BY <1>4, <2>1, <2>2, <2>3
  <1>5. CASE TokensTab!MintFails
    BY <1>1, <1>5 DEF TokensTab!MintFails
  <1>6. CASE (\E t \in TokenTokens : TokensTab!OpenRevoke(t)) \/ TokensTab!CancelRevoke
    BY <1>6 DEF TokensTab!OpenRevoke, TokensTab!CancelRevoke
  <1>7. CASE TokensTab!ConfirmRevoke
    BY <1>1, <1>7 DEF TokensTab!ConfirmRevoke
  <1>8. CASE TokensTab!RevokeServed
    BY <1>8 DEF TokensTab!RevokeServed
  <1>9. CASE TokensTab!RevokeAnswered
    BY <1>9 DEF TokensTab!RevokeAnswered, TokensTab!Refetching
  <1>10. CASE TokensTab!RevokeFails
    BY <1>1, <1>10 DEF TokensTab!RevokeFails
  <1>11. CASE TokensTab!Poll \/ TokensTab!PressMint \/ TokensTab!MintAnswered
              \/ (\E t \in TokenTokens : TokensTab!MintServed(t))
              \/ (\E c \in TokenChannels, t \in TokenTokens : TokensTab!OthersRevoke(c, t))
    BY <1>3, <1>11 DEF TokensTab!Poll, TokensTab!PressMint, TokensTab!MintAnswered,
       TokensTab!MintServed, TokensTab!OthersRevoke, TokensTab!panel
  <1>. QED BY <1>2, <1>4, <1>5, <1>6, <1>7, <1>8, <1>9, <1>10, <1>11 DEF TokensTab!Next

-----------------------------------------------------------------------------
(* The groups in the address, each once.                                   *)

RollTypes == rollParam = Absent \/ Rollup!IsInjective(rollParam)

LEMMA RollTypesAre ==
    ASSUME Rollup!RollupAssumption, RollInv, RollTypes PROVE Rollup!TypeOK
  <1>1. Rollup!Range(Rollup!Severities) = {"no", "failed", "dead", "off"}
    BY DEF Rollup!Range, Rollup!Severities
  <1>2. \A s \in Seq(RollEndpoints) : Rollup!Range(s) \subseteq RollEndpoints
    BY DEF Rollup!Range
  <1>. QED BY <1>1, <1>2 DEF RollInv, RollTypes, Rollup!TypeOK

LEMMA RollTypesBegin == ASSUME Rollup!Init PROVE RollTypes
  BY DEF Rollup!Init, RollTypes, Rollup!IsInjective

LEMMA RollTypesGoOn ==
    ASSUME Rollup!RollupAssumption, RollInv, RollTypes, [Rollup!Next]_rollVars
    PROVE  RollTypes'
  <1>1. CASE UNCHANGED rollParam
    BY <1>1 DEF RollTypes
  <1>2. ASSUME NEW e \in RollEndpoints, Rollup!Toggle(e) PROVE RollTypes'
    <2>1. Rollup!Expanded \subseteq RollEndpoints
      BY DEF Rollup!Expanded, Rollup!HasParam, Rollup!Range, RollInv
    <2>2. \E ids \in SUBSET RollEndpoints : rollParam' = Rollup!SearchValue(ids)
      BY <1>2, <2>1 DEF Rollup!Toggle
    <2>. QED BY <2>2, SearchValueHolds DEF RollTypes
  <1>. QED BY <1>1, <1>2 DEF Rollup!Next, Rollup!Deliver, Rollup!Poll, Rollup!PollLands,
          Rollup!Reload, rollVars

-----------------------------------------------------------------------------
(* The open rows.                                                          *)

ViewTypes == viewOpened \subseteq View!Paths /\ viewPolls \in 0..ViewMaxPolls

LEMMA ViewTypesAre == ASSUME ViewInv, ViewTypes PROVE View!TypeOK
  BY DEF ViewInv, ViewTyped, FocusIsShown, ViewTypes, View!TypeOK

LEMMA ViewTypesBegin == ASSUME View!ViewAssumption, View!Init PROVE ViewTypes
  BY DEF View!ViewAssumption, View!Init, ViewTypes

LEMMA ViewTypesGoOn ==
    ASSUME View!ViewAssumption, ViewTypes, [View!Next]_viewVars PROVE ViewTypes'
  <1>. USE DEF ViewTypes
  <1>1. CASE UNCHANGED viewVars
    BY <1>1 DEF viewVars
  <1>2. ASSUME NEW open, NEW at, View!Settled(open, at), open \subseteq View!Paths,
               viewPolls' \in 0..ViewMaxPolls
        PROVE  ViewTypes'
    BY <1>2 DEF View!Settled
  <1>3. ASSUME NEW p \in View!Shown, View!ClickBroadcast(p) \/ View!ClickDelivery(p)
                  \/ View!ClickGroup(p) \/ View!Enter(p)
        PROVE  ViewTypes'
    <2>1. p \in View!Paths
      BY DEF View!Shown
    <2>2. CASE View!ClickBroadcast(p)
      BY <1>2, <2>2 DEF View!ClickBroadcast
    <2>3. CASE View!ClickDelivery(p)
      BY <2>1, <2>3 DEF View!ClickDelivery
    <2>4. CASE View!ClickGroup(p)
      BY <1>2, <2>4 DEF View!ClickGroup
    <2>5. CASE View!Enter(p)
      BY <2>5 DEF View!Enter, View!view
    <2>. QED BY <1>3, <2>2, <2>3, <2>4, <2>5
  <1>4. CASE (\E f \in {"all", "failed"} : View!SetFilter(f))
             \/ (\E tab \in View!Tabs : View!ClickTab(tab)) \/ View!Reload
    BY <1>4 DEF View!SetFilter, View!ClickTab, View!Reload
  <1>5. CASE View!Poll
    <2>1. viewPolls' \in 0..ViewMaxPolls
      BY <1>5 DEF View!Poll, View!ViewAssumption
    <2>. QED BY <1>2, <1>5, <2>1 DEF View!Poll
  <1>6. CASE View!Escape
    <2>1. PICK rows, at : View!Settled(viewOpened \ rows, at)
      BY <1>6 DEF View!Escape
    <2>2. viewPolls' = viewPolls
      BY <1>6 DEF View!Escape
    <2>. QED BY <1>2, <2>1, <2>2
  <1>7. CASE View!Arrow(TRUE) \/ View!Arrow(FALSE) \/ View!Jump
    BY <1>7 DEF View!Arrow, View!Jump, View!view
  <1>. QED BY <1>1, <1>3, <1>4, <1>5, <1>6, <1>7 DEF View!Next

-----------------------------------------------------------------------------
(* What was loaded below the first page.                                   *)

FeedTypes ==
    /\ feedExtra \in Seq(FeedBroadcasts) /\ feedFailed \in BOOLEAN
    /\ feedChanges \in 0..FeedMaxChanges /\ feedPressed \in 0..FeedMaxLoads

LEMMA FeedTypesAre == ASSUME FeedInv, FeedTypes PROVE Feed!TypeOK
  BY DEF FeedInv, ListOnScreen, FeedTypes, Feed!TypeOK

LEMMA FeedTypesBegin == ASSUME Feed!FeedAssumption, Feed!Init PROVE FeedTypes
  <1>1. <<>> \in Seq(FeedBroadcasts)
    OBVIOUS
  <1>2. feedExtra \in Seq(FeedBroadcasts) /\ feedChanges = 0 /\ feedPressed = 0
    BY <1>1 DEF Feed!Init
  <1>3. feedFailed \in BOOLEAN
    BY Zenon DEF Feed!Init
  <1>. QED BY <1>2, <1>3 DEF Feed!FeedAssumption, FeedTypes

LEMMA FeedTypesGoOn ==
    ASSUME Feed!FeedAssumption, FeedInv, FeedTypes, [Feed!Next]_feedVars PROVE FeedTypes'
  <1>. FeedMaxChanges \in Nat /\ FeedMaxLoads \in Nat
    BY DEF Feed!FeedAssumption
  <1>1. feedExtra' \in Seq(FeedBroadcasts)
    <2>1. CASE UNCHANGED feedExtra
      BY <2>1 DEF FeedTypes
    <2>2. CASE Feed!PollLands
      <3>1. <<>> \in Seq(FeedBroadcasts)
        OBVIOUS
      <3>. QED BY <2>2, <3>1 DEF Feed!PollLands, Feed!ExtraAfter, FeedTypes
    <2>3. ASSUME NEW r \in feedLoads, Feed!LoadLands(r)
          PROVE  feedExtra' \in Seq(FeedBroadcasts)
      <3>1. r.page.items \in Seq(FeedBroadcasts)
        BY DEF FeedInv, PagesOnTheWay, RunsDown
      <3>. QED BY <2>3, <3>1 DEF Feed!LoadLands, FeedTypes
    <2>. QED BY <2>1, <2>2, <2>3 DEF Feed!Next, Feed!Change, Feed!Poll, Feed!PollFails,
            Feed!LoadMore, Feed!LoadFails, feedVars
  <1>2. feedFailed' \in BOOLEAN
    BY Zenon DEF FeedTypes, Feed!Next, Feed!Change, Feed!Poll, Feed!PollLands, Feed!PollFails,
       Feed!LoadMore, Feed!LoadLands, Feed!LoadFails, feedVars
  <1>3. feedChanges' \in 0..FeedMaxChanges
    <2>1. CASE UNCHANGED feedChanges
      BY <2>1 DEF FeedTypes
    <2>2. CASE Feed!Change
      BY <2>2 DEF Feed!Change, FeedTypes
    <2>. QED BY <2>1, <2>2 DEF Feed!Next, Feed!Poll, Feed!PollLands, Feed!PollFails,
            Feed!LoadMore, Feed!LoadLands, Feed!LoadFails, feedVars
  <1>4. feedPressed' \in 0..FeedMaxLoads
    <2>1. CASE UNCHANGED feedPressed
      BY <2>1 DEF FeedTypes
    <2>2. CASE Feed!LoadMore
      BY <2>2 DEF Feed!LoadMore, FeedTypes
    <2>. QED BY <2>1, <2>2 DEF Feed!Next, Feed!Change, Feed!Poll, Feed!PollLands,
            Feed!PollFails, Feed!LoadLands, Feed!LoadFails, feedVars
  <1>. QED BY <1>1, <1>2, <1>3, <1>4 DEF FeedTypes

-----------------------------------------------------------------------------
(* The counts the directory is ordered by.                                 *)

DirectoryTypes ==
    /\ directoryFailed \in [DirectoryChannels -> 0..DirectoryMaxFailures]
    /\ directoryOff \in [DirectoryChannels -> 0..DirectoryMaxOff]
    /\ directoryMoved \subseteq DirectoryChannels
    /\ directoryChanges \in 0..DirectoryMaxChanges

LEMMA DirectoryTypesAre == ASSUME DirectoryInv, DirectoryTypes PROVE Directory!TypeOK
  BY DEF DirectoryInv, DirectoryRowsTyped, DirectoryChannelRow, CursorTyped, DirectoryTypes,
     Directory!TypeOK

LEMMA DirectoryTypesBegin ==
    ASSUME Directory!DirectoryAssumption, Directory!Init PROVE DirectoryTypes
  BY DEF Directory!DirectoryAssumption, Directory!Init, DirectoryTypes

LEMMA DirectoryTypesGoOn ==
    ASSUME Directory!DirectoryAssumption, DirectoryTypes, [Directory!Next]_directoryVars
    PROVE  DirectoryTypes'
  <1>. USE DEF DirectoryTypes
  <1>. /\ DirectoryMaxFailures \in Nat /\ DirectoryMaxOff \in Nat
       /\ DirectoryMaxChanges \in Nat
    BY DEF Directory!DirectoryAssumption
  <1>1. CASE UNCHANGED directoryVars
    BY <1>1 DEF directoryVars
  <1>2. CASE Directory!Begin \/ Directory!Page
    BY <1>2 DEF Directory!Begin, Directory!Page
  <1>3. ASSUME NEW c \in DirectoryChannels, Directory!Moves(c), Directory!Change,
               UNCHANGED <<directoryFailed, directoryOff>>
        PROVE  DirectoryTypes'
    BY <1>3 DEF Directory!Moves, Directory!Change
  <1>4. ASSUME NEW c \in DirectoryChannels, Directory!CreateChannel(c) PROVE DirectoryTypes'
    BY <1>4 DEF Directory!CreateChannel, Directory!Moves, Directory!Change
  <1>5. ASSUME NEW c \in DirectoryChannels,
               Directory!PatchChannel(c) \/ Directory!DeleteChannel(c)
        PROVE  DirectoryTypes'
    BY <1>3, <1>5 DEF Directory!PatchChannel, Directory!DeleteChannel
  <1>6. ASSUME NEW c \in DirectoryChannels, Directory!CountsChange(c) PROVE DirectoryTypes'
    BY <1>6 DEF Directory!CountsChange, Directory!Moves, Directory!Change
  <1>. QED BY <1>1, <1>2, <1>4, <1>5, <1>6 DEF Directory!Next

-----------------------------------------------------------------------------
(* The sweeper's times.                                                    *)

SweeperTypes ==
    /\ sweepNow <= SweepMaxTime
    /\ \A b \in SweepBroadcasts : sweepReceived[b] # NoTime => sweepReceived[b] <= SweepMaxTime
    /\ sweepUp \in BOOLEAN /\ (sweepDue # NoTime => sweepDue <= SweepMaxTime + SweepInterval)
    /\ \A s \in sweepSweeps : s.n <= SweepMaxSweeps
    /\ sweepCount <= SweepMaxSweeps /\ sweepSwept <= sweepCount

LEMMA SweeperTypesAre ==
    ASSUME Sweeper!RetentionAssumption, SweeperInv, SweeperTypes PROVE Sweeper!TypeOK
  <1>. USE DEF Sweeper!RetentionAssumption, SweeperInv, SweeperTypes
  <1>1. sweepReceived \in [SweepBroadcasts -> 0..SweepMaxTime \cup {NoTime}]
    <2>1. \A b \in SweepBroadcasts : sweepReceived[b] \in 0..SweepMaxTime \cup {NoTime}
      BY DEF SweeperTyped
    <2>. QED BY <2>1 DEF SweeperTyped
  <1>2. sweepDue # NoTime => sweepDue \in 0..(SweepMaxTime + SweepInterval)
    BY DEF SweeperTyped, TicksAreOnTime
  <1>3. \A s \in sweepSweeps : s.days \in SweepWindows /\ s.n \in 0..SweepMaxSweeps
    BY DEF SweeperTyped
  <1>4. /\ sweepNow \in 0..SweepMaxTime /\ sweepCount \in 0..SweepMaxSweeps
        /\ sweepSwept \in 0..sweepCount
    BY DEF SweeperTyped
  <1>. QED BY <1>1, <1>2, <1>3, <1>4 DEF SweeperTyped, Sweeper!TypeOK

LEMMA SweeperTypesBegin ==
    ASSUME Sweeper!RetentionAssumption, Sweeper!Init PROVE SweeperTypes
  <1>1. /\ sweepNow = 0 /\ sweepCount = 0 /\ sweepSwept = 0 /\ sweepSweeps = {}
        /\ sweepDue = NoTime /\ \A b \in SweepBroadcasts : sweepReceived[b] = NoTime
    BY DEF Sweeper!Init
  <1>2. sweepUp \in BOOLEAN
    BY Zenon DEF Sweeper!Init
  <1>3. /\ sweepNow <= SweepMaxTime /\ sweepCount <= SweepMaxSweeps
        /\ sweepSwept <= sweepCount
    BY <1>1 DEF Sweeper!RetentionAssumption
  <1>. QED BY <1>1, <1>2, <1>3 DEF SweeperTypes

LEMMA SweeperTypesGoOn ==
    ASSUME Sweeper!RetentionAssumption, SweeperInv, SweeperTypes, [Sweeper!Next]_sweepVars
    PROVE  SweeperTypes'
  <1>. USE DEF SweeperTypes
  <1>. /\ SweepWindows \subseteq Nat \ {0} /\ SweepInterval \in Nat \ {0} /\ NoTime \notin Int
       /\ SweepMaxTime \in Nat /\ SweepMaxSweeps \in Nat \ {0}
       /\ SweeperTyped /\ CutoffsAreOld /\ TicksAreOnTime
    BY DEF Sweeper!RetentionAssumption, SweeperInv
  <1>1. ASSUME NEW b \in SweepBroadcasts, Sweeper!Receive(b) PROVE SweeperTypes'
    BY <1>1 DEF Sweeper!Receive, Sweeper!worker, SweeperTyped
  <1>2. ASSUME NEW days \in SweepWindows, Sweeper!Boot(days) PROVE SweeperTypes'
    <2>1. sweepSweeps' = sweepSweeps \cup {[cutoff |-> sweepNow - days, days |-> days,
             n |-> 1]}
      BY <1>2 DEF Sweeper!Boot, Sweeper!AtBoot, Sweeper!Sweep
    <2>2. /\ sweepUp' = TRUE /\ sweepCount' = 1 /\ sweepSwept' = 0
          /\ sweepDue' = sweepNow + SweepInterval /\ UNCHANGED <<sweepNow, sweepReceived>>
      BY <1>2 DEF Sweeper!Boot, Sweeper!AtBoot
    <2>. QED BY <2>1, <2>2 DEF SweeperTyped
  <1>3. CASE Sweeper!Tick
    <2>1. sweepSweeps' = sweepSweeps \cup {[cutoff |-> sweepNow - sweepWindow,
             days |-> sweepWindow, n |-> sweepCount + 1]}
      BY <1>3 DEF Sweeper!Tick, Sweeper!Sweep
    <2>2. /\ sweepCount < SweepMaxSweeps /\ sweepCount' = sweepCount + 1
          /\ sweepDue' = sweepNow + SweepInterval
          /\ UNCHANGED <<sweepNow, sweepReceived, sweepUp, sweepSwept>>
      BY <1>3 DEF Sweeper!Tick
    <2>. QED BY <2>1, <2>2 DEF SweeperTyped
  <1>4. CASE Sweeper!Stop
    <2>1. \A s \in sweepSweeps' : s.n = 0
      BY <1>4 DEF Sweeper!Stop, SweeperTyped
    <2>2. sweepUp' \in BOOLEAN
      BY <1>4, Zenon DEF Sweeper!Stop
    <2>3. sweepDue' = NoTime /\ UNCHANGED <<sweepNow, sweepReceived, sweepCount, sweepSwept>>
      BY <1>4 DEF Sweeper!Stop
    <2>. QED BY <2>1, <2>2, <2>3
  <1>5. CASE Sweeper!Pass
    BY <1>5 DEF Sweeper!Pass, Sweeper!worker, SweeperTyped
  <1>6. ASSUME NEW s \in sweepSweeps, Sweeper!SweepDeletes(s) PROVE SweeperTypes'
    <2>1. s.n \in Nat /\ sweepSwept \in Nat /\ sweepCount \in Nat
      BY DEF SweeperTyped
    <2>2. sweepSwept' <= sweepCount
      BY <1>6, <2>1 DEF Sweeper!SweepDeletes, CutoffsAreOld
    <2>3. \A b \in SweepBroadcasts : sweepReceived'[b] # NoTime =>
             sweepReceived'[b] = sweepReceived[b]
      BY <1>6 DEF Sweeper!SweepDeletes
    <2>. QED BY <1>6, <2>2, <2>3 DEF Sweeper!SweepDeletes
  <1>7. CASE UNCHANGED sweepVars \/ \E s \in sweepSweeps : Sweeper!SweepFails(s)
    BY <1>7 DEF sweepVars, Sweeper!SweepFails
  <1>. QED BY <1>1, <1>2, <1>3, <1>4, <1>5, <1>6, <1>7 DEF Sweeper!Next

-----------------------------------------------------------------------------
(* What the New Channel page keeps, and what its refetch reads.            *)

CreationFlags == {createTouched, createCreating, createBanner, createLeft} \subseteq BOOLEAN

CreationLists ==
    /\ createTaken \subseteq CreateSlugs
    /\ createList # NoValue => createList \subseteq CreateSlugs
    /\ createFetch # NoValue =>
          /\ createFetch.read # NoValue => createFetch.read \subseteq CreateSlugs
          /\ createFetch.awaited \in BOOLEAN

CreationOutcome ==
    createOutcome \in [how : {"none", "failed", "made"}, slug : Creation!Fields,
                       stands : BOOLEAN, listed : BOOLEAN]

CreationTypes == CreationFlags /\ CreationLists /\ CreationOutcome

LEMMA CreationTypesAre == ASSUME CreationInv, CreationTypes PROVE Creation!TypeOK
  <1>1. createTouched \in BOOLEAN /\ createCreating \in BOOLEAN /\ createBanner \in BOOLEAN
        /\ createLeft \in BOOLEAN
    BY Zenon DEF CreationTypes, CreationFlags
  <1>2. /\ createSlug \in Creation!Fields
        /\ createRequest # NoValue =>
           createRequest \in [slug : Creation!Fields,
                              at : {"sent", "made", "refused", "listing"}]
    BY DEF CreationInv, CreationTyped
  <1>. QED BY <1>1, <1>2, Zenon DEF CreationTypes, CreationLists, CreationOutcome,
           Creation!TypeOK

LEMMA CreationTypesBegin == ASSUME Creation!Init PROVE CreationTypes
  <1>1. CreationFlags
    BY Zenon DEF Creation!Init, CreationFlags
  <1>2. CreationLists
    BY DEF Creation!Init, CreationLists
  <1>3. CreationOutcome
    BY DEF Creation!Init, CreationOutcome, Creation!Fields
  <1>. QED BY <1>1, <1>2, <1>3 DEF CreationTypes

LEMMA CreationTypesGoOn ==
    ASSUME CreationInv, CreationTypes, [Creation!Next]_createVars PROVE CreationTypes'
  <1>. /\ CreationFlags /\ CreationLists /\ CreationOutcome /\ CreationTyped
       /\ Creation!NothingWrongSent
    BY DEF CreationTypes, CreationInv
  <1>1. CreationFlags'
    BY Zenon DEF CreationFlags, Creation!Next, Creation!Type, Creation!Blur, Creation!Press,
       Creation!BannerAtPress, Creation!Serve, Creation!Lose, Creation!Created,
       Creation!TouchedAfter, Creation!CreateFails, Creation!Poll, Creation!FetchReads,
       Creation!FetchSettles, Creation!OthersChange, Creation!form, Creation!past, createVars
  <1>2. CreationLists'
    <2>. USE DEF CreationLists
    <2>1. CASE UNCHANGED <<createTaken, createList, createFetch>>
      BY <2>1
    <2>2. CASE Creation!Serve
      BY <2>2 DEF Creation!Serve, CreationTyped, Creation!NothingWrongSent, Creation!Invalid,
         Creation!Fields
    <2>3. CASE Creation!Created
      <3>1. CASE createFetch # NoValue /\ createList = NoValue
        <4>1. createFetch' = [createFetch EXCEPT !.awaited = TRUE]
          BY <2>3, <3>1 DEF Creation!Created, Creation!Refetch
        <4>2. createFetch'.read = createFetch.read /\ createFetch'.awaited = TRUE
          BY <3>1, <4>1 DEF CreationTyped
        <4>. QED BY <2>3, <3>1, <4>2 DEF Creation!Created
      <3>2. CASE ~(createFetch # NoValue /\ createList = NoValue)
        <4>1. createFetch'.read = NoValue /\ createFetch'.awaited = TRUE
          BY <2>3, <3>2 DEF Creation!Created, Creation!Refetch
        <4>. QED BY <2>3, <4>1 DEF Creation!Created
      <3>. QED BY <3>1, <3>2
    <2>7. CASE Creation!Poll
      <3>1. createFetch'.read = NoValue /\ createFetch'.awaited = FALSE
        BY <2>7 DEF Creation!Poll
      <3>. QED BY <2>7, <3>1 DEF Creation!Poll
    <2>4. CASE Creation!FetchReads
      <3>1. createFetch'.read = createTaken /\ createFetch'.awaited = createFetch.awaited
        BY <2>4 DEF Creation!FetchReads, CreationTyped
      <3>. QED BY <2>4, <3>1 DEF Creation!FetchReads
    <2>5. ASSUME NEW lands \in BOOLEAN, Creation!FetchSettles(lands) PROVE CreationLists'
      BY <2>5 DEF Creation!FetchSettles
    <2>6. ASSUME NEW s \in CreateSlugs, Creation!OthersChange(s) PROVE CreationLists'
      BY <2>6 DEF Creation!OthersChange
    <2>. QED BY <2>1, <2>2, <2>3, <2>4, <2>5, <2>6, <2>7 DEF Creation!Next,
            Creation!Type, Creation!Blur, Creation!Press, Creation!Lose,
            Creation!CreateFails, createVars
  <1>3. CreationOutcome'
    <2>. USE DEF CreationOutcome
    <2>1. CASE UNCHANGED createOutcome
      BY <2>1
    <2>2. CASE Creation!Created
      BY <2>2 DEF Creation!Created, CreationTyped
    <2>3. CASE Creation!CreateFails
      BY <2>3 DEF Creation!CreateFails
    <2>4. ASSUME NEW lands \in BOOLEAN, Creation!FetchSettles(lands) PROVE CreationOutcome'
      BY <2>4 DEF Creation!FetchSettles
    <2>5. ASSUME NEW s \in CreateSlugs, Creation!OthersChange(s) PROVE CreationOutcome'
      BY <2>5 DEF Creation!OthersChange
    <2>. QED BY <2>1, <2>2, <2>3, <2>4, <2>5 DEF Creation!Next, Creation!Type,
            Creation!Blur, Creation!Press, Creation!Serve, Creation!Lose, Creation!Poll,
            Creation!FetchReads, Creation!past, createVars
  <1>. QED BY <1>1, <1>2, <1>3 DEF CreationTypes

-----------------------------------------------------------------------------
(* The form is blank exactly while nothing is shown.                       *)

PageFormFits == pageForm = Page!Blank <=> Page!Shown = NoValue

PageTypes ==
    /\ PageFormFits
    /\ pageChanges \in 0..PageMaxChanges /\ pageSaves \in 0..PageMaxSaves
    /\ pageEdits \in 0..PageMaxEdits

LEMMA PageTypesAre ==
    ASSUME Page!PageAssumption, PageInv, PageTypes PROVE Page!TypeOK
  <1>1. (pageForm = Page!Blank) = (Page!Shown = NoValue)
    BY DEF PageTypes, PageFormFits
  <1>2. /\ pageRow \in [PageChannels -> [slug : PageSlugs, enabled : BOOLEAN, live : BOOLEAN]]
        /\ pageLookup \in [PageSlugs -> PageChannels \cup {NoValue, Missing}]
    BY DEF PageInv, PageTyped, PageRows
  <1>3. pageRoute.form \in {"id", "slug", "directory"}
    BY DEF PageInv, PageTyped, Page!Routes
  <1>4. \A c \in PageChannels : /\ pageCache[c].data \in Page!Fields \cup {NoValue}
                               /\ pageCache[c].gone \in BOOLEAN
    BY DEF PageInv, PageTyped, PageEntries
  <1>5. pageDanger.open => pageDanger.of \in PageChannels
    BY PageShows DEF PageInv, PageAsked
  <1>. QED BY <1>1, <1>2, <1>3, <1>4, <1>5, Zenon DEF PageTypes, Page!TypeOK

LEMMA PageTypesBegin == ASSUME Page!PageAssumption, Page!Init PROVE PageTypes
  <1>1. /\ pageChanges = 0 /\ pageSaves = 0 /\ pageEdits = 0 /\ pageForm = Page!Blank
        /\ \A c \in PageChannels : pageCache[c].data = NoValue
    BY DEF Page!Init, Page!NoData
  <1>2. Page!Shown = NoValue
    BY <1>1, PageShows, PageBegins DEF PageInv
  <1>. QED BY <1>1, <1>2 DEF Page!PageAssumption, PageTypes, PageFormFits

\* What a render, a keystroke, or a step that shows nothing else leaves.
LEMMA PageFormGoesOn ==
    ASSUME Page!PageAssumption, PageInv, PageTypes, [Page!Next]_pageVars PROVE PageFormFits'
  <1>1. PageTyped'
    BY PageTypedGoesOn DEF PageInv
  <1>2. Page!Shown' \in Page!Fields \cup {NoValue}
    BY <1>1, PageShowsNext
  <1>3. CASE Page!Rendered
    <2>1. CASE Page!Shown' = NoValue
      BY <1>3, <2>1 DEF Page!Rendered, PageFormFits
    <2>2. CASE Page!Shown' # NoValue /\ Page!Refill
      <3>1. pageForm' = [fields |-> Page!Shown', edited |-> {}]
        BY <1>3, <2>2 DEF Page!Rendered
      <3>. QED BY <2>2, <3>1 DEF Page!Blank, PageFormFits
    <2>3. CASE Page!Shown' # NoValue /\ ~Page!Refill
      <3>1. pageForm' = pageForm /\ Page!Shown' = Page!Shown
        BY <1>3, <2>3 DEF Page!Rendered, Page!Refill
      <3>. QED BY <2>3, <3>1 DEF PageFormFits, PageTypes, Page!Blank
    <2>. QED BY <2>1, <2>2, <2>3
  <1>4. ASSUME UNCHANGED <<pageRoute, pageLookup, pageCache>>
        PROVE  Page!Shown' = Page!Shown
    BY <1>4 DEF Page!Shown, Page!NotFound, Page!ChannelId
  <1>5. CASE Page!Edit
    <2>1. UNCHANGED <<pageRoute, pageLookup, pageCache>> /\ Page!Shown # NoValue
      BY <1>5 DEF Page!Edit
    <2>2. pageForm'.edited # {}
      BY <1>5 DEF Page!Edit
    <2>. QED BY <1>4, <2>1, <2>2 DEF PageFormFits, Page!Blank
  <1>6. CASE UNCHANGED <<pageRoute, pageLookup, pageCache, pageForm>>
    BY <1>4, <1>6 DEF PageFormFits, PageTypes, Page!Blank
  <1>. QED BY <1>3, <1>5, <1>6 DEF Page!Next, Page!Land, Page!FetchLookup,
           Page!FetchChannel, Page!LandLookup, Page!LandChannel, Page!Save, Page!Commit,
           Page!SaveAnswered, Page!OpenConfirm, Page!CancelDelete, Page!ConfirmDelete,
           Page!DeleteAnswered, Page!OthersChange, pageVars

LEMMA PageTypesGoOn ==
    ASSUME Page!PageAssumption, PageInv, PageTypes, [Page!Next]_pageVars PROVE PageTypes'
  <1>. /\ PageMaxChanges \in Nat /\ PageMaxSaves \in Nat /\ PageMaxEdits \in Nat
       /\ pageChanges \in 0..PageMaxChanges /\ pageSaves \in 0..PageMaxSaves
       /\ pageEdits \in 0..PageMaxEdits
    BY DEF Page!PageAssumption, PageTypes
  <1>1. CASE UNCHANGED <<pageChanges, pageSaves, pageEdits>>
    BY <1>1, PageFormGoesOn DEF PageTypes
  <1>2. CASE Page!Edit
    <2>1. pageEdits < PageMaxEdits /\ pageEdits' = pageEdits + 1
          /\ UNCHANGED <<pageChanges, pageSaves>>
      BY <1>2 DEF Page!Edit
    <2>. QED BY <2>1, PageFormGoesOn DEF PageTypes
  <1>3. CASE Page!Save
    <2>1. pageSaves < PageMaxSaves /\ pageSaves' = pageSaves + 1
          /\ UNCHANGED <<pageChanges, pageEdits>>
      BY <1>3 DEF Page!Save
    <2>. QED BY <2>1, PageFormGoesOn DEF PageTypes
  <1>4. ASSUME NEW c \in PageChannels, Page!OthersChange(c) PROVE PageTypes'
    <2>1. pageChanges < PageMaxChanges /\ pageChanges' = pageChanges + 1
          /\ UNCHANGED <<pageSaves, pageEdits>>
      BY <1>4 DEF Page!OthersChange
    <2>. QED BY <2>1, PageFormGoesOn DEF PageTypes
  <1>. QED BY <1>1, <1>2, <1>3, <1>4 DEF Page!Next, Page!Land, Page!FetchLookup,
           Page!FetchChannel, Page!LandLookup, Page!LandChannel, Page!Commit,
           Page!SaveAnswered, Page!OpenConfirm, Page!CancelDelete, Page!ConfirmDelete,
           Page!DeleteAnswered, pageVars

-----------------------------------------------------------------------------
(* The Channels and ids of the Endpoint administration.                    *)

AdminTypes ==
    /\ adminLive \subseteq AdminChannels /\ adminMinted \subseteq AdminEndpoints
    /\ adminChanges \in 0..AdminMaxChanges

LEMMA AdminTypesAre == ASSUME AdminP!RowsAndWalk, AdminTypes PROVE Admin!TypeOK
  <1>1. AdminP!Types /\ AdminP!WalkInv
    BY DEF AdminP!RowsAndWalk, AdminP!IInv
  <1>2. AdminP!Endpoint = Admin!Endpoint /\ AdminP!Bodies = Admin!Bodies
    BY DEF AdminP!Endpoint, Admin!Endpoint, AdminP!Bodies, Admin!Bodies
  <1>3. /\ adminRow \in [AdminEndpoints -> Admin!Endpoint \cup {NoValue}]
        /\ adminCall \in [AdminCalls ->
              [channel : AdminChannels, body : Admin!Bodies] \cup {NoValue}]
    BY <1>1, <1>2 DEF AdminP!Types, AdminP!Calling
  <1>4. adminWalk # NoValue =>
           /\ adminWalk.stayers \subseteq AdminEndpoints
           /\ adminWalk.listed \in Seq(AdminEndpoints)
    BY <1>1 DEF AdminP!WalkInv, AdminP!WalkTyped
  <1>. QED BY <1>3, <1>4 DEF AdminTypes, Admin!TypeOK

LEMMA AdminTypesBegin == ASSUME AdminP!AdminAssumption, AdminP!Init PROVE AdminTypes
  BY DEF AdminP!AdminAssumption, AdminP!Init, AdminTypes

LEMMA AdminTypesGoOn ==
    ASSUME AdminP!AdminAssumption, AdminP!RowsAndWalk, AdminTypes,
           [AdminP!Next]_(AdminP!vars)
    PROVE  AdminTypes'
  <1>. USE DEF AdminTypes
  <1>. AdminMaxChanges \in Nat
    BY DEF AdminP!AdminAssumption
  <1>1. CASE UNCHANGED <<adminLive, adminMinted, adminChanges>>
    BY <1>1
  <1>2. ASSUME NEW k \in AdminCalls, NEW c \in AdminChannels, NEW body \in AdminP!Bodies,
               AdminP!Request(k, c, body)
        PROVE  AdminTypes'
    BY <1>2 DEF AdminP!Request
  <1>3. ASSUME NEW k \in AdminCalls, AdminP!Create(k) PROVE AdminTypes'
    BY <1>3 DEF AdminP!Create
  <1>4. ASSUME NEW c \in AdminChannels, AdminP!DeleteChannel(c) PROVE AdminTypes'
    BY <1>4 DEF AdminP!DeleteChannel
  <1>5. ASSUME NEW e \in AdminEndpoints, AdminP!AutoDisable(e) PROVE AdminTypes'
    BY <1>5 DEF AdminP!AutoDisable
  <1>. HIDE DEF AdminTypes
  <1>. QED BY <1>1, <1>2, <1>3, <1>4, <1>5 DEF AdminP!Next, AdminP!Patch, AdminP!Delete,
           AdminP!Begin, AdminP!Page, AdminP!Close, AdminP!vars

-----------------------------------------------------------------------------
(* The rows, the calls and the clock of the auto-disable.                  *)

DisableConstants ==
    /\ DisableWindow \in Nat /\ DisableMaxTime \in Nat \ {0}
    /\ DisablePrunable \subseteq {"open", "succeeded", "failed", "dead_lettered"}
    /\ NoDelivery \notin DisableDeliveries

DisableRows == [status : {"open", "swept"} \cup Disable!Closed, updatedAt : Disable!Times]

DisableCalls ==
    [at : Disable!Steps, delivery : DisableDeliveries \cup {NoDelivery},
     outcome : Disable!Closed \cup {"none"}, time : Disable!Times,
     lastSuccess : Disable!Times, start : Disable!Times, before : Disable!Times]

\* The earliest and the latest of a set of the clock's times.
LEMMA EarliestAndLatest ==
    ASSUME NEW n \in Nat, NEW S, S \subseteq 0..n, S # {}
    PROVE  /\ Disable!Min(S) \in S /\ \A x \in S : Disable!Min(S) <= x
           /\ Disable!Max(S) \in S
  <1>1. \E x \in S : \A y \in S : x <= y
    BY HasLeast
  <1>2. \E x \in S : \A y \in S : x >= y
    <2>. DEFINE T == {n - x : x \in S}
    <2>1. T \in SUBSET Nat /\ T # {}
      <3>1. \A x \in S : x \in Int /\ 0 <= x /\ x <= n
        OBVIOUS
      <3>2. \A x \in S : n - x \in Nat
        BY <3>1
      <3>. QED BY <3>2
    <2>2. PICK t \in T : \A y \in T : t <= y
      <3>. HIDE DEF T
      <3>. QED BY <2>1, HasLeast
    <2>3. PICK x \in S : t = n - x
      BY <2>2
    <2>4. ASSUME NEW y \in S PROVE x >= y
      <3>1. n - x <= n - y
        BY <2>2, <2>3
      <3>. QED BY <3>1, SMT
    <2>. QED BY <2>4
  <1>. QED BY <1>1, <1>2 DEF Disable!Min, Disable!Max

LEMMA DisableTimes ==
    ASSUME DisableConstants, disableDelivery \in [DisableDeliveries -> DisableRows]
    PROVE  /\ Disable!LastSuccess \in Disable!Times
           /\ \A t : Disable!FailuresAfter(t) # {} =>
                 Disable!Min(Disable!FailuresAfter(t)) \in Disable!Times
  <1>. DisableMaxTime \in Nat
    BY DEF DisableConstants
  <1>1. Disable!LastSuccess \in Disable!Times
    <2>. DEFINE S == {Disable!Never} \cup {disableDelivery[d].updatedAt :
               d \in {e \in DisableDeliveries : disableDelivery[e].status = "succeeded"}}
    <2>1. S \subseteq 0..DisableMaxTime /\ S # {}
      BY DEF DisableRows, Disable!Times, Disable!Never
    <2>2. Disable!Max(S) \in S
      <3>. HIDE DEF S
      <3>. QED BY <2>1, EarliestAndLatest
    <2>. QED BY <2>1, <2>2 DEF Disable!LastSuccess, Disable!Times, Disable!Never
  <1>2. ASSUME NEW t, Disable!FailuresAfter(t) # {}
        PROVE  Disable!Min(Disable!FailuresAfter(t)) \in Disable!Times
    <2>1. Disable!FailuresAfter(t) \subseteq 0..DisableMaxTime
      BY DEF Disable!FailuresAfter, DisableRows, Disable!Times, Disable!Never
    <2>2. Disable!Min(Disable!FailuresAfter(t)) \in Disable!FailuresAfter(t)
      BY <1>2, <2>1, EarliestAndLatest
    <2>. QED BY <2>1, <2>2 DEF Disable!Times, Disable!Never
  <1>. QED BY <1>1, <1>2

LEMMA DisableTypesBegin == ASSUME DisableConstants, Disable!Init PROVE Disable!TypeOK
  BY DEF DisableConstants, Disable!Init, Disable!TypeOK, Disable!IdleCall, Disable!Steps,
     Disable!Times, Disable!Never, Disable!Closed, Disable!Failures

\* One processor's step on a row that may have been written.
LEMMA OneCallTyped ==
    ASSUME Disable!TypeOK, NEW p \in DisableProcessors, NEW r \in DisableCalls,
           r.at # "idle" =>
              r.delivery \in DisableDeliveries /\ r.outcome \in Disable!Closed,
           disableCall' = [disableCall EXCEPT ![p] = r],
           disableDelivery' \in [DisableDeliveries -> DisableRows],
           UNCHANGED <<disableEndpoint, disableClock>>
    PROVE  Disable!TypeOK'
  <1>1. disableCall \in [DisableProcessors -> DisableCalls]
    BY DEF Disable!TypeOK, DisableCalls
  <1>2. disableCall' \in [DisableProcessors -> DisableCalls]
    BY <1>1
  <1>3. \A q \in DisableProcessors :
           disableCall'[q].at # "idle" => /\ disableCall'[q].delivery \in DisableDeliveries
                                          /\ disableCall'[q].outcome \in Disable!Closed
    BY <1>1 DEF Disable!TypeOK
  <1>. QED BY <1>2, <1>3 DEF Disable!TypeOK, DisableCalls, DisableRows

LEMMA DisableTypesGoOn ==
    ASSUME DisableConstants, Disable!TypeOK, [Disable!Next]_disableVars
    PROVE  Disable!TypeOK'
  <1>1. /\ Disable!IdleCall \in
              [at : Disable!Steps, delivery : DisableDeliveries \cup {NoDelivery},
               outcome : Disable!Closed \cup {"none"}, time : Disable!Times,
               lastSuccess : Disable!Times, start : Disable!Times, before : Disable!Times]
        /\ Disable!IdleCall.at = "idle"
    BY DEF DisableConstants, Disable!IdleCall, Disable!Steps, Disable!Times, Disable!Never,
       Disable!Closed
  <1>2. disableDelivery \in [DisableDeliveries -> DisableRows]
    BY DEF Disable!TypeOK, DisableRows
  <1>3. /\ Disable!LastSuccess \in Disable!Times /\ disableClock \in Disable!Times
        /\ Disable!Never \in Disable!Times
    BY <1>2, DisableTimes DEF DisableConstants, Disable!TypeOK, Disable!Times, Disable!Never
  <1>4. ASSUME NEW p \in DisableProcessors, NEW d \in DisableDeliveries, Disable!Try(p, d)
        PROVE  Disable!TypeOK'
    <2>1. PICK outcome \in Disable!Closed :
             disableCall' = [disableCall EXCEPT ![p] = [Disable!IdleCall EXCEPT
                !.at = "complete", !.delivery = d, !.outcome = outcome, !.time = disableClock]]
      BY <1>4 DEF Disable!Try
    <2>. QED BY <1>1, <1>3, <1>4, <2>1 DEF Disable!TypeOK, Disable!Try, Disable!Steps
  <1>5. ASSUME NEW p \in DisableProcessors, Disable!Complete(p) PROVE Disable!TypeOK'
    <2>1. Disable!Completed(disableCall[p]) \in DisableRows
      BY <1>5 DEF Disable!TypeOK, Disable!Complete, Disable!At, Disable!Completed, DisableRows
    <2>2. disableDelivery' \in [DisableDeliveries -> DisableRows]
      BY <1>2, <1>5, <2>1 DEF Disable!TypeOK, Disable!Complete
    <2>3. disableCall[p] \in DisableCalls /\ disableCall[p].delivery \in DisableDeliveries
          /\ disableCall[p].outcome \in Disable!Closed
      BY <1>5 DEF Disable!TypeOK, Disable!Complete, Disable!At, DisableCalls
    <2>4. Disable!IdleCall \in DisableCalls
      BY <1>1 DEF DisableCalls
    <2>5. [disableCall[p] EXCEPT !.at = "endpoint", !.before = Disable!LastSuccess]
             \in DisableCalls
      BY <1>3, <2>3 DEF DisableCalls, Disable!Steps
    <2>6. UNCHANGED <<disableEndpoint, disableClock>>
      BY <1>5 DEF Disable!Complete
    <2>7. CASE disableCall[p].outcome = "succeeded"
      <3>1. disableCall' = [disableCall EXCEPT ![p] = Disable!IdleCall]
        BY <1>5, <2>7 DEF Disable!Complete
      <3>. QED BY <1>1, <2>2, <2>4, <2>6, <3>1, OneCallTyped
    <2>8. CASE disableCall[p].outcome # "succeeded"
      <3>. DEFINE r == [disableCall[p] EXCEPT !.at = "endpoint",
                                              !.before = Disable!LastSuccess]
      <3>1. disableCall' = [disableCall EXCEPT ![p] = r]
        BY <1>5, <2>8 DEF Disable!Complete, Disable!TypeOK
      <3>2. r \in DisableCalls /\ r.delivery \in DisableDeliveries
            /\ r.outcome \in Disable!Closed
        BY <2>3, <2>5 DEF DisableCalls
      <3>. HIDE DEF r
      <3>. QED BY <2>2, <2>6, <3>1, <3>2, OneCallTyped
    <2>. QED BY <2>7, <2>8
  <1>6. ASSUME NEW p \in DisableProcessors, Disable!ReadEndpoint(p) PROVE Disable!TypeOK'
    BY <1>1, <1>6 DEF Disable!TypeOK, Disable!At, Disable!ReadEndpoint, Disable!Steps
  <1>7. ASSUME NEW p \in DisableProcessors, Disable!ReadLastSuccess(p) PROVE Disable!TypeOK'
    <2>1. disableCall' = [disableCall EXCEPT ![p] =
             [disableCall[p] EXCEPT !.at = "streak", !.lastSuccess = Disable!LastSuccess]]
      BY <1>7 DEF Disable!TypeOK, Disable!ReadLastSuccess
    <2>. QED BY <1>3, <1>7, <2>1 DEF Disable!TypeOK, Disable!At, Disable!ReadLastSuccess,
            Disable!Steps
  <1>8. ASSUME NEW p \in DisableProcessors, Disable!ReadStreak(p) PROVE Disable!TypeOK'
    <2>. DEFINE failures == Disable!FailuresAfter(disableCall[p].lastSuccess)
    <2>1. failures # {} => Disable!Min(failures) \in Disable!Times
      BY <1>2, DisableTimes
    <2>. HIDE DEF failures
    <2>2. disableCall[p] \in DisableCalls /\ disableCall[p].delivery \in DisableDeliveries
          /\ disableCall[p].outcome \in Disable!Closed
      BY <1>8 DEF Disable!TypeOK, Disable!ReadStreak, Disable!At, DisableCalls
    <2>3. UNCHANGED <<disableDelivery, disableEndpoint, disableClock>>
      BY <1>8 DEF Disable!ReadStreak
    <2>4. \/ disableCall' = [disableCall EXCEPT ![p] = Disable!IdleCall]
          \/ /\ failures # {}
             /\ disableCall' = [disableCall EXCEPT ![p] =
                   [disableCall[p] EXCEPT !.at = "disable", !.start = Disable!Min(failures)]]
      BY <1>8 DEF Disable!TypeOK, Disable!ReadStreak, failures
    <2>5. CASE disableCall' = [disableCall EXCEPT ![p] = Disable!IdleCall]
      <3>1. Disable!IdleCall \in DisableCalls
        BY <1>1 DEF DisableCalls
      <3>. QED BY <1>1, <1>2, <2>3, <2>5, <3>1, OneCallTyped
    <2>6. CASE disableCall' # [disableCall EXCEPT ![p] = Disable!IdleCall]
      <3>. DEFINE r == [disableCall[p] EXCEPT !.at = "disable", !.start = Disable!Min(failures)]
      <3>1. disableCall' = [disableCall EXCEPT ![p] = r]
        BY <2>4, <2>6
      <3>2. r \in DisableCalls /\ r.delivery \in DisableDeliveries
            /\ r.outcome \in Disable!Closed
        BY <2>1, <2>2, <2>4, <2>6 DEF DisableCalls, Disable!Steps
      <3>. HIDE DEF r
      <3>. QED BY <1>2, <2>3, <3>1, <3>2, OneCallTyped
    <2>. QED BY <2>5, <2>6
  <1>9. ASSUME NEW p \in DisableProcessors, Disable!Disable(p) PROVE Disable!TypeOK'
    BY <1>1, <1>9 DEF Disable!TypeOK, Disable!At, Disable!Disable
  <1>10. ASSUME NEW p \in DisableProcessors, Disable!Abandon(p) PROVE Disable!TypeOK'
    BY <1>1, <1>10 DEF Disable!TypeOK, Disable!Abandon
  <1>11. ASSUME NEW on \in BOOLEAN, Disable!Patch(on) PROVE Disable!TypeOK'
    BY <1>3, <1>11 DEF Disable!TypeOK, Disable!Patch, Disable!Patched
  <1>12. ASSUME NEW d \in DisableDeliveries, Disable!Retry(d) PROVE Disable!TypeOK'
    BY <1>3, <1>12 DEF Disable!TypeOK, Disable!Retry
  <1>13. ASSUME NEW d \in DisableDeliveries, Disable!Sweep(d) PROVE Disable!TypeOK'
    BY <1>3, <1>13 DEF Disable!TypeOK, Disable!Sweep, Disable!Swept
  <1>14. CASE Disable!DeleteEndpoint
    BY <1>3, <1>14 DEF Disable!TypeOK, Disable!DeleteEndpoint, Disable!Swept
  <1>15. CASE Disable!Tick
    BY <1>15 DEF Disable!TypeOK, Disable!Tick, DisableConstants
  <1>16. CASE UNCHANGED disableVars
    BY <1>16 DEF Disable!TypeOK, disableVars
  <1>. QED BY <1>4, <1>5, <1>6, <1>7, <1>8, <1>9, <1>10, <1>11, <1>12, <1>13, <1>14, <1>15,
           <1>16 DEF Disable!Next, Disable!Processor

-----------------------------------------------------------------------------
(* All together.                                                           *)

\* The component that runs keeps its own invariant.
ComponentsInv ==
    /\ part = "auth" => AuthP!IInv
    /\ part = "ingest" => IngestingP!IInv
    /\ part = "directory" => DirectoryInv
    /\ part = "disable" => DisableInv
    /\ part = "admin" => AdminP!RowsAndWalk
    /\ part = "schedule" => ScheduleInv
    /\ part = "sweep" => SweeperInv
    /\ part = "pend" => PendInv
    /\ part = "clock" => ClockInv
    /\ part = "fresh" => FreshInv
    /\ part = "create" => CreationInv
    /\ part = "edit" => EditorInv
    /\ part = "bulk" => BulkInv
    /\ part = "replay" => ReplayInv
    /\ part = "verdict" => VerdictInv
    /\ part = "token" => TokenInv
    /\ part = "login" => LoginInv
    /\ part = "relay" => RelayInv
    /\ part = "roll" => RollInv
    /\ part = "view" => ViewInv
    /\ part = "feed" => FeedInv
    /\ part = "health" => HealthInv /\ ListedInv
    /\ part = "page" => PageInv

\* What is assumed of the constants, by component.
LEMMA Assumed ==
    ASSUME ComponentsAssumption
    PROVE  /\ AuthP!AuthAssumption /\ IngestingP!IngestAssumption
           /\ AdminP!AdminAssumption /\ Schedule!ScheduleAssumption
           /\ Sweeper!RetentionAssumption /\ Pending!PendingAssumption /\ Clock!ClockAssumption
           /\ Bulk!BulkAssumption /\ Replay!ReplayAssumption /\ Verdict!VerdictAssumption
           /\ TokensTab!TokenAssumption /\ Login!LoginAssumption /\ Relay!HeaderAssumption
           /\ Rollup!RollupAssumption /\ View!ViewAssumption
           /\ Directory!DirectoryAssumption /\ Feed!FeedAssumption
           /\ Health!HealthAssumption /\ Page!PageAssumption
           /\ Fresh!FreshnessAssumption /\ Editor!EditorAssumption
  BY AuthIsSame, IngestingIsSame, AdminIsSame DEF ComponentsAssumption

LEMMA ComponentsBegin == ASSUME ComponentsAssumption, Init PROVE ComponentsInv
  <1>1. AuthP!Init /\ IngestingP!Init /\ AdminP!Init /\ Schedule!Init
    BY AuthIsSame, IngestingIsSame, AdminIsSame DEF Init
  <1>2. /\ Directory!Init /\ Disable!Init /\ Sweeper!Init /\ Pending!Init /\ Clock!Init
        /\ Fresh!Init /\ Creation!Init /\ Editor!Init /\ Bulk!Init /\ Replay!Init
        /\ Verdict!Init /\ TokensTab!Init /\ Login!Init /\ Relay!Init
        /\ Rollup!Init /\ View!Init /\ Feed!Init /\ Health!Init
        /\ Page!Init
    BY DEF Init
  <1>. QED BY <1>1, <1>2, Assumed, AuthP!InitIInv, IngestingP!InitIInv, AdminP!RowsAndWalkBegin,
          ScheduleBegins, DirectoryBegins, DisableBegins, SweeperBegins, PendBegins,
          ClockBegins, FreshBegins, CreationBegins, EditorBegins, BulkBegins, ReplayBegins,
          VerdictBegins, TokenBegins, LoginBegins, RelayBegins, RollBegins, ViewBegins,
          FeedBegins, HealthBegins, ListedBegins, PageBegins DEF ComponentsInv

LEMMA ComponentsGoOn ==
    ASSUME ComponentsAssumption, ComponentsInv, [Next]_vars PROVE ComponentsInv'
  <1>1. /\ part = "auth" => AuthP!IInv'
        /\ part = "ingest" => IngestingP!IInv'
        /\ part = "admin" => AdminP!RowsAndWalk'
        /\ part = "schedule" => ScheduleInv'
    BY Alone, Assumed, AuthIsSame, IngestingIsSame, AdminIsSame,
       AuthP!StepIInv, IngestingP!StepIInv, AdminP!RowsAndWalkGoOn, ScheduleGoesOn
            DEF ComponentsInv
  <1>2. /\ part = "directory" => DirectoryInv'
        /\ part = "disable" => DisableInv'
        /\ part = "sweep" => SweeperInv'
    BY Alone, Assumed, DirectoryGoesOn, DisableGoesOn, SweeperGoesOn DEF ComponentsInv
  <1>3. [Pending!Next]_pendVars => [Pending!Next]_(Pending!vars)
    BY DEF pendVars, Pending!vars
  <1>4. [Clock!Next]_clockVars => [Clock!Next]_(Clock!vars)
    BY DEF clockVars, Clock!vars
  <1>5. /\ part = "pend" => PendInv'
        /\ part = "clock" => ClockInv'
        /\ part = "fresh" => FreshInv'
    BY <1>3, <1>4, Alone, Assumed, PendGoesOn, ClockGoesOn, FreshGoesOn DEF ComponentsInv
  <1>6. /\ part = "create" => CreationInv'
        /\ part = "edit" => EditorInv'
        /\ part = "bulk" => BulkInv'
        /\ part = "replay" => ReplayInv'
        /\ part = "verdict" => VerdictInv'
        /\ part = "token" => TokenInv'
    BY Alone, Assumed, CreationGoesOn, EditorGoesOn, BulkGoesOn, ReplayGoesOn,
       VerdictGoesOn, TokenGoesOn DEF ComponentsInv
  <1>7. /\ part = "login" => LoginInv'
        /\ part = "relay" => RelayInv'
    BY Alone, Assumed, LoginGoesOn, RelayGoesOn DEF ComponentsInv
  <1>8. /\ part = "roll" => RollInv'
        /\ part = "view" => ViewInv'
        /\ part = "feed" => FeedInv'
        /\ part = "health" => HealthInv' /\ ListedInv'
        /\ part = "page" => PageInv'
    BY Alone, Assumed, RollGoesOn, ViewGoesOn, FeedGoesOn, HealthGoesOn, ListedGoesOn,
       PageGoesOn
       DEF ComponentsInv
  <1>9. part' = part
    BY Alone
  <1>. QED BY <1>1, <1>2, <1>5, <1>6, <1>7, <1>8, <1>9 DEF ComponentsInv

\* Whichever component runs, its invariant holds in every reachable state.
THEOREM Invariance == ASSUME ComponentsAssumption PROVE Spec => []ComponentsInv
  <1>1. Init => ComponentsInv
    BY ComponentsBegin
  <1>2. ComponentsInv /\ [Next]_vars => ComponentsInv'
    BY ComponentsGoOn
  <1>. QED BY <1>1, <1>2, PTL DEF Spec

-----------------------------------------------------------------------------
(* The type invariant: what its parts say beyond the components'           *)
(* invariants, one by one.                                                 *)

TypesInv ==
    /\ ComponentsInv
    /\ part = "directory" => DirectoryTypes
    /\ part = "disable" => Disable!TypeOK
    /\ part = "admin" => AdminTypes
    /\ part = "sweep" => SweeperTypes
    /\ part = "fresh" => FreshCounts /\ FreshFlags
    /\ part = "create" => CreationTypes
    /\ part = "edit" => EditorTypes
    /\ part = "bulk" => BulkTypes
    /\ part = "replay" => ReplayTypes
    /\ part = "verdict" => VerdictTypes
    /\ part = "token" => TokenTypes
    /\ part = "roll" => RollTypes
    /\ part = "view" => ViewTypes
    /\ part = "feed" => FeedTypes
    /\ part = "page" => PageTypes

LEMMA DisableAssumed == ASSUME ComponentsAssumption PROVE DisableConstants
  BY DEF ComponentsAssumption, DisableConstants

LEMMA TypesBegin == ASSUME ComponentsAssumption, Init PROVE TypesInv
  <1>1. AdminP!Init
    BY AdminIsSame DEF Init
  <1>2. /\ Directory!Init /\ Disable!Init /\ Sweeper!Init /\ Fresh!Init /\ Creation!Init
        /\ Editor!Init /\ Bulk!Init /\ Replay!Init /\ Verdict!Init /\ TokensTab!Init
        /\ Rollup!Init /\ View!Init /\ Feed!Init /\ Page!Init
    BY DEF Init
  <1>3. DirectoryTypes /\ Disable!TypeOK /\ AdminTypes /\ SweeperTypes
    BY <1>1, <1>2, Assumed, DisableAssumed, DirectoryTypesBegin, DisableTypesBegin,
       AdminTypesBegin, SweeperTypesBegin
  <1>4. /\ FreshCounts /\ FreshFlags /\ CreationTypes /\ EditorTypes /\ BulkTypes
        /\ ReplayTypes /\ VerdictTypes /\ TokenTypes
    BY <1>2, Assumed, FreshTypesBegin, CreationTypesBegin, EditorTypesBegin, BulkTypesBegin,
       ReplayTypesBegin, VerdictTypesBegin, TokenTypesBegin
  <1>5. RollTypes /\ ViewTypes /\ FeedTypes /\ PageTypes
    BY <1>2, Assumed, RollTypesBegin, ViewTypesBegin, FeedTypesBegin, PageTypesBegin
  <1>. QED BY <1>3, <1>4, <1>5, ComponentsBegin DEF TypesInv

LEMMA TypesGoOn == ASSUME ComponentsAssumption, TypesInv, [Next]_vars PROVE TypesInv'
  <1>. USE DEF TypesInv, ComponentsInv
  <1>1. ComponentsInv' /\ part' = part
    <2>. HIDE DEF ComponentsInv
    <2>. QED BY ComponentsGoOn, Alone
  <1>2. /\ part = "directory" => DirectoryTypes'
        /\ part = "disable" => Disable!TypeOK'
        /\ part = "sweep" => SweeperTypes'
    BY Alone, Assumed, DisableAssumed, DirectoryTypesGoOn, DisableTypesGoOn, SweeperTypesGoOn
  <1>3. part = "admin" => AdminTypes'
    BY Alone, Assumed, AdminIsSame, AdminTypesGoOn
  <1>4. /\ part = "fresh" => FreshCounts' /\ FreshFlags'
        /\ part = "create" => CreationTypes'
        /\ part = "edit" => EditorTypes'
    BY Alone, Assumed, FreshTypesGoOn, CreationTypesGoOn, EditorTypesGoOn
  <1>5. /\ part = "bulk" => BulkTypes'
        /\ part = "replay" => ReplayTypes'
        /\ part = "verdict" => VerdictTypes'
        /\ part = "token" => TokenTypes'
    BY Alone, Assumed, BulkTypesGoOn, ReplayTypesGoOn, VerdictTypesGoOn, TokenTypesGoOn
  <1>6. /\ part = "roll" => RollTypes'
        /\ part = "view" => ViewTypes'
        /\ part = "feed" => FeedTypes'
        /\ part = "page" => PageTypes'
    BY Alone, Assumed, RollTypesGoOn, ViewTypesGoOn, FeedTypesGoOn, PageTypesGoOn
  <1>. HIDE DEF ComponentsInv
  <1>. QED BY <1>1, <1>2, <1>3, <1>4, <1>5, <1>6

LEMMA AuthTypesAre == ASSUME AuthP!IInv PROVE Auth!TypeOK
  BY DEF AuthP!IInv, AuthP!TypeOK, Auth!TypeOK, AuthP!Requests, Auth!Requests, AuthP!Asks,
     Auth!Asks

LEMMA IngestTypesAre == ASSUME IngestingP!IInv PROVE Ingesting!TypeOK
  BY DEF IngestingP!IInv, IngestingP!TypeOK, Ingesting!TypeOK, IngestingP!None,
     Ingesting!None, IngestingP!Revoked, Ingesting!Revoked, IngestingP!Stages,
     Ingesting!Stages, IngestingP!Replies, Ingesting!Replies

LEMMA TypesAre == ASSUME ComponentsAssumption, TypesInv PROVE TypeOK
  <1>. USE DEF TypesInv, ComponentsInv
  <1>1. /\ part = "auth" => Auth!TypeOK
        /\ part = "ingest" => Ingesting!TypeOK
        /\ part = "admin" => Admin!TypeOK
        /\ part = "directory" => Directory!TypeOK
        /\ part = "sweep" => Sweeper!TypeOK
    BY Assumed, AuthTypesAre, IngestTypesAre, AdminTypesAre, DirectoryTypesAre,
       SweeperTypesAre
  <1>2. /\ part = "schedule" => Schedule!TypeOK
        /\ part = "pend" => Pending!TypeOK
        /\ part = "clock" => Clock!TypeOK
        /\ part = "login" => Login!TypeOK
        /\ part = "relay" => Relay!TypeOK
        /\ part = "health" => Health!TypeOK
    BY DEF ScheduleInv, PendInv, ClockInv, LoginInv, RelayInv, HealthInv
  <1>3. /\ part = "fresh" => Fresh!TypeOK
        /\ part = "create" => Creation!TypeOK
        /\ part = "edit" => Editor!TypeOK
        /\ part = "bulk" => Bulk!TypeOK
        /\ part = "replay" => Replay!TypeOK
    BY Assumed, FreshTypesAre, CreationTypesAre, EditorTypesAre, BulkTypesAre, ReplayTypesAre
  <1>4. /\ part = "verdict" => Verdict!TypeOK
        /\ part = "token" => TokensTab!TypeOK
        /\ part = "roll" => Rollup!TypeOK
        /\ part = "view" => View!TypeOK
        /\ part = "feed" => Feed!TypeOK
        /\ part = "page" => Page!TypeOK
    BY Assumed, VerdictTypesAre, TokenTypesAre, RollTypesAre, ViewTypesAre, FeedTypesAre,
       PageTypesAre
  <1>. QED BY <1>1, <1>2, <1>3, <1>4 DEF TypeOK

\* Whichever component runs, its rows, caches, forms, timers and requests are
\* of the kind the code declares them to be, in every reachable state, whatever
\* the sizes of the sets and the bounds.
THEOREM TypesAreKept == ASSUME ComponentsAssumption PROVE Spec => []TypeOK
  <1>1. Init => TypesInv
    BY TypesBegin
  <1>2. TypesInv /\ [Next]_vars => TypesInv'
    BY TypesGoOn
  <1>3. TypesInv => TypeOK
    BY TypesAre
  <1>. QED BY <1>1, <1>2, <1>3, PTL DEF Spec

-----------------------------------------------------------------------------
(* What is stated of the components, group by group.                       *)

\* A revoked token opens nothing: no call made after its revocation was
\* answered is served with it, its row stays gone whatever lastUsedAt is
\* written late, and a cookie admits the operator key only.
THEOREM RevokedTokenOpensNothing ==
    ASSUME ComponentsAssumption PROVE Spec => []RevokedOpensNothing
  <1>1. AuthP!IInv => /\ Auth!RevokedIsRefused /\ Auth!RevokedStaysGone
                      /\ Auth!CookieIsTheKey
    BY DEF AuthP!IInv, AuthP!RevokedIsRefused, AuthP!RevokedStaysGone,
         AuthP!CookieIsTheKey, Auth!RevokedIsRefused, Auth!RevokedStaysGone,
         Auth!CookieIsTheKey
  <1>2. ComponentsInv => RevokedOpensNothing
    BY <1>1 DEF ComponentsInv, RevokedOpensNothing
  <1>. QED BY <1>2, Invariance, PTL

\* An accepted request is done whole, and one answered otherwise not at all
\* unless a reply was lost, the rollback failed or the process died; within the
\* limit of its size, and never into a Channel deleted before it arrived.
THEOREM RequestsAreWhole == ASSUME ComponentsAssumption PROVE Spec => []IngestIsWhole
  <1>1. IngestingP!IInv => /\ Ingesting!DeletedTakesNothingNew /\ Ingesting!AllOrNothing
                           /\ Ingesting!BodyBounded
    BY IngestingP!IInvImplies
       DEF IngestingP!DeletedTakesNothingNew, IngestingP!AllOrNothing,
           IngestingP!BodyBounded, Ingesting!DeletedTakesNothingNew,
           Ingesting!AllOrNothing, Ingesting!BodyBounded, IngestingP!At, Ingesting!At
  <1>2. ComponentsInv => IngestIsWhole
    BY <1>1 DEF ComponentsInv, IngestIsWhole
  <1>. QED BY <1>2, Invariance, PTL

\* Whatever order the rows are written in: an open Channel has a long slug,
\* and an Endpoint that is on carries no mark of the auto-disable.
THEOREM RowsAreRuled == ASSUME ComponentsAssumption PROVE Spec => []RowsKeepTheRules
  <1>1. AdminP!RowsAndWalk => Admin!SwitchDecides
    BY AdminP!SwitchIsAll
       DEF AdminP!RowsAndWalk, AdminP!SwitchDecides, Admin!SwitchDecides, AdminP!Targets,
           Admin!Targets
  <1>2. ComponentsInv => RowsKeepTheRules
    BY <1>1 DEF ComponentsInv, RowsKeepTheRules, DirectoryInv, DisableInv
  <1>. QED BY <1>2, Invariance, PTL

\* What is older than the window goes with the sweep that is due; a retry
\* waits for no more than the cap, and for what it was asked to, or the cap.
THEOREM WhatIsDueComes == ASSUME ComponentsAssumption PROVE Spec => []DueInTime
  <1>1. ScheduleInv => Schedule!WaitBounded /\ Schedule!AskedIsWaited
    BY DEF ScheduleInv
  <1>2. ComponentsInv => DueInTime
    BY <1>1, SweptInTime, Assumed DEF ComponentsInv, DueInTime
  <1>. QED BY <1>2, Invariance, PTL

\* The timers of the dashboard neither strand a waiting state nor let what a
\* visible page says of the time fall behind.
THEOREM TimersAreRight == ASSUME ComponentsAssumption PROVE Spec => []TimersKeepTime
  <1>1. ASSUME ComponentsInv PROVE TimersKeepTime
    <2>1. PendInv => Pending!NeverStuck /\ Pending!HoldNotExtended
      BY Assumed, PendHoldIsKept DEF PendInv
    <2>2. ClockInv => Clock!NeverBehind /\ Clock!OneInterval
      BY Assumed, ClockIsOnTime DEF ClockInv
    <2>. QED BY <1>1, <2>1, <2>2, FreshIsCurrent DEF ComponentsInv, TimersKeepTime
  <1>. QED BY <1>1, Invariance, PTL

\* What the Deliveries panel says of retries and replays is of those it made,
\* late polls and other operators notwithstanding; the question of a replay asks
\* of the Endpoints as they are, once a refetch of its own has succeeded.
THEOREM ThePanelIsTrue == ASSUME ComponentsAssumption PROVE Spec => []PanelTellsTheTruth
  <1>1. BulkInv => Bulk!ReportTrue
    BY DEF BulkInv
  <1>2. ReplayInv => Replay!AsksOfNow /\ Replay!OneReplayAtOnce
    BY DEF ReplayInv, Replay!AsksOfNow, Replay!OneReplayAtOnce
  <1>3. ComponentsInv => PanelTellsTheTruth
    BY <1>1, <1>2, VerdictsAreTrue DEF ComponentsInv, PanelTellsTheTruth
  <1>. QED BY <1>3, Invariance, PTL

\* "Unsaved changes" is exact, and the New Channel form sends nothing wrong,
\* is silent about a field until it is left, and its banner is of the last
\* create.
THEOREM TheFormsAreHonest == ASSUME ComponentsAssumption PROVE Spec => []FormsAreHonest
  <1>1. EditorInv => Editor!DirtyExact
    BY DEF EditorInv
  <1>2. ComponentsInv => FormsAreHonest
    BY <1>1, CreationIsHonest DEF ComponentsInv, FormsAreHonest
  <1>. QED BY <1>2, Invariance, PTL

\* A revoked secret is not shown again, and one on show is in the list that
\* revokes it.
THEOREM SecretsAreKnown == ASSUME ComponentsAssumption PROVE Spec => []SecretsAreTheirs
  <1>1. ComponentsInv => SecretsAreTheirs
    BY SecretsAreKept DEF ComponentsInv, SecretsAreTheirs
  <1>. QED BY <1>1, Invariance, PTL

\* A token writes into its own Channel only, a Broadcast appears with its
\* whole snapshot, and an admin request reaches the Endpoints of the Channel
\* in its path only.
THEOREM WritesAreScoped ==
    ASSUME ComponentsAssumption
    PROVE  Spec => WritesStayInTheirChannel
  <1>1. ASSUME ComponentsInv, [Next]_vars
        PROVE  /\ part = "ingest" => Ingesting!TokenScopedStep
               /\ part = "ingest" => Ingesting!SnapshotWholeStep
               /\ part = "admin" => Admin!OwnChannelOnlyStep
    <2>1. ASSUME part = "ingest"
          PROVE  IngestingP!TokenScopedStep /\ IngestingP!SnapshotWholeStep
      BY <1>1, <2>1, Alone, Assumed, IngestingIsSame, IngestingP!StepTokenScoped,
         IngestingP!StepSnapshotWhole DEF ComponentsInv
    <2>2. IngestingP!TokenScopedStep => Ingesting!TokenScopedStep
      BY DEF IngestingP!TokenScopedStep, Ingesting!TokenScopedStep, IngestingP!At,
           Ingesting!At
    <2>3. IngestingP!SnapshotWholeStep => Ingesting!SnapshotWholeStep
      BY DEF IngestingP!SnapshotWholeStep, Ingesting!SnapshotWholeStep
    <2>4. ASSUME part = "admin" PROVE AdminP!OwnChannelOnlyStep
      BY <1>1, <2>4, Alone, Assumed, AdminIsSame, AdminP!NextWritesOrReads,
         AdminP!StepOwnChannelOnly
         DEF ComponentsInv, AdminP!RowsAndWalk
    <2>5. AdminP!OwnChannelOnlyStep => Admin!OwnChannelOnlyStep
      BY DEF AdminP!OwnChannelOnlyStep, Admin!OwnChannelOnlyStep
    <2>. QED BY <2>1, <2>2, <2>3, <2>4, <2>5
  <1>2. ComponentsInv /\ [Next]_vars =>
          [ /\ part = "ingest" => Ingesting!TokenScopedStep
            /\ part = "ingest" => Ingesting!SnapshotWholeStep
            /\ part = "admin" => Admin!OwnChannelOnlyStep ]_vars
    BY <1>1
  <1>. QED BY <1>2, Invariance, PTL DEF Spec, WritesStayInTheirChannel

\* A late poll does not hide the Channel that was created above a list on show,
\* and a late sweep takes no young row.
THEOREM LateStepsAreHarmless == ASSUME ComponentsAssumption PROVE Spec => LateStepsDoNoHarm
  <1>1. ASSUME ComponentsInv, [Next]_vars
        PROVE  /\ part = "create" => Creation!CreatedIsListedStep
               /\ part = "sweep" => Sweeper!NothingYoungSweptStep
    BY <1>1, Alone, Assumed, CreatedIsSeen, NoYoungRowIsSwept DEF ComponentsInv
  <1>2. ComponentsInv /\ [Next]_vars =>
          [ /\ part = "create" => Creation!CreatedIsListedStep
            /\ part = "sweep" => Sweeper!NothingYoungSweptStep ]_vars
    BY <1>1
  <1>. QED BY <1>2, Invariance, PTL DEF Spec, LateStepsDoNoHarm

\* However the attempts of the browsers behind an Ip fall around the end of a
\* window, fewer than twice MaxAttempts are judged in its length; and while
\* nothing is lost a page agrees with the limiter and with its cookie.
THEOREM TheLoginIsTrue == ASSUME ComponentsAssumption PROVE Spec => []LoginIsTrue
  <1>1. ComponentsInv => LoginIsTrue
    BY Assumed, BurstsAreBounded, PagesAgree DEF ComponentsInv, LoginIsTrue
  <1>. QED BY <1>1, Invariance, PTL

\* No browser is refused without MaxAttempts attempts of its own Ip, none is
\* told to wait too short, and one press is one attempt.
THEOREM EveryAttemptCounts == ASSUME ComponentsAssumption PROVE Spec => AttemptsAreCounted
  <1>1. ASSUME ComponentsInv, [Next]_vars
        PROVE  /\ part = "login" => Login!RefusedForCauseStep
               /\ part = "login" => Login!WaitSufficesStep
               /\ part = "login" => Login!OnePressOneAttemptStep
    BY <1>1, Alone, Assumed, AttemptsCount DEF ComponentsInv
  <1>2. ComponentsInv /\ [Next]_vars =>
          [ /\ part = "login" => Login!RefusedForCauseStep
            /\ part = "login" => Login!WaitSufficesStep
            /\ part = "login" => Login!OnePressOneAttemptStep ]_vars
    BY <1>1
  <1>. QED BY <1>2, Invariance, PTL DEF Spec, AttemptsAreCounted

\* Whatever the lists have become since, a header denied on acceptance goes
\* nowhere, and what an Endpoint sets goes out once, as it set it.
THEOREM HeadersAreRight == ASSUME ComponentsAssumption PROVE Spec => []HeadersArePicked
  <1>1. ComponentsInv => HeadersArePicked
    BY Assumed, HeadersArePickedRight DEF ComponentsInv, HeadersArePicked
  <1>. QED BY <1>1, Invariance, PTL

\* What was collapsed stays collapsed, across polls and reloads, and as long as
\* nothing was chosen one failing group is open.
THEOREM ExpansionHeld == ASSUME ComponentsAssumption PROVE Spec => []ExpansionIsKept
  <1>1. ComponentsInv => ExpansionIsKept
    BY Assumed, ExpansionHolds DEF ComponentsInv, ExpansionIsKept
  <1>. QED BY <1>1, Invariance, PTL

\* No poll takes away what is open on screen, what was reported, or an edit
\* that was not saved; and no flag makes a waiting state flash.
THEOREM NothingJumps == ASSUME ComponentsAssumption PROVE Spec => NothingLeavesUnasked
  <1>1. ASSUME ComponentsInv, [Next]_vars
        PROVE  /\ part = "roll" => Rollup!StaysOpenStep
               /\ part = "bulk" => Bulk!ReportStandsStep
               /\ part = "edit" => Editor!EditsGuardedStep
               /\ part = "view" => View!DrillDownStaysStep
               /\ part = "pend" => Pending!Held
               /\ part = "pend" => Pending!Slow
    <2>1. [Pending!Next]_pendVars => [Pending!Next]_(Pending!vars)
      BY DEF pendVars, Pending!vars
    <2>2. /\ part = "roll" => Rollup!StaysOpenStep
          /\ part = "bulk" => Bulk!ReportStandsStep
          /\ part = "edit" => Editor!EditsGuardedStep
      BY <1>1, Alone, Assumed, OpenStaysOpen, ReportsStand, EditsAreGuarded
               DEF ComponentsInv
    <2>3. part = "view" => View!DrillDownStaysStep
      BY <1>1, Alone, Assumed, DrillDownHolds DEF ComponentsInv
    <2>4. /\ part = "pend" => Pending!Held
          /\ part = "pend" => Pending!Slow
      BY <1>1, <2>1, Alone, Assumed, PendStepHeld, PendStepSlow DEF ComponentsInv
    <2>. QED BY <2>2, <2>3, <2>4
  <1>2. ComponentsInv /\ [Next]_vars =>
          [ /\ part = "roll" => Rollup!StaysOpenStep
            /\ part = "bulk" => Bulk!ReportStandsStep
            /\ part = "edit" => Editor!EditsGuardedStep
            /\ part = "view" => View!DrillDownStaysStep
            /\ part = "pend" => Pending!Held
            /\ part = "pend" => Pending!Slow ]_vars
    BY <1>1
  <1>. QED BY <1>2, Invariance, PTL DEF Spec, NothingLeavesUnasked

\* An Escape closes one well, the innermost around the focus, which stays on
\* screen; the other keys do not leave the list they were pressed in.
THEOREM KeysStayIn == ASSUME ComponentsAssumption PROVE Spec => KeysStayInside
  <1>1. ASSUME ComponentsInv, [Next]_vars
        PROVE  /\ part = "view" => View!EscapeClosesOneStep
               /\ part = "view" => View!KeysStayInListStep
    <2>1. View!ViewAssumption /\ ViewInv => View!EscapeClosesOneStep
      BY EscapeFacts DEF View!EscapeClosesOneStep
    <2>. QED BY <1>1, <2>1, Assumed, KeysMoveInList DEF ComponentsInv
  <1>2. ComponentsInv /\ [Next]_vars =>
          [ /\ part = "view" => View!EscapeClosesOneStep
            /\ part = "view" => View!KeysStayInListStep ]_vars
    BY <1>1
  <1>. QED BY <1>2, Invariance, PTL DEF Spec, KeysStayInside

\* Whoever walks a list page by page finds a row that stays where it is on
\* exactly one page: a Channel of the directory, an Endpoint of a Channel, a
\* Broadcast of the feed, also while its first page is polled.
THEOREM WalksAreWhole == ASSUME ComponentsAssumption PROVE Spec => []WalksListOnce
  <1>1. ComponentsInv => WalksListOnce
    <2>1. AdminP!RowsAndWalk => Admin!KeptListedOnce
      <3>1. \A e : Admin!Times(e) = AdminP!Times(e)
        BY DEF Admin!Times, AdminP!Times, Admin!Cardinality, AdminP!Cardinality
      <3>2. AdminP!RowsAndWalk => AdminP!KeptListedOnce
        BY AdminP!StayersAreListedOnce DEF AdminP!RowsAndWalk
      <3>. QED BY <3>1, <3>2 DEF Admin!KeptListedOnce, AdminP!KeptListedOnce
    <2>. QED BY <2>1, StayersShownOnce, FeedReadsOn DEF ComponentsInv, WalksListOnce
  <1>. QED BY <1>1, Invariance, PTL

\* Whatever is retried, pruned, deleted or has grown old, the queries over the
\* Delivery rows agree with each other and with the lamps drawn from them; the
\* two of a directory page as long as nobody writes to the Channel in between.
THEOREM ReadsAlwaysAgree == ASSUME ComponentsAssumption PROVE Spec => []ReadsAgree
  <1>1. ComponentsInv => ReadsAgree
    BY Assumed, BadgeAdds, RankIsLamp, RowIsRollup, FailuresAreSeen, GlyphsKeepOrder,
       ColumnsAddUp DEF ComponentsInv, ReadsAgree
  <1>. QED BY <1>1, Invariance, PTL

\* A Channel's page survives the rename its operator saves, a save reverts
\* nothing that was shown, and the Channel deleted is the one confirmed,
\* whatever others rename and delete and however late the reads come back.
THEOREM ThePageFollows == ASSUME ComponentsAssumption PROVE Spec => []PageFollowsItsChannel
  <1>1. ComponentsInv => PageFollowsItsChannel
    BY Assumed, PageIsKept DEF ComponentsInv, PageFollowsItsChannel
  <1>. QED BY <1>1, Invariance, PTL

==============================================================================

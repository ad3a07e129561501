---------------------------- MODULE CompanyStore ----------------------------
(***************************************************************************)
(* What the database makes of the world's writes (prismaStore.ts), below   *)
(* the batches that Persister counts: rows of companies, entries and       *)
(* members, the snapshots that replace entries, and the unique index that  *)
(* lets a profile hold one live seat in the whole table.                   *)
(*                                                                         *)
(* The world is reduced to what its writes depend on: who sits where and   *)
(* how long the log is.  An entry of the log is its number and the seats   *)
(* occupied after it, which is what a replay of it rebuilds.  Companies    *)
(* are numbered in the order they were created, the order of the world's   *)
(* map and of the rows at boot.  Messages and rounds fall between the      *)
(* drain of a flush and the answer of its commit.                          *)
(***************************************************************************)
EXTENDS Naturals, FiniteSets, Sequences, SequencesExt

CONSTANTS
  Profiles,
  MaxCompanies, MaxSeats, MaxSeq,   \* bounds
  NoOne,
  LosesAnswers,   \* may a commit be applied and its answer lost?
  Diverges        \* may a boot refuse a company, outdated or diverged?

ASSUME StoreBounds == {MaxCompanies, MaxSeats, MaxSeq} \subseteq Nat \ {0}
ASSUME StoreNull == NoOne \notin Profiles
ASSUME StoreSwitches == {LosesAnswers, Diverges} \subseteq BOOLEAN

Companies == 1..MaxCompanies
Seats == 0..(MaxSeats - 1)
Entry == [seq : 0..MaxSeq, seats : SUBSET Seats]
NoSnapshot == [seq |-> 0, seats |-> {0}]   \* no snapshot: the replay starts at seat 0

VARIABLES
  live,      \* the companies in memory
  row,       \* the companies in the tables
  unsaved,   \* writes no commit has confirmed, oldest first
  sending    \* is a commit awaited?

storeVars == <<live, row, unsaved, sending>>

\* An id nobody has drawn yet.  `made` is dirty.created, `news` dirty.entries
\* and `folded` dirty.snapshot, NoSnapshot when there is none.
Undrawn ==
  [status |-> "undrawn", seats |-> {}, seq |-> 0,
   holder |-> [s \in Seats |-> NoOne], left |-> {},
   made |-> FALSE, news |-> {}, folded |-> NoSnapshot]

NoRow ==
  [status |-> "none", seq |-> 0, snapshot |-> NoSnapshot, entries |-> {},
   holder |-> [s \in Seats |-> NoOne], left |-> {}]

Holders == [Seats -> Profiles \cup {NoOne}]

Write ==
  [id : Companies, made : BOOLEAN, news : SUBSET Entry, seq : 0..MaxSeq,
   status : {"open", "closed"}, folded : Entry, holder : Holders, left : SUBSET Seats]

Live ==
  [status : {"undrawn", "open", "closed", "gone"}, seats : SUBSET Seats,
   seq : 0..MaxSeq, holder : Holders, left : SUBSET Seats,
   made : BOOLEAN, news : SUBSET Entry, folded : Entry]

Row ==
  [status : {"none", "open", "closed"}, seq : 0..MaxSeq, snapshot : Entry,
   entries : SUBSET Entry, holder : Holders, left : SUBSET Seats]

StoreTypeOK ==
  /\ live \in [Companies -> Live]
  /\ row \in [Companies -> Row]
  /\ unsaved \in Seq(Write)
  /\ sending \in BOOLEAN

StoreInit ==
  /\ live = [c \in Companies |-> Undrawn]
  /\ row = [c \in Companies |-> NoRow]
  /\ unsaved = <<>>
  /\ sending = FALSE

-----------------------------------------------------------------------------
(* The world: members, entries, companies *)

Members(co) == {s \in Seats : co.holder[s] # NoOne}
LiveMembers(co) == Members(co) \ co.left
IsFree(p) ==
  \A c \in Companies : live[c].status = "open" =>
    \A s \in LiveMembers(live[c]) : live[c].holder[s] # p

\* An entry of the log after which these seats are occupied.
Logged(co, seats) ==
  [co EXCEPT !.seats = seats, !.seq = @ + 1,
             !.news = @ \cup {[seq |-> co.seq + 1, seats |-> seats]}]

\* close(): everybody leaves, without an entry.
Closed(co) == [co EXCEPT !.status = "closed", !.left = Members(co)]

\* afterEntry(): members without a seat leave, the last one closes it.
Reconciled(co) ==
  LET there == [co EXCEPT !.left = @ \cup (Members(co) \ co.seats)]
  IN IF co.seats = {} THEN Closed(there) ELSE there

\* compact(): the snapshot stands for every entry so far.
Compacted(co) == [co EXCEPT !.folded = [seq |-> co.seq, seats |-> co.seats]]

CreateCompany(p, c) ==
  /\ IsFree(p)
  /\ live[c].status = "undrawn"
  /\ \A d \in 1..(c - 1) : live[d].status # "undrawn"
  /\ live' = [live EXCEPT ![c] = [Undrawn EXCEPT !.status = "open", !.seats = {0},
                                                 !.holder[0] = p, !.made = TRUE]]
  /\ UNCHANGED <<row, unsaved, sending>>

\* The next seat of an open company that is not over.
JoinCompany(p, c) ==
  LET co == live[c]
      s == Cardinality(Members(co))
  IN /\ IsFree(p)
     /\ co.status = "open" /\ co.seats # {}
     /\ s \in Seats /\ co.seq < MaxSeq
     /\ live' = [live EXCEPT ![c] =
          Reconciled([Logged(co, co.seats \cup {s}) EXCEPT !.holder[s] = p])]
     /\ UNCHANGED <<row, unsaved, sending>>

Leave(p, c) ==
  /\ live[c].status = "open" /\ live[c].seq < MaxSeq
  /\ \E s \in LiveMembers(live[c]) \cap live[c].seats :
       /\ live[c].holder[s] = p
       /\ live' = [live EXCEPT ![c] = Reconciled(Logged(live[c], live[c].seats \ {s}))]
  /\ UNCHANGED <<row, unsaved, sending>>

\* A round: its entry, the snapshot when it is due, the seats reconciled, then
\* an idle seat released by an entry of its own that reconciles nobody, or
\* the close of the last round a company may play.
PlayRound(c, folds, idle, last) ==
  LET co == live[c]
      played == Logged(co, co.seats)
      kept == Reconciled(IF folds THEN Compacted(played) ELSE played)
      released == IF idle = {} THEN kept ELSE Logged(kept, kept.seats \ idle)
  IN /\ co.status = "open" /\ co.seats # {}
     /\ idle \subseteq co.seats /\ Cardinality(idle) <= 1
     /\ co.seq + 1 + Cardinality(idle) <= MaxSeq
     /\ live' = [live EXCEPT ![c] = IF last THEN Closed(released) ELSE released]
     /\ UNCHANGED <<row, unsaved, sending>>

-----------------------------------------------------------------------------
(* The drain, the transaction, its answer *)

IsDirty(co) ==
  /\ co.status \in {"open", "closed"}
  /\ co.made \/ co.news # {} \/ co.status = "closed" \/ co.folded # NoSnapshot

\* A company with all its members as they stand, and what is new of its log.
WriteOf(c) ==
  LET co == live[c]
  IN [id |-> c, made |-> co.made, news |-> co.news, seq |-> co.seq,
      status |-> co.status, folded |-> co.folded, left |-> co.left,
      holder |-> co.holder]

\* The companies that changed, in the order of the map.
Drained == [i \in 1..Cardinality({c \in Companies : IsDirty(live[c])}) |->
  WriteOf(CHOOSE c \in Companies :
    IsDirty(live[c]) /\ Cardinality({d \in 1..c : IsDirty(live[d])}) = i)]

\* A live row of the profile, in a company or another: the unique index.
HasLiveRow(rows, p) ==
  \E c \in Companies : \E s \in Seats \ rows[c].left : rows[c].holder[s] = p

\* The members of a write, one statement after the other.  A seat without a
\* row gets one, refused while its profile has a live row; a seat that has one
\* keeps its profile and, once left, stays left.
Member(db, w, s) ==
  IF ~db.ok \/ w.holder[s] = NoOne THEN db
  ELSE IF db.rows[w.id].holder[s] # NoOne
       THEN [db EXCEPT !.rows[w.id].left = @ \cup ({s} \cap w.left)]
  ELSE IF s \notin w.left /\ HasLiveRow(db.rows, w.holder[s]) THEN [db EXCEPT !.ok = FALSE]
  ELSE [db EXCEPT !.rows[w.id].holder[s] = w.holder[s],
                  !.rows[w.id].left = @ \cup ({s} \cap w.left)]
WithMembers(rows, w) ==
  FoldLeft(LAMBDA db, s : Member(db, w, s), [ok |-> TRUE, rows |-> rows],
           [i \in 1..MaxSeats |-> i - 1])

\* (Mutant) The entry the snapshot was taken after stays.
LogAfter_KeepsLast(r, w) ==
  LET all == r.entries \cup {e \in w.news : \A f \in r.entries : f.seq # e.seq}
  IN IF w.folded = NoSnapshot THEN all ELSE {e \in all : e.seq >= w.folded.seq}

\* Entries whose number is taken are skipped; those the snapshot stands for go.
LogAfter(r, w) ==
  LET all == r.entries \cup {e \in w.news : \A f \in r.entries : f.seq # e.seq}
  IN IF w.folded = NoSnapshot THEN all ELSE {e \in all : e.seq > w.folded.seq}

\* One company of the batch.  A company is created, never created again.
Put(db, w) ==
  IF ~db.ok \/ (w.made /\ db.rows[w.id].status # "none") THEN [db EXCEPT !.ok = FALSE]
  ELSE LET r == db.rows[w.id]
       IN WithMembers(
            [db.rows EXCEPT ![w.id] =
               [r EXCEPT !.status = w.status, !.seq = w.seq, !.entries = LogAfter(r, w),
                         !.snapshot = IF w.folded = NoSnapshot THEN @ ELSE w.folded]], w)

\* The transaction of a batch: all of its writes in order, or a refusal.
Transaction(writes) == FoldLeft(Put, [ok |-> TRUE, rows |-> row], writes)

\* A flush drains the world and sends all that waits.
Flush ==
  /\ ~sending
  /\ unsaved \o Drained # <<>>
  /\ unsaved' = unsaved \o Drained
  /\ live' = [c \in Companies |->
       CASE live[c].status = "closed" -> [Undrawn EXCEPT !.status = "gone"]
         [] live[c].status = "open"   -> [live[c] EXCEPT !.made = FALSE, !.news = {},
                                                         !.folded = NoSnapshot]
         [] OTHER                     -> live[c]]
  /\ sending' = TRUE
  /\ UNCHANGED row

Commit(answered) ==
  /\ sending
  /\ Transaction(unsaved).ok
  /\ answered \/ LosesAnswers
  /\ row' = Transaction(unsaved).rows
  /\ unsaved' = IF answered THEN <<>> ELSE unsaved
  /\ sending' = FALSE
  /\ UNCHANGED live

\* The database is down, or refuses the transaction.
CommitFails ==
  /\ sending
  /\ sending' = FALSE
  /\ UNCHANGED <<live, row, unsaved>>

-----------------------------------------------------------------------------
(* The boot *)

Replayed(r) ==
  IF r.entries = {} THEN r.snapshot.seats
  ELSE (CHOOSE e \in r.entries : \A f \in r.entries : f.seq <= e.seq).seats

\* An open row comes back as it was written; a row that is refused is left
\* alone, open and with its members.
Recovered(r) ==
  [Undrawn EXCEPT !.status = "open", !.seats = Replayed(r), !.seq = r.seq,
                  !.holder = r.holder, !.left = r.left]

Boot(refused) ==
  /\ live' = [c \in Companies |->
       IF row[c].status = "open" /\ c \notin refused THEN Recovered(row[c])
       ELSE IF live[c].status = "undrawn" THEN Undrawn
       ELSE [Undrawn EXCEPT !.status = "gone"]]
  /\ unsaved' = <<>>
  /\ sending' = FALSE
  /\ UNCHANGED row

Play ==
  \E c \in Companies :
    \/ \E p \in Profiles : CreateCompany(p, c) \/ JoinCompany(p, c) \/ Leave(p, c)
    \/ \E folds, last \in BOOLEAN, idle \in SUBSET Seats : PlayRound(c, folds, idle, last)

StoreNext ==
  \/ Play
  \/ Flush
  \/ \E answered \in BOOLEAN : Commit(answered)
  \/ CommitFails
  \/ \E refused \in SUBSET Companies : (Diverges \/ refused = {}) /\ Boot(refused)

StoreSpec == StoreInit /\ [][StoreNext]_storeVars

-----------------------------------------------------------------------------
\* The log of a stored company has no hole and no overlap: what is replayed is
\* the snapshot and every entry after it, up to the number of the row.
RowsReplay ==
  \A c \in Companies : row[c].status = "open" =>
    {e.seq : e \in row[c].entries} = (row[c].snapshot.seq + 1)..row[c].seq

\* recover() trusts the member rows and does not reconcile them: every seat
\* the replay occupies must have a live row, or nobody plays it after a boot; and
\* a live row left in a closed company, "written once and forgotten", would keep
\* its profile out of every company for ever.
SeatsHaveRows ==
  \A c \in Companies :
    /\ row[c].status = "open" => Replayed(row[c]) \subseteq LiveMembers(row[c])
    /\ row[c].status = "closed" => LiveMembers(row[c]) = {}

\* What the tables hold is enough to boot from.
BootsWhole == RowsReplay /\ SeatsHaveRows

\* "without ever losing a write. A batch that cannot be committed stays in the
\* backlog and is tried again with the next one": what waits can be committed
\* once the database is back.
BacklogIsAdmissible == Transaction(unsaved).ok
=============================================================================

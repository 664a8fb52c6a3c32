---------------------------- MODULE VfsFds_proofs ----------------------------
(***************************************************************************)
(* IInv of VfsFds is an invariant for tables and process tables of every   *)
(* size, and with it the three safety properties the runs check, wherever  *)
(* the timer cuts the shell's calls.                                       *)
(***************************************************************************)
EXTENDS VfsFds, TLAPS

USE VfsAssumption

\* Pids are numbers, so the shell is none of them.
LEMMA ShellIsNoPid == Shell \notin Pid /\ Pid \subseteq Nat /\ VFd \subseteq Nat /\ -1 \notin VFd
BY DEF Shell, Pid, VFd

LEMMA IdleFields ==
  /\ Idle.step = "idle" /\ Idle.v = -1 /\ Idle.p = Shell /\ Idle.again = FALSE
  /\ Idle \in [step : {"idle"}, k : {"none"}, b : {-1}, v : {-1}, p : {Shell}, again : {FALSE}]
BY DEF Idle, Call

\* A descriptor that leads to its file has a backend, an entry and an owner.
LEMMA CurrentTyped ==
  ASSUME TypeOK, NEW v \in VFd, Used(v), vfd[v] # Wiped
  PROVE  /\ vfd[v].k \in Backend /\ vfd[v].b \in Nat /\ vfd[v].owner \in Actor
BY DEF TypeOK, Used

LEMMA FileUsed ==
  ASSUME NEW k \in Backend, NEW b, NEW a
  PROVE  File(k, b, a) # Closed /\ File(k, b, a) # Wiped /\ File(k, b, a).k = k
         /\ File(k, b, a).b = b /\ File(k, b, a).owner = a
BY DEF File, Closed, Wiped, Backend

LEMMA BackendNames == "none" \notin Backend /\ "wiped" \notin Backend /\ "disk" \in Backend
BY DEF Backend

LEMMA ClosedFields ==
  /\ Closed.k = "none" /\ Closed.b = -1 /\ Closed.owner = Shell
  /\ Wiped.k = "wiped" /\ Wiped.b = -1 /\ Wiped.owner = Shell /\ Wiped # Closed
BY DEF Closed, Wiped, Shell

\* Giving entries back keeps the tables typed.
LEMMA GiveTyped ==
  ASSUME TypeOK, NEW C, GiveEntries(C)
  PROVE  /\ open' \in [Backend -> SUBSET Nat]
         /\ \A k \in Backend : open'[k] \subseteq Slot(k)
         /\ own' \in [Slot("disk") -> Actor]
BY DEF TypeOK, GiveEntries, Actor, Shell

\* So does taking one.
LEMMA TakeTyped ==
  ASSUME TypeOK, NEW a \in Actor, NEW k \in Backend, NEW b \in Slot(k), TakeEntry(a, k, b)
  PROVE  /\ open' \in [Backend -> SUBSET Nat]
         /\ \A j \in Backend : open'[j] \subseteq Slot(j)
         /\ own' \in [Slot("disk") -> Actor]
BY DEF TypeOK, TakeEntry, Slot

\* What giving entries back means for one entry.
LEMMA GiveMeans ==
  ASSUME TypeOK, NEW C, GiveEntries(C)
  PROVE  /\ \A k \in Backend : \A b : b \in open'[k] <=> b \in open[k] /\ <<k, b>> \notin C
         /\ \A b \in Slot("disk") : <<"disk", b>> \in C => own'[b] = -1
         /\ \A b \in Slot("disk") : <<"disk", b>> \notin C => own'[b] = own[b]
BY DEF TypeOK, GiveEntries, Backend

-----------------------------------------------------------------------------
\* The shared part of every step but the takers': the entries C are given
\* back, or their fields wiped, and some descriptors closed.
LEMMA Gives ==
  ASSUME TypeOK, DescriptorsDistinct, NoOrphans, OwnersAgree, NEW C,
         \A k \in Backend : \A b : b \in open'[k] <=> b \in open[k] /\ <<k, b>> \notin C,
         \A b \in Slot("disk") : <<"disk", b>> \in C => own'[b] = -1,
         \A b \in Slot("disk") : <<"disk", b>> \notin C =>
           own'[b] = own[b] \/ (own'[b] = -1 /\ <<"disk", b>> \in raced'),
         raced \subseteq raced',
         \A v \in VFd : Current(v)' => /\ Current(v) /\ vfd'[v] = vfd[v]
                                       /\ Entry(v) \in C => Entry(v) \in raced',
         \A v \in VFd : Current(v) => Current(v)' \/ Entry(v) \in C \cup raced',
         sh.step \in {"opened", "slot"} =>
           \/ <<sh.k, sh.b>> \in C \cup raced'
           \/ sh'.step \in {"opened", "slot"} /\ sh'.k = sh.k /\ sh'.b = sh.b
  PROVE  DescriptorsDistinct' /\ NoOrphans' /\ OwnersAgree'
<1>1. ASSUME NEW v \in VFd, Current(v)'
      PROVE  /\ Current(v) /\ vfd'[v] = vfd[v] /\ Entry(v)' = Entry(v)
             /\ vfd[v].k \in Backend
             /\ Entry(v) \notin raced' => Entry(v) \notin raced /\ Entry(v) \notin C
  BY <1>1, CurrentTyped DEF Current, Entry
<1>2. DescriptorsDistinct'
  <2> SUFFICES ASSUME NEW v \in VFd, Current(v)', Entry(v)' \notin raced'
               PROVE  /\ vfd'[v].b \in open'[vfd'[v].k]
                      /\ \A w \in VFd \ {v} : Current(w)' => Entry(v)' # Entry(w)'
    BY DEF DescriptorsDistinct
  <2>1. Current(v) /\ vfd'[v] = vfd[v] /\ Entry(v)' = Entry(v) /\ Entry(v) \notin raced
        /\ Entry(v) \notin C /\ vfd[v].k \in Backend
    BY <1>1
  <2>2. vfd[v].b \in open[vfd[v].k] /\ <<vfd[v].k, vfd[v].b>> \notin C
    BY <2>1 DEF DescriptorsDistinct, Entry
  <2>3. \A w \in VFd \ {v} : Current(w)' => Entry(v)' # Entry(w)'
    BY <1>1, <2>1 DEF DescriptorsDistinct
  <2> QED
    BY <2>1, <2>2, <2>3
<1>3. NoOrphans'
  <2> SUFFICES ASSUME NEW k \in Backend, NEW b \in open'[k], <<k, b>> \notin raced'
               PROVE  \/ \E v \in VFd : Current(v)' /\ Entry(v)' = <<k, b>>
                      \/ sh'.step \in {"opened", "slot"} /\ sh'.k = k /\ sh'.b = b
    BY DEF NoOrphans
  <2>1. b \in open[k] /\ <<k, b>> \notin C /\ <<k, b>> \notin raced
    OBVIOUS
  <2>2. CASE \E v \in VFd : Current(v) /\ Entry(v) = <<k, b>>
    BY <1>1, <2>1, <2>2
  <2>3. CASE sh.step \in {"opened", "slot"} /\ sh.k = k /\ sh.b = b
    BY <2>1, <2>3
  <2> QED
    BY <2>1, <2>2, <2>3 DEF NoOrphans
<1>4. OwnersAgree'
  <2>1. ASSUME NEW v \in VFd, Current(v)', vfd'[v].k = "disk", Entry(v)' \notin raced'
        PROVE  own'[vfd'[v].b] = vfd'[v].owner
    <3>1. /\ Current(v) /\ vfd'[v] = vfd[v] /\ vfd[v].k = "disk" /\ Entry(v) = <<"disk", vfd[v].b>>
          /\ Entry(v) \notin raced /\ Entry(v) \notin C /\ Entry(v) \notin raced'
      BY <1>1, <2>1 DEF Entry
    <3>2. vfd[v].b \in Slot("disk") /\ own[vfd[v].b] = vfd[v].owner
      BY <3>1, BackendNames DEF DescriptorsDistinct, OwnersAgree, TypeOK
    <3> QED
      BY <3>1, <3>2
  <2>2. ASSUME NEW b \in Slot("disk"), b \notin open'["disk"]
        PROVE  own'[b] = -1
    BY <2>2, BackendNames DEF OwnersAgree
  <2> QED
    BY <2>1, <2>2 DEF OwnersAgree
<1> QED
  BY <1>2, <1>3, <1>4

\* What a process owns is never more than before, but for a living one's.
LEMMA OwnsNoMore ==
  ASSUME ReleasedOwnNothing,
         \A v \in VFd : \/ vfd'[v].owner = vfd[v].owner \/ vfd'[v].owner = Shell
                        \/ vfd'[v].owner \in {q \in Pid : st[q] = "live"},
         \A b \in Slot("disk") : \/ own'[b] = own[b] \/ own'[b] = Shell
                                 \/ own'[b] \in {q \in Pid : st[q] = "live"},
         \A p \in Pid : st'[p] \in {"unused", "released"} => st'[p] = st[p]
  PROVE  ReleasedOwnNothing'
<1> SUFFICES ASSUME NEW p \in Pid, st'[p] \in {"unused", "released"}
             PROVE  /\ \A v \in VFd : vfd'[v].owner # p
                    /\ \A b \in Slot("disk") : own'[b] # p
  BY DEF ReleasedOwnNothing
<1>1. st[p] \in {"unused", "released"} /\ st[p] # "live" /\ p # Shell
  BY ShellIsNoPid
<1> QED
  BY <1>1 DEF ReleasedOwnNothing

\* Giving back makes nobody an owner.
LEMMA GiveOwns ==
  ASSUME TypeOK, NEW C, GiveEntries(C)
  PROVE  \A b \in Slot("disk") : own'[b] = own[b] \/ own'[b] = Shell
BY GiveMeans DEF Shell

\* A step that leaves the tables alone.
LEMMA TablesKept ==
  ASSUME TypeOK, DescriptorsDistinct, NoOrphans, OwnersAgree,
         UNCHANGED <<vfd, open, own, raced>>,
         \A v \in VFd : Current(v)' <=> Current(v),
         sh.step \in {"opened", "slot"} =>
           sh'.step \in {"opened", "slot"} /\ sh'.k = sh.k /\ sh'.b = sh.b
  PROVE  DescriptorsDistinct' /\ NoOrphans' /\ OwnersAgree'
<1> DEFINE C == {}
<1>1. /\ \A k \in Backend : \A b : b \in open'[k] <=> b \in open[k] /\ <<k, b>> \notin C
      /\ \A b \in Slot("disk") : <<"disk", b>> \in C => own'[b] = -1
      /\ \A b \in Slot("disk") : <<"disk", b>> \notin C =>
           own'[b] = own[b] \/ (own'[b] = -1 /\ <<"disk", b>> \in raced')
  OBVIOUS
<1>2. \A v \in VFd : Current(v)' => /\ Current(v) /\ vfd'[v] = vfd[v]
                                    /\ Entry(v) \in C => Entry(v) \in raced'
  OBVIOUS
<1>3. \A v \in VFd : Current(v) => Current(v)' \/ Entry(v) \in C \cup raced'
  OBVIOUS
<1>4. sh.step \in {"opened", "slot"} =>
           \/ <<sh.k, sh.b>> \in C \cup raced'
           \/ sh'.step \in {"opened", "slot"} /\ sh'.k = sh.k /\ sh'.b = sh.b
  OBVIOUS
<1> HIDE DEF C
<1> QED
  BY <1>1, <1>2, <1>3, <1>4, Gives

LEMMA InitIInv == Init => IInv
<1> SUFFICES ASSUME Init PROVE IInv
  OBVIOUS
<1>1. TypeOK
  BY IdleFields DEF Init, TypeOK, Idle, Call, Slot, Actor, Shell
<1>2. \A v \in VFd : ~Used(v)
  BY DEF Init, Used
<1>3. DescriptorsDistinct /\ NoOrphans
  BY <1>2 DEF Init, DescriptorsDistinct, NoOrphans, Current
<1>4. ReleasedOwnNothing
  BY ShellIsNoPid DEF Init, ReleasedOwnNothing, Closed, Shell
<1>5. ShellCall /\ OwnersAgree /\ SweptBehind
  BY <1>2, IdleFields, ShellIsNoPid DEF Init, ShellCall, OwnersAgree, SweptBehind, Current
<1> QED
  BY <1>1, <1>3, <1>4, <1>5 DEF IInv

-----------------------------------------------------------------------------
LEMMA OpenKeeps ==
  ASSUME IInv, NEW p \in Pid, NEW k \in Backend, OpenVfd(p, k)
  PROVE  IInv'
<1> USE DEF IInv
<1>1. CASE UNCHANGED <<vfd, open, own>>
  <2>1. UNCHANGED vars
    BY <1>1 DEF OpenVfd, vars
  <2> QED
    BY <2>1 DEF vars, TypeOK, DescriptorsDistinct, NoOrphans, ReleasedOwnNothing,
                ShellCall, SweptBehind, OwnersAgree, Current, Closing, Used, Entry
<1>2. ASSUME NEW b \in Slot(k), NEW v \in VFd, IsLowest(b, Slot(k) \ open[k]),
             IsLowest(v, FreeVfds), TakeEntry(p, k, b),
             vfd' = [vfd EXCEPT ![v] = File(k, b, p)]
      PROVE  IInv'
  <2>1. b \notin open[k] /\ ~Used(v) /\ vfd[v] = Closed /\ p \in Actor /\ b \in Nat
        /\ UNCHANGED <<st, sh, raced, shared>> /\ st[p] = "live"
    BY <1>2 DEF IsLowest, FreeVfds, OpenVfd, Actor, Slot, Used
  <2>2. /\ Used(v)' /\ vfd'[v] # Wiped /\ vfd'[v].k = k /\ vfd'[v].b = b /\ vfd'[v].owner = p
        /\ Entry(v)' = <<k, b>>
        /\ \A w \in VFd \ {v} : vfd'[w] = vfd[w] /\ (Current(w)' <=> Current(w)) /\ Entry(w)' = Entry(w)
    BY <1>2, <2>1, FileUsed DEF TypeOK, Used, Current, Closing, Entry
  <2>3. ~Current(v) /\ ~Closing(v) /\ (Current(v)' \/ <<k, b>> \in raced)
    <3>1. ~Current(v) /\ ~Closing(v)
      BY <2>1, BackendNames, ClosedFields DEF Current, Closing, Entry, ShellCall
    <3> QED
      BY <2>1, <2>2, <3>1, ShellIsNoPid DEF ShellCall, Current, Closing
  <2>4. TypeOK'
    BY <1>2, <2>1, TakeTyped DEF TypeOK, File
  <2>5. DescriptorsDistinct'
    BY <1>2, <2>1, <2>2, <2>3, CurrentTyped DEF DescriptorsDistinct, TakeEntry, Current, Entry, TypeOK
  <2>6. NoOrphans'
    <3> SUFFICES ASSUME NEW j \in Backend, NEW c \in open'[j], <<j, c>> \notin raced'
                 PROVE  \/ \E w \in VFd : Current(w)' /\ Entry(w)' = <<j, c>>
                        \/ sh'.step \in {"opened", "slot"} /\ sh'.k = j /\ sh'.b = c
      BY DEF NoOrphans
    <3>1. c \in open[j] \/ (j = k /\ c = b)
      BY <1>2 DEF TakeEntry, TypeOK
    <3>2. CASE j = k /\ c = b
      BY <2>1, <2>2, <2>3, <3>2
    <3>3. CASE c \in open[j]
      BY <2>1, <2>2, <2>3, <3>3 DEF NoOrphans
    <3> QED
      BY <3>1, <3>2, <3>3
  <2>7. ReleasedOwnNothing'
    BY <1>2, <2>1, <2>2 DEF ReleasedOwnNothing, TakeEntry, TypeOK
  <2>8. ShellCall'
    <3>1. sh.step \in {"opened", "slot"} =>
            \/ <<sh.k, sh.b>> \in raced
            \/ /\ sh.b \in open'[sh.k]
               /\ sh.k = "disk" => own'[sh.b] = Shell
               /\ \A w \in VFd : Current(w)' => Entry(w)' # <<sh.k, sh.b>>
      BY <1>2, <2>1, <2>2, <2>3 DEF ShellCall, TakeEntry, TypeOK
    <3>2. sh.step \in {"closed", "reset"} /\ sh.v # -1 => Closing(sh.v)' \/ <<sh.k, sh.b>> \in raced
      BY <2>1, <2>2, <2>3 DEF ShellCall, Closing, Entry
    <3> QED
      BY <2>1, <3>1, <3>2 DEF ShellCall
  <2>9. OwnersAgree'
    BY <1>2, <2>1, <2>2, <2>3, CurrentTyped, BackendNames
    DEF OwnersAgree, DescriptorsDistinct, TakeEntry, Current, TypeOK
  <2>10. SweptBehind'
    BY <1>2, <2>1, <2>2 DEF SweptBehind
  <2> QED
    BY <2>4, <2>5, <2>6, <2>7, <2>8, <2>9, <2>10
<1> QED
  BY <1>1, <1>2 DEF OpenVfd

LEMMA CloseKeeps ==
  ASSUME IInv, NEW p \in Pid, NEW v \in VFd, CloseVfd(p, v)
  PROVE  IInv'
<1> USE DEF IInv
<1> DEFINE C == {Entry(v)}
<1>1. /\ Used(v) /\ GiveEntries(C) /\ vfd' = [vfd EXCEPT ![v] = Closed]
      /\ raced' = raced \cup {e \in {Entry(v)} : Closing(v)} /\ UNCHANGED <<st, sh, shared>>
  BY DEF CloseVfd, MayClose
<1>2. /\ ~Used(v)' /\ vfd'[v] = Closed /\ ~Current(v)'
      /\ \A w \in VFd \ {v} : /\ vfd'[w] = vfd[w] /\ Entry(w)' = Entry(w)
                              /\ (Current(w)' <=> Current(w)) /\ (Closing(w)' <=> Closing(w))
  BY <1>1 DEF TypeOK, Used, Current, Closing, Entry
<1>3. ASSUME NEW k \in Backend, NEW b, <<k, b>> = Entry(v)
      PROVE  Current(v) \/ (Closing(v) /\ <<k, b>> \in raced')
  BY <1>1, <1>3, BackendNames, ClosedFields DEF Current, Entry
<1>4. TypeOK'
  <2>1. raced' \subseteq (Backend \X Nat) \cup {<<"wiped", -1>>}
    BY <1>1 DEF TypeOK, Closing, ShellCall, Slot
  <2> QED
    BY <1>1, <2>1, GiveTyped DEF TypeOK
<1>5. DescriptorsDistinct' /\ NoOrphans' /\ OwnersAgree'
  <2>1. \A w \in VFd : Current(w)' => /\ Current(w) /\ vfd'[w] = vfd[w]
                                      /\ Entry(w) \in C => Entry(w) \in raced'
    <3> SUFFICES ASSUME NEW w \in VFd, Current(w)', Entry(w) = Entry(v)
                 PROVE  Entry(w) \in raced'
      BY <1>2
    <3>1. w # v /\ Current(w) /\ vfd[w].k \in Backend /\ Entry(v) = <<vfd[w].k, vfd[w].b>>
      BY <1>2, CurrentTyped DEF Current, Entry
    <3>2. Current(v) => Entry(w) \in raced
      BY <3>1 DEF DescriptorsDistinct
    <3> QED
      BY <1>1, <1>3, <3>1, <3>2
  <2>2. \A w \in VFd : Current(w) => Current(w)' \/ Entry(w) \in C \cup raced'
    BY <1>2
  <2> HIDE DEF C
  <2> QED
    BY <1>1, <2>1, <2>2, GiveMeans, Gives
<1>6. ReleasedOwnNothing'
  BY <1>1, <1>2, GiveOwns, OwnsNoMore, ClosedFields
<1>7. ShellCall'
  <2>1. ASSUME sh.step \in {"opened", "slot"}, <<sh.k, sh.b>> \notin raced'
        PROVE  /\ sh.b \in open'[sh.k] /\ (sh.k = "disk" => own'[sh.b] = Shell)
               /\ \A w \in VFd : Current(w)' => Entry(w)' # <<sh.k, sh.b>>
    <3>1. /\ sh.k \in Backend /\ sh.b \in open[sh.k] /\ sh.b \in Slot(sh.k)
          /\ (sh.k = "disk" => own[sh.b] = Shell)
          /\ \A w \in VFd : Current(w) => Entry(w) # <<sh.k, sh.b>>
      BY <1>1, <2>1 DEF ShellCall
    <3>2. <<sh.k, sh.b>> \notin C
      BY <1>3, <2>1, <3>1
    <3>3. \A w \in VFd : Current(w)' => Entry(w)' # <<sh.k, sh.b>>
      BY <1>2, <3>1
    <3> HIDE DEF C
    <3> QED
      BY <1>1, <3>1, <3>2, <3>3, GiveMeans
  <2>2. ASSUME sh.step \in {"closed", "reset"}, sh.v # -1
        PROVE  Closing(sh.v)' \/ <<sh.k, sh.b>> \in raced'
    <3>1. sh.v \in VFd /\ (Closing(sh.v) \/ <<sh.k, sh.b>> \in raced)
      BY <2>2 DEF ShellCall
    <3> QED
      BY <1>1, <1>2, <3>1 DEF Closing
  <2> QED
    BY <1>1, <2>1, <2>2 DEF ShellCall
<1>8. SweptBehind'
  BY <1>1, <1>2, ShellIsNoPid, ClosedFields DEF SweptBehind, TypeOK, ShellCall
<1> QED
  BY <1>4, <1>5, <1>6, <1>7, <1>8

-----------------------------------------------------------------------------
\* The shell's call moves on, and neither the tables nor the processes.
LEMMA ShellMoves ==
  ASSUME IInv, UNCHANGED <<vfd, open, own, st, raced, shared>>,
         sh' \in [step : {"idle", "found", "opened", "slot", "closed", "reset", "wiped", "sweep"},
                  k : Backend \cup {"none"}, b : Nat \cup {-1}, v : Nat \cup {-1},
                  p : Actor, again : BOOLEAN],
         \A v \in VFd : ~Closing(v) /\ ~Closing(v)',
         sh.step \in {"opened", "slot"} =>
           sh'.step \in {"opened", "slot"} /\ sh'.k = sh.k /\ sh'.b = sh.b,
         ShellCall', SweptBehind'
  PROVE  IInv'
<1> USE DEF IInv
<1>1. \A v \in VFd : Current(v)' <=> Current(v)
  BY DEF Current, Used
<1>2. DescriptorsDistinct' /\ NoOrphans' /\ OwnersAgree'
  BY <1>1, TablesKept
<1>3. TypeOK' /\ ReleasedOwnNothing'
  BY DEF TypeOK, ReleasedOwnNothing
<1> QED
  BY <1>2, <1>3

LEMMA ShellOpenKeeps ==
  ASSUME IInv, NEW k \in Backend, ShellOpen(k)
  PROVE  IInv'
<1> USE DEF IInv
<1>1. PICK b \in Slot(k) : sh' = Call("found", k, b, -1, Shell, FALSE)
  BY DEF ShellOpen
<1>2. /\ sh = Idle /\ UNCHANGED <<vfd, open, own, st, raced, shared>>
      /\ sh'.step = "found" /\ sh'.k = k /\ sh'.b = b /\ sh'.v = -1 /\ sh'.p = Shell /\ b \in Nat
  BY <1>1 DEF ShellOpen, Starts, Call, Slot
<1>3. \A v \in VFd : ~Closing(v) /\ ~Closing(v)'
  BY <1>2, IdleFields DEF Closing
<1>4. ShellCall' /\ SweptBehind'
  BY <1>2, ShellIsNoPid DEF ShellCall, SweptBehind
<1>5. sh' \in [step : {"found"}, k : Backend, b : Nat, v : {-1}, p : Actor, again : BOOLEAN]
  BY <1>1, <1>2 DEF Call, Actor
<1> QED
  BY <1>2, <1>3, <1>4, <1>5, IdleFields, ShellMoves

LEMMA ShellTakeKeeps ==
  ASSUME IInv, ShellTake
  PROVE  IInv'
<1> USE DEF IInv
<1> DEFINE k == sh.k
           b == sh.b
<1>1. /\ sh.step = "found" /\ k \in Backend /\ b \in Slot(k) /\ b \in Nat /\ sh.p = Shell
      /\ TakeEntry(Shell, k, b) /\ UNCHANGED <<vfd, st, shared>> /\ Shell \in Actor
      /\ raced \subseteq raced' /\ (b \in open[k] => <<k, b>> \in raced')
      /\ \A e \in raced' : e \in raced \/ e = <<k, b>>
      /\ sh' = [sh EXCEPT !.step = "opened"]
  BY DEF ShellTake, ShellCall, Slot, Actor
<1>2. sh'.step = "opened" /\ sh'.k = k /\ sh'.b = b /\ sh'.p = Shell /\ sh'.v = sh.v
  BY <1>1 DEF TypeOK
<1>3. \A w \in VFd : (Current(w)' <=> Current(w)) /\ Entry(w)' = Entry(w)
                     /\ (Current(w) /\ Entry(w) = <<k, b>> /\ <<k, b>> \notin raced => b \in open[k])
  BY <1>1, <1>2 DEF Current, Closing, Used, Entry, DescriptorsDistinct
<1>4. TypeOK'
  <2>1. sh' \in [step : {"opened"}, k : Backend \cup {"none"}, b : Nat \cup {-1},
                 v : Nat \cup {-1}, p : Actor, again : BOOLEAN]
    BY <1>1 DEF TypeOK
  <2>2. raced' \subseteq (Backend \X Nat) \cup {<<"wiped", -1>>}
    BY <1>1 DEF TypeOK
  <2> QED
    BY <1>1, <2>1, <2>2, TakeTyped DEF TypeOK
<1>5. DescriptorsDistinct'
  BY <1>1, <1>3, CurrentTyped DEF DescriptorsDistinct, TakeEntry, Current, TypeOK
<1>6. NoOrphans'
  <2> SUFFICES ASSUME NEW j \in Backend, NEW c \in open'[j], <<j, c>> \notin raced'
               PROVE  \/ \E w \in VFd : Current(w)' /\ Entry(w)' = <<j, c>>
                      \/ sh'.step \in {"opened", "slot"} /\ sh'.k = j /\ sh'.b = c
    BY DEF NoOrphans
  <2>1. c \in open[j] \/ (j = k /\ c = b)
    BY <1>1 DEF TakeEntry, TypeOK
  <2> QED
    BY <1>1, <1>2, <1>3, <2>1 DEF NoOrphans
<1>7. ReleasedOwnNothing'
  BY <1>1, OwnsNoMore DEF TakeEntry, TypeOK
<1>8. ShellCall'
  <2>1. b \in open'[k] /\ (k = "disk" => own'[b] = Shell)
    BY <1>1 DEF TakeEntry, TypeOK
  <2>2. <<k, b>> \in raced' \/ \A w \in VFd : Current(w)' => Entry(w)' # <<k, b>>
    BY <1>1, <1>3
  <2> QED
    BY <1>1, <1>2, <2>1, <2>2 DEF ShellCall
<1>9. OwnersAgree'
  <2>1. ASSUME NEW w \in VFd, Current(w)', vfd'[w].k = "disk", Entry(w)' \notin raced'
        PROVE  own'[vfd'[w].b] = vfd'[w].owner
    <3>1. Current(w) /\ vfd'[w] = vfd[w] /\ Entry(w) \notin raced /\ Entry(w) # <<k, b>>
          /\ vfd[w].b \in Slot("disk") /\ own[vfd[w].b] = vfd[w].owner
      BY <1>1, <1>3, <2>1, BackendNames DEF DescriptorsDistinct, OwnersAgree, TypeOK
    <3>2. ~(k = "disk" /\ b = vfd[w].b)
      BY <2>1, <3>1 DEF Entry
    <3> QED
      BY <1>1, <3>1, <3>2 DEF TakeEntry, TypeOK
  <2>2. ASSUME NEW c \in Slot("disk"), c \notin open'["disk"]
        PROVE  own'[c] = -1
    BY <1>1, <2>2, BackendNames DEF OwnersAgree, TakeEntry, TypeOK
  <2> QED
    BY <2>1, <2>2 DEF OwnersAgree
<1>10. SweptBehind'
  BY <1>1, <1>2, ShellIsNoPid DEF SweptBehind
<1> QED
  BY <1>4, <1>5, <1>6, <1>7, <1>8, <1>9, <1>10

LEMMA ShellAllocKeeps ==
  ASSUME IInv, ShellAllocFd
  PROVE  IInv'
<1> USE DEF IInv
<1> DEFINE k == sh.k
           b == sh.b
           C == {<<k, b>>}
<1>1. /\ sh.step = "opened" /\ k \in Backend /\ b \in Slot(k) /\ b \in Nat /\ sh.p = Shell
      /\ UNCHANGED <<vfd, st, raced, shared>>
      /\ \A v \in VFd : ~Closing(v) /\ (Current(v) => Entry(v) # <<k, b>> \/ <<k, b>> \in raced)
  <2>1. sh.step = "opened" /\ UNCHANGED <<vfd, st, raced, shared>>
    BY DEF ShellAllocFd
  <2>2. k \in Backend /\ b \in Slot(k) /\ b \in Nat /\ sh.p = Shell
    BY <2>1 DEF ShellCall, Slot
  <2>3. \A v \in VFd : Current(v) => Entry(v) # <<k, b>> \/ <<k, b>> \in raced
    BY <2>1 DEF ShellCall
  <2> QED
    BY <2>1, <2>2, <2>3 DEF Closing
<1>2. ASSUME NEW v \in VFd, sh' = [sh EXCEPT !.step = "slot", !.v = v], UNCHANGED <<open, own>>
      PROVE  IInv'
  <2>1. sh'.step = "slot" /\ sh'.k = k /\ sh'.b = b /\ sh'.p = Shell /\ sh'.v = v
    BY <1>1, <1>2 DEF TypeOK
  <2>2. sh' \in [step : {"slot"}, k : Backend \cup {"none"}, b : Nat \cup {-1},
                 v : Nat, p : Actor, again : BOOLEAN]
    BY <1>2, ShellIsNoPid DEF TypeOK
  <2>3. \A w \in VFd : ~Closing(w)' /\ (Current(w)' <=> Current(w)) /\ Entry(w)' = Entry(w)
    BY <1>1, <2>1 DEF Closing, Current, Used, Entry
  <2>4. ShellCall' /\ SweptBehind'
    BY <1>1, <1>2, <2>1, <2>3, ShellIsNoPid DEF ShellCall, SweptBehind
  <2> QED
    BY <1>1, <1>2, <2>1, <2>2, <2>3, <2>4, ShellMoves
<1>3. CASE GiveEntries(C) /\ sh' = [sh EXCEPT !.step = "closed"]
  <2>1. sh'.step = "closed" /\ sh'.k = k /\ sh'.b = b /\ sh'.p = Shell /\ sh'.v = sh.v
    BY <1>1, <1>3 DEF TypeOK
  <2>2. sh.v = -1
    BY <1>1 DEF ShellCall
  <2>3. \A w \in VFd : (Current(w)' <=> Current(w)) /\ vfd'[w] = vfd[w]
    BY <1>1, <2>1, <2>2, ShellIsNoPid DEF Closing, Current, Used
  <2>4. TypeOK'
    <3>1. sh' \in [step : {"closed"}, k : Backend \cup {"none"}, b : Nat \cup {-1},
                   v : Nat \cup {-1}, p : Actor, again : BOOLEAN]
      BY <1>3 DEF TypeOK
    <3> QED
      BY <1>1, <1>3, <3>1, GiveTyped DEF TypeOK
  <2>5. DescriptorsDistinct' /\ NoOrphans' /\ OwnersAgree'
    <3>1. \A w \in VFd : Current(w)' => /\ Current(w) /\ vfd'[w] = vfd[w]
                                        /\ Entry(w) \in C => Entry(w) \in raced'
      BY <1>1, <2>3
    <3>2. \A w \in VFd : Current(w) => Current(w)' \/ Entry(w) \in C \cup raced'
      BY <2>3
    <3>3. <<sh.k, sh.b>> \in C \cup raced'
      OBVIOUS
    <3> HIDE DEF C
    <3> QED
      BY <1>1, <1>3, <3>1, <3>2, <3>3, GiveMeans, Gives
  <2>6. ReleasedOwnNothing'
    BY <1>1, <1>3, GiveOwns, OwnsNoMore
  <2>7. ShellCall' /\ SweptBehind'
    BY <1>1, <2>1, <2>2, ShellIsNoPid DEF ShellCall, SweptBehind
  <2> QED
    BY <2>4, <2>5, <2>6, <2>7
<1> QED
  BY <1>2, <1>3 DEF ShellAllocFd, FreeVfds

LEMMA ShellTakeFdKeeps ==
  ASSUME IInv, ShellTakeFd
  PROVE  IInv'
<1> USE DEF IInv
<1>0. /\ sh.step = "slot" /\ sh.k \in Backend /\ sh.b \in Slot(sh.k) /\ sh.v \in VFd
  <2>1. sh.step = "slot"
    BY DEF ShellTakeFd
  <2> QED
    BY <2>1 DEF ShellCall
<1>10. PICK k \in Backend, b \in Nat, v \in VFd : k = sh.k /\ b = sh.b /\ v = sh.v
  BY <1>0 DEF Slot
<1>1. /\ sh.step = "slot" /\ k \in Backend /\ b \in Slot(k) /\ b \in Nat /\ v \in VFd
      /\ sh' = Idle /\ sh'.step = "idle" /\ sh'.p = Shell /\ UNCHANGED <<open, own, st>>
      /\ vfd' = [vfd EXCEPT ![v] = File(k, b, Shell)]
      /\ raced' = raced \cup (IF Used(v) THEN {Entry(v), <<k, b>>} ELSE {})
      /\ shared' \subseteq shared \cup {v}
  <2>1. /\ sh' = Idle /\ UNCHANGED <<open, own, st>>
        /\ vfd' = [vfd EXCEPT ![v] = File(k, b, Shell)]
    BY <1>10 DEF ShellTakeFd
  <2>2. /\ raced' = raced \cup (IF Used(v) THEN {Entry(v), <<k, b>>} ELSE {})
        /\ shared' \subseteq shared \cup {v}
    BY <1>10 DEF ShellTakeFd
  <2> QED
    BY <1>0, <1>10, <2>1, <2>2, IdleFields
<1>11. k \in Backend /\ b \in Slot(k) /\ b \in Nat /\ v \in VFd
  BY <1>1
<1>2. /\ Used(v)' /\ vfd'[v].k = k /\ vfd'[v].b = b /\ vfd'[v].owner = Shell
      /\ Entry(v)' = <<k, b>> /\ Current(v)'
      /\ \A w \in VFd \ {v} : vfd'[w] = vfd[w] /\ (Current(w)' <=> Current(w)) /\ Entry(w)' = Entry(w)
  <2>1. \A w \in VFd : ~Closing(w) /\ ~Closing(w)'
    BY <1>1, <1>11 DEF Closing
  <2>2. vfd'[v] = File(k, b, Shell) /\ \A w \in VFd \ {v} : vfd'[w] = vfd[w]
    BY <1>1, <1>11 DEF TypeOK
  <2>3. /\ vfd'[v].k = k /\ vfd'[v].b = b /\ vfd'[v].owner = Shell /\ vfd'[v] # Closed /\ vfd'[v] # Wiped
    BY <1>1, <1>11, <2>2, FileUsed
  <2>4. Used(v)' /\ Current(v)' /\ Entry(v)' = <<k, b>>
    BY <1>1, <1>11, <2>1, <2>3 DEF Used, Current, Entry
  <2>5. \A w \in VFd \ {v} : (Current(w)' <=> Current(w)) /\ Entry(w)' = Entry(w)
    BY <2>1, <2>2 DEF Used, Current, Entry
  <2> QED
    BY <2>2, <2>3, <2>4, <2>5
<1>3. \/ <<k, b>> \in raced'
      \/ /\ b \in open[k] /\ (k = "disk" => own[b] = Shell)
         /\ \A w \in VFd : Current(w) => Entry(w) # <<k, b>>
  BY <1>1, <1>10 DEF ShellCall
<1>4. raced \subseteq raced' /\ (Current(v) => Entry(v) \in raced')
  BY <1>1, <1>11 DEF Current
<1>5. TypeOK'
  <2>1. vfd' \in [VFd -> [k : Backend, b : Nat, owner : Actor] \cup {Closed, Wiped}]
    BY <1>1, <1>11 DEF TypeOK, File, Actor
  <2>2. Used(v) => Entry(v) \in (Backend \X Nat) \cup {<<"wiped", -1>>}
    BY <1>1, <1>11, CurrentTyped, ClosedFields DEF Entry
  <2>3. raced' \subseteq (Backend \X Nat) \cup {<<"wiped", -1>>}
    BY <1>1, <1>11, <2>2 DEF TypeOK
  <2> QED
    BY <1>1, <1>11, <2>1, <2>3, IdleFields DEF TypeOK, Idle, Call, Actor
<1>6. DescriptorsDistinct'
  <2> SUFFICES ASSUME NEW w \in VFd, Current(w)', Entry(w)' \notin raced'
               PROVE  /\ vfd'[w].b \in open'[vfd'[w].k]
                      /\ \A u \in VFd \ {w} : Current(u)' => Entry(w)' # Entry(u)'
    BY DEF DescriptorsDistinct
  <2>1. CASE w = v
    BY <1>1, <1>11, <1>2, <1>3, <2>1
  <2>2. CASE w # v
    BY <1>1, <1>11, <1>2, <1>3, <1>4, <2>2 DEF DescriptorsDistinct
  <2> QED
    BY <2>1, <2>2
<1>7. NoOrphans'
  <2> SUFFICES ASSUME NEW j \in Backend, NEW c \in open'[j], <<j, c>> \notin raced'
               PROVE  \E w \in VFd : Current(w)' /\ Entry(w)' = <<j, c>>
    BY DEF NoOrphans
  <2>1. CASE j = k /\ c = b
    BY <1>11, <1>2, <2>1
  <2>2. CASE ~(j = k /\ c = b)
    <3>1. PICK w \in VFd : Current(w) /\ Entry(w) = <<j, c>>
      BY <1>1, <1>4, <1>10, <2>2 DEF NoOrphans
    <3>2. w # v
      BY <1>4, <3>1
    <3> QED
      BY <1>2, <3>1, <3>2
  <2> QED
    BY <2>1, <2>2
<1>8. ReleasedOwnNothing'
  BY <1>1, <1>11, <1>2, OwnsNoMore
<1>9. ShellCall' /\ SweptBehind'
  BY <1>1, <1>11, ShellIsNoPid DEF ShellCall, SweptBehind
<1>12. OwnersAgree'
  BY <1>1, <1>11, <1>2, <1>3, <1>4 DEF OwnersAgree
<1> QED
  BY <1>5, <1>6, <1>7, <1>8, <1>9, <1>12

\* The first half of a close, the shell's or the sweep's.
LEMMA CloseBackendKeeps ==
  ASSUME IInv, NEW v \in VFd, NEW p \in Actor, NEW again \in BOOLEAN,
         sh.step \in {"idle", "sweep"}, Used(v), vfd[v] # Wiped,
         p \in Pid => p = sh.p /\ again = sh.again /\ sh.v <= v /\ sh.step = "sweep",
         p \in Pid => \A w \in VFd : w < v => w < sh.v \/ vfd[w].owner # p,
         CloseBackend(v, p, again)
  PROVE  IInv'
<1> USE DEF IInv
<1> DEFINE C == {Entry(v)}
<1>1. /\ GiveEntries(C) /\ UNCHANGED <<vfd, st, raced, shared>>
      /\ sh'.step = "closed" /\ sh'.k = vfd[v].k /\ sh'.b = vfd[v].b /\ sh'.v = v
      /\ sh'.p = p /\ sh'.again = again
      /\ sh' = Call("closed", vfd[v].k, vfd[v].b, v, p, again)
  BY DEF CloseBackend, Call
<1>2. /\ Current(v) /\ ~Current(v)' /\ Closing(v)' /\ vfd[v].k \in Backend /\ vfd[v].b \in Nat
      /\ \A w \in VFd : vfd'[w] = vfd[w] /\ Entry(w)' = Entry(w)
      /\ \A w \in VFd \ {v} : Current(w)' <=> Current(w)
  BY <1>1, CurrentTyped DEF Current, Closing, Used, Entry
<1>3. TypeOK'
  <2>1. sh' \in [step : {"closed"}, k : Backend, b : Nat, v : Nat, p : Actor, again : BOOLEAN]
    BY <1>1, <1>2, ShellIsNoPid DEF Call
  <2> QED
    BY <1>1, <2>1, GiveTyped DEF TypeOK
<1>4. DescriptorsDistinct' /\ NoOrphans' /\ OwnersAgree'
  <2>1. \A w \in VFd : Current(w)' => /\ Current(w) /\ vfd'[w] = vfd[w]
                                      /\ Entry(w) \in C => Entry(w) \in raced'
    BY <1>1, <1>2 DEF DescriptorsDistinct
  <2>2. \A w \in VFd : Current(w) => Current(w)' \/ Entry(w) \in C \cup raced'
    BY <1>2
  <2> HIDE DEF C
  <2> QED
    BY <1>1, <2>1, <2>2, GiveMeans, Gives
<1>5. ReleasedOwnNothing'
  BY <1>1, GiveOwns, OwnsNoMore
<1>6. ShellCall'
  <2>1. p \notin Pid => p = Shell
    BY DEF Actor
  <2> QED
    BY <1>1, <1>2, <2>1, ShellIsNoPid DEF ShellCall
<1>7. SweptBehind'
  BY <1>1 DEF SweptBehind
<1> QED
  BY <1>3, <1>4, <1>5, <1>6, <1>7

LEMMA ShellCloseKeeps ==
  ASSUME IInv, NEW v \in VFd, ShellClose(v)
  PROVE  IInv'
<1>1. /\ sh.step = "idle" /\ Used(v) /\ vfd[v] # Wiped /\ CloseBackend(v, Shell, FALSE)
      /\ Shell \in Actor /\ Shell \notin Pid /\ FALSE \in BOOLEAN
  BY IdleFields, ShellIsNoPid DEF ShellClose, Starts, Actor
<1> QED
  BY <1>1, CloseBackendKeeps

LEMMA ShellSweepKeeps ==
  ASSUME IInv, ShellSweep
  PROVE  IInv'
<1>1. PICK v \in Ahead : IsLowest(v, Ahead) /\ CloseBackend(v, sh.p, sh.again)
  BY DEF ShellSweep
<1>2. /\ sh.step = "sweep" /\ sh.p \in Pid /\ sh.p \in Actor /\ sh.again \in BOOLEAN
      /\ sh.v \in Nat /\ v \in VFd /\ Used(v) /\ vfd[v].owner = sh.p /\ sh.v <= v
  BY DEF ShellSweep, ShellCall, IInv, TypeOK, Ahead, OwnedBy, Actor
<1>3. vfd[v] # Wiped
  BY <1>2, ClosedFields, ShellIsNoPid
<1>4. ASSUME NEW w \in VFd, w < v, ~(w < sh.v)
      PROVE  vfd[w].owner # sh.p
  <2>1. sh.v <= w /\ ~(v <= w)
    BY <1>2, <1>4, ShellIsNoPid
  <2>2. w \notin Ahead
    BY <1>1, <2>1 DEF IsLowest
  <2> QED
    BY <1>2, <2>1, <2>2, ClosedFields, ShellIsNoPid DEF Ahead, OwnedBy, Used
<1> QED
  BY <1>1, <1>2, <1>3, <1>4, CloseBackendKeeps

LEMMA ShellWipeKeeps ==
  ASSUME IInv, ShellWipe
  PROVE  IInv'
<1> USE DEF IInv
<1>1. PICK k \in Backend, b \in Nat : k = sh.k /\ b = sh.b /\ sh.step = "closed"
  BY DEF ShellWipe, ShellCall
<1>2. /\ UNCHANGED <<vfd, open, st, shared>> /\ raced \subseteq raced'
      /\ raced' \subseteq raced \cup {<<k, b>>}
  BY <1>1 DEF ShellWipe
<1>3. /\ own' \in [Slot("disk") -> Actor]
      /\ \A c \in Slot("disk") : own'[c] = own[c] \/ (own'[c] = -1 /\ <<"disk", c>> \in raced')
  BY <1>1 DEF ShellWipe, TypeOK, Actor, Shell
<1>4. \/ sh.v = -1 /\ sh' = Idle
      \/ sh.v \in VFd /\ sh' = [sh EXCEPT !.step = "reset"]
  BY <1>1 DEF ShellWipe, ShellCall
<1>5. \/ sh.v = -1 /\ sh'.step = "idle" /\ sh'.p = Shell
      \/ /\ sh.v \in VFd /\ sh'.step = "reset" /\ sh'.v = sh.v /\ sh'.k = k /\ sh'.b = b
         /\ sh'.p = sh.p /\ sh'.again = sh.again
  BY <1>1, <1>4, IdleFields DEF TypeOK
<1>6. \A v \in VFd : /\ vfd'[v] = vfd[v] /\ (Closing(v)' <=> Closing(v))
                     /\ (Current(v)' <=> Current(v))
  <2>1. \A v \in VFd : Closing(v)' <=> Closing(v)
    BY <1>1, <1>2, <1>5, ShellIsNoPid DEF Closing, Entry
  <2> QED
    BY <1>2, <2>1 DEF Current, Used
<1>7. TypeOK'
  <2>1. sh' \in [step : {"idle", "reset"}, k : Backend \cup {"none"}, b : Nat \cup {-1},
                 v : Nat \cup {-1}, p : Actor, again : BOOLEAN]
    BY <1>4, IdleFields DEF TypeOK, Idle, Call, Actor
  <2> QED
    BY <1>2, <1>3, <2>1 DEF TypeOK
<1>8. DescriptorsDistinct' /\ NoOrphans' /\ OwnersAgree'
  <2> DEFINE C == {}
  <2>1. /\ \A j \in Backend : \A c : c \in open'[j] <=> c \in open[j] /\ <<j, c>> \notin C
        /\ \A c \in Slot("disk") : <<"disk", c>> \in C => own'[c] = -1
    BY <1>2
  <2>2. /\ \A v \in VFd : Current(v)' => /\ Current(v) /\ vfd'[v] = vfd[v]
                                         /\ Entry(v) \in C => Entry(v) \in raced'
        /\ \A v \in VFd : Current(v) => Current(v)' \/ Entry(v) \in C \cup raced'
    BY <1>6
  <2>3. sh.step \notin {"opened", "slot"}
    BY <1>1
  <2> HIDE DEF C
  <2> QED
    BY <1>2, <1>3, <2>1, <2>2, <2>3, Gives
<1>9. ReleasedOwnNothing'
  BY <1>2, <1>3, OwnsNoMore DEF Shell
<1>10. ShellCall'
  <2>1. CASE sh.v = -1
    BY <1>5, <2>1, ShellIsNoPid DEF ShellCall
  <2>2. CASE sh.v \in VFd
    BY <1>1, <1>2, <1>5, <1>6, <2>2, ShellIsNoPid DEF ShellCall
  <2> QED
    BY <1>5, <2>1, <2>2
<1>11. SweptBehind'
  BY <1>1, <1>2, <1>5, ShellIsNoPid DEF SweptBehind
<1> QED
  BY <1>7, <1>8, <1>9, <1>10, <1>11

\* What both halves of vfs_fd_reset do to a descriptor they may not own.
LEMMA ShellDrops ==
  ASSUME TypeOK, DescriptorsDistinct, NoOrphans, OwnersAgree, NEW v \in VFd,
         UNCHANGED <<open, own>>, raced \subseteq raced',
         vfd' = [vfd EXCEPT ![v] = Closed] \/ vfd' = [vfd EXCEPT ![v] = Wiped],
         Current(v) => Entry(v) \in raced',
         \A w \in VFd \ {v} : ~Closing(w) /\ ~Closing(w)',
         sh.step \notin {"opened", "slot"}
  PROVE  DescriptorsDistinct' /\ NoOrphans' /\ OwnersAgree'
<1>1. /\ ~Current(v)'
      /\ \A w \in VFd \ {v} : vfd'[w] = vfd[w] /\ (Current(w)' <=> Current(w))
  <2>1. (vfd'[v] = Closed \/ vfd'[v] = Wiped) /\ \A w \in VFd \ {v} : vfd'[w] = vfd[w]
    BY DEF TypeOK
  <2>2. ~Current(v)'
    BY <2>1 DEF Current, Used
  <2>3. \A w \in VFd \ {v} : Current(w)' <=> Current(w)
    BY <2>1 DEF Current, Used
  <2> QED
    BY <2>1, <2>2, <2>3
<1> DEFINE C == {}
<1>2. /\ \A j \in Backend : \A c : c \in open'[j] <=> c \in open[j] /\ <<j, c>> \notin C
      /\ \A c \in Slot("disk") : <<"disk", c>> \in C => own'[c] = -1
      /\ \A c \in Slot("disk") : own'[c] = own[c]
  OBVIOUS
<1>3. \A w \in VFd : Current(w)' => /\ Current(w) /\ vfd'[w] = vfd[w]
                                    /\ Entry(w) \in C => Entry(w) \in raced'
  BY <1>1
<1>4. \A w \in VFd : Current(w) => Current(w)' \/ Entry(w) \in C \cup raced'
  BY <1>1
<1> HIDE DEF C
<1> QED
  BY <1>2, <1>3, <1>4, Gives

LEMMA ShellResetKeeps ==
  ASSUME IInv, ShellReset
  PROVE  IInv'
<1> USE DEF IInv
<1>1. PICK v \in VFd : v = sh.v /\ sh.step = "reset"
  BY DEF ShellReset, ShellCall
<1>2. /\ vfd' = [vfd EXCEPT ![v] = Closed] /\ vfd'[v] = Closed
      /\ \A w \in VFd \ {v} : vfd'[w] = vfd[w]
      /\ raced' = raced \cup {e \in {Entry(v)} : Current(v)} /\ UNCHANGED <<open, own, st, shared>>
      /\ sh'.step = "wiped" /\ sh'.v = v /\ sh'.p = sh.p /\ sh'.again = sh.again
      /\ sh' = Call("wiped", "none", -1, v, sh.p, sh.again)
  BY <1>1 DEF ShellReset, Call, TypeOK
<1>3. \A w \in VFd \ {v} : ~Closing(w) /\ ~Closing(w)'
  BY <1>1, <1>2 DEF Closing
<1>4. TypeOK'
  <2>1. sh' \in [step : {"wiped"}, k : {"none"}, b : {-1}, v : Nat, p : Actor, again : BOOLEAN]
    BY <1>2, ShellIsNoPid DEF TypeOK, Call
  <2>2. raced' \subseteq (Backend \X Nat) \cup {<<"wiped", -1>>}
    BY <1>2, CurrentTyped DEF TypeOK, Current, Entry
  <2>3. vfd' \in [VFd -> [k : Backend, b : Nat, owner : Actor] \cup {Closed, Wiped}]
    BY <1>2 DEF TypeOK
  <2> QED
    BY <1>2, <2>1, <2>2, <2>3 DEF TypeOK
<1>5. DescriptorsDistinct' /\ NoOrphans' /\ OwnersAgree'
  BY <1>1, <1>2, <1>3, ShellDrops
<1>6. ReleasedOwnNothing'
  BY <1>2, ClosedFields, OwnsNoMore
<1>7. ShellCall'
  BY <1>1, <1>2, ShellIsNoPid DEF ShellCall
<1>8. SweptBehind'
  BY <1>1, <1>2, ClosedFields, ShellIsNoPid DEF SweptBehind
<1> QED
  BY <1>4, <1>5, <1>6, <1>7, <1>8

LEMMA ShellWipeFdKeeps ==
  ASSUME IInv, ShellWipeFd
  PROVE  IInv'
<1> USE DEF IInv
<1>1. PICK v \in VFd : v = sh.v /\ sh.step = "wiped"
  BY DEF ShellWipeFd, ShellCall
<1>2. /\ UNCHANGED <<open, own, st>> /\ shared' \subseteq shared \cup {v}
      /\ \/ Used(v) /\ vfd' = [vfd EXCEPT ![v] = Wiped] /\ raced' = raced \cup {Entry(v)}
         \/ ~Used(v) /\ vfd' = vfd /\ raced' = raced
  BY <1>1 DEF ShellWipeFd
<1>3. \/ sh.p = Shell /\ sh' = Idle /\ sh'.step = "idle" /\ sh'.p = Shell
      \/ /\ sh.p \in Pid /\ sh' = Call("sweep", "none", -1, v + 1, sh.p, sh.again)
         /\ sh'.step = "sweep" /\ sh'.v = v + 1 /\ sh'.p = sh.p /\ sh'.again = sh.again
  BY <1>1, IdleFields DEF ShellWipeFd, Call, TypeOK, Actor
<1>4. /\ vfd'[v] = Closed \/ vfd'[v] = Wiped
      /\ \A w \in VFd \ {v} : vfd'[w] = vfd[w]
      /\ vfd' = [vfd EXCEPT ![v] = Closed] \/ vfd' = [vfd EXCEPT ![v] = Wiped]
  BY <1>2 DEF Used, TypeOK
<1>5. \A w \in VFd : ~Closing(w) /\ ~Closing(w)'
  BY <1>1, <1>3 DEF Closing
<1>6. TypeOK'
  <2>1. sh' \in [step : {"idle", "sweep"}, k : {"none"}, b : {-1}, v : Nat \cup {-1},
                 p : Actor, again : BOOLEAN]
    <3>1. v + 1 \in Nat /\ sh.p \in Actor /\ sh.again \in BOOLEAN
      BY ShellIsNoPid DEF TypeOK
    <3>2. CASE sh' = Idle
      BY <3>2, IdleFields DEF Actor
    <3>3. CASE sh' = Call("sweep", "none", -1, v + 1, sh.p, sh.again)
      BY <3>1, <3>3 DEF Call
    <3> QED
      BY <1>3, <3>2, <3>3
  <2>2. Used(v) => Entry(v) \in (Backend \X Nat) \cup {<<"wiped", -1>>}
    BY CurrentTyped, ClosedFields DEF Entry
  <2>3. raced' \subseteq (Backend \X Nat) \cup {<<"wiped", -1>>}
    BY <1>2, <2>2 DEF TypeOK
  <2>4. vfd' \in [VFd -> [k : Backend, b : Nat, owner : Actor] \cup {Closed, Wiped}]
    BY <1>4 DEF TypeOK
  <2> QED
    BY <1>2, <2>1, <2>3, <2>4 DEF TypeOK
<1>7. DescriptorsDistinct' /\ NoOrphans' /\ OwnersAgree'
  <2>1. raced \subseteq raced' /\ (Current(v) => Entry(v) \in raced')
    BY <1>2 DEF Current
  <2> QED
    BY <1>1, <1>2, <1>4, <1>5, <2>1, ShellDrops
<1>8. ReleasedOwnNothing'
  BY <1>2, <1>4, ClosedFields, OwnsNoMore
<1>9. ShellCall'
  BY <1>1, <1>3, ShellIsNoPid DEF ShellCall
<1>10. SweptBehind'
  <2>1. CASE sh.p = Shell
    BY <1>3, <2>1, ShellIsNoPid DEF SweptBehind
  <2>2. CASE sh.p \in Pid
    <3>1. sh'.p = sh.p /\ sh'.again = sh.again /\ sh'.v = v + 1 /\ sh'.step = "sweep"
      BY <1>3, <2>2, ShellIsNoPid
    <3>2. \A w \in VFd : w < v + 1 => w < v \/ w = v
      BY ShellIsNoPid
    <3> QED
      BY <1>1, <1>2, <1>4, <2>2, <3>1, <3>2, ClosedFields, ShellIsNoPid DEF SweptBehind
  <2> QED
    BY <1>3, <2>1, <2>2
<1> QED
  BY <1>6, <1>7, <1>8, <1>9, <1>10

-----------------------------------------------------------------------------
LEMMA CreateKeeps ==
  ASSUME IInv, NEW p \in Pid, Create(p)
  PROVE  IInv'
<1> USE DEF IInv
<1>1. /\ st' = [st EXCEPT ![p] = "live"] /\ UNCHANGED <<vfd, open, own, raced, shared>>
      /\ sh' = [sh EXCEPT !.again = sh.again \/ sh.p = p]
  BY DEF Create
<1>2. /\ sh'.step = sh.step /\ sh'.k = sh.k /\ sh'.b = sh.b /\ sh'.v = sh.v /\ sh'.p = sh.p
      /\ ~sh'.again => ~sh.again /\ sh.p # p
  BY <1>1 DEF TypeOK
<1>3. \A v \in VFd : /\ Closing(v)' <=> Closing(v)
                     /\ Current(v)' <=> Current(v)
                     /\ Entry(v)' = Entry(v)
  BY <1>1, <1>2 DEF Closing, Current, Used, Entry
<1>4. TypeOK'
  BY <1>1 DEF TypeOK
<1>5. DescriptorsDistinct' /\ NoOrphans' /\ OwnersAgree'
  BY <1>1, <1>2, <1>3, TablesKept
<1>6. ReleasedOwnNothing'
  BY <1>1 DEF TypeOK, ReleasedOwnNothing
<1>7. ShellCall'
  BY <1>1, <1>2, <1>3, ShellIsNoPid DEF ShellCall
<1>8. SweptBehind'
  BY <1>1, <1>2 DEF SweptBehind, TypeOK
<1> QED
  BY <1>4, <1>5, <1>6, <1>7, <1>8

LEMMA CreateExitKeep ==
  ASSUME IInv, NEW p \in Pid, CreateFails(p) \/ Exit(p)
  PROVE  IInv'
<1> USE DEF IInv
<1>1. /\ UNCHANGED <<vfd, open, own, sh, raced, shared>>
      /\ \/ st' = [st EXCEPT ![p] = "forgotten"]
         \/ st[p] = "live" /\ st' = [st EXCEPT ![p] = "exited"]
  BY DEF CreateFails, Exit
<1>2. \A v \in VFd : /\ Closing(v)' <=> Closing(v)
                     /\ Current(v)' <=> Current(v)
                     /\ Entry(v)' = Entry(v)
  BY <1>1 DEF Closing, Current, Used, Entry
<1>3. TypeOK' /\ ReleasedOwnNothing'
  BY <1>1 DEF TypeOK, ReleasedOwnNothing
<1>4. DescriptorsDistinct' /\ NoOrphans' /\ OwnersAgree'
  BY <1>1, <1>2, TablesKept
<1>5. ShellCall'
  BY <1>1, <1>2, ShellIsNoPid DEF ShellCall
<1>6. SweptBehind'
  BY <1>1 DEF SweptBehind, TypeOK
<1> QED
  BY <1>3, <1>4, <1>5, <1>6

LEMMA ShellKillKeeps ==
  ASSUME IInv, NEW p \in Pid, ShellKill(p)
  PROVE  IInv'
<1> USE DEF IInv
<1>1. /\ sh.step = "idle" /\ UNCHANGED <<vfd, open, own, raced, shared>>
      /\ st' = [st EXCEPT ![p] = "exited"]
      /\ sh' = Call("sweep", "none", -1, 0, p, FALSE)
      /\ sh'.step = "sweep" /\ sh'.v = 0 /\ sh'.p = p
  BY IdleFields DEF ShellKill, Starts, Call
<1>2. \A v \in VFd : /\ ~Closing(v) /\ ~Closing(v)'
                     /\ Current(v)' <=> Current(v)
  BY <1>1 DEF Closing, Current, Used
<1>3. TypeOK'
  <2>1. sh' \in [step : {"sweep"}, k : {"none"}, b : {-1}, v : Nat, p : Actor, again : BOOLEAN]
    BY <1>1 DEF Call, Actor
  <2> QED
    BY <1>1, <2>1 DEF TypeOK
<1>4. DescriptorsDistinct' /\ NoOrphans' /\ OwnersAgree'
  BY <1>1, <1>2, TablesKept
<1>5. ReleasedOwnNothing'
  BY <1>1 DEF TypeOK, ReleasedOwnNothing
<1>6. ShellCall'
  <2>1. sh'.step = "sweep" /\ sh'.v = 0 /\ sh'.p = p
    BY <1>1
  <2>2. 0 \in Nat
    OBVIOUS
  <2> QED
    BY <2>1, <2>2 DEF ShellCall
<1>7. SweptBehind'
  <2>1. \A v \in VFd : ~(v < 0)
    BY ShellIsNoPid
  <2> QED
    BY <1>1, <2>1 DEF SweptBehind, TypeOK
<1> QED
  BY <1>3, <1>4, <1>5, <1>6, <1>7

\* The end of the shell's process_kill.
LEMMA ShellSweptKeeps ==
  ASSUME IInv, ShellSwept
  PROVE  IInv'
<1> USE DEF IInv
<1>1. PICK p \in Pid : p = sh.p /\ sh.step = "sweep" /\ sh.v \in Nat
  BY DEF ShellSwept, ShellCall
<1> DEFINE C == DiskOwnedBy({p})
<1>2. /\ Ahead = {} /\ GiveEntries(C) /\ raced' = raced \cup C /\ UNCHANGED <<vfd, shared>>
      /\ st' = [st EXCEPT ![p] = IF st[p] # "exited" THEN st[p]
                                 ELSE IF sh.again THEN "forgotten" ELSE "released"]
      /\ sh' = Idle /\ sh'.step = "idle" /\ sh'.p = Shell
  BY <1>1, IdleFields DEF ShellSwept
<1>3. \A v \in VFd : /\ ~Closing(v) /\ ~Closing(v)' /\ vfd'[v] = vfd[v]
                     /\ Current(v)' <=> Current(v)
  BY <1>1, <1>2 DEF Closing, Current, Used
<1>4. TypeOK'
  <2>1. sh' \in [step : {"idle"}, k : {"none"}, b : {-1}, v : {-1}, p : Actor, again : BOOLEAN]
    BY <1>2, IdleFields DEF Actor
  <2>2. raced' \subseteq (Backend \X Nat) \cup {<<"wiped", -1>>}
    BY <1>2, BackendNames DEF TypeOK, DiskOwnedBy, Slot
  <2>3. st' \in [Pid -> {"unused", "live", "exited", "released", "forgotten"}]
    BY <1>2 DEF TypeOK
  <2> HIDE DEF C
  <2> QED
    BY <1>2, <2>1, <2>2, <2>3, GiveTyped DEF TypeOK
<1>5. DescriptorsDistinct' /\ NoOrphans' /\ OwnersAgree'
  <2>1. \A v \in VFd : Current(v)' => /\ Current(v) /\ vfd'[v] = vfd[v]
                                      /\ Entry(v) \in C => Entry(v) \in raced'
    BY <1>2, <1>3
  <2>2. \A v \in VFd : Current(v) => Current(v)' \/ Entry(v) \in C \cup raced'
    BY <1>3
  <2> HIDE DEF C
  <2> QED
    BY <1>1, <1>2, <2>1, <2>2, GiveMeans, Gives
<1>6. ReleasedOwnNothing'
  <2> SUFFICES ASSUME NEW q \in Pid, st'[q] \in {"unused", "released"}
               PROVE  /\ \A v \in VFd : vfd'[v].owner # q
                      /\ \A b \in Slot("disk") : own'[b] # q
    BY DEF ReleasedOwnNothing
  <2>1. \A b \in Slot("disk") : own'[b] = own[b] \/ own'[b] = Shell
    BY <1>2, GiveOwns
  <2>2. CASE st[q] \in {"unused", "released"}
    BY <1>2, <2>1, <2>2, ShellIsNoPid DEF ReleasedOwnNothing
  <2>3. CASE q = p /\ st[p] = "exited" /\ ~sh.again
    <3>1. ASSUME NEW v \in VFd PROVE vfd[v].owner # p
      <4>1. CASE v < sh.v
        BY <1>1, <2>3, <4>1 DEF SweptBehind
      <4>2. CASE ~(v < sh.v)
        <5>1. sh.v <= v
          BY <1>1, <4>2, ShellIsNoPid
        <5>2. ~(Used(v) /\ vfd[v].owner = p)
          BY <1>1, <1>2, <5>1 DEF Ahead, OwnedBy
        <5> QED
          BY <5>2, ClosedFields, ShellIsNoPid DEF Used
      <4> QED
        BY <4>1, <4>2
    <3>2. ASSUME NEW b \in Slot("disk") PROVE own'[b] # p
      <4>1. CASE own[b] = p
        <5>1. <<"disk", b>> \in C
          BY <4>1 DEF DiskOwnedBy
        <5> HIDE DEF C
        <5> QED
          BY <1>2, <5>1, GiveMeans, ShellIsNoPid DEF Shell
      <4>2. CASE own[b] # p
        BY <2>1, <4>2, ShellIsNoPid
      <4> QED
        BY <4>1, <4>2
    <3> QED
      BY <1>2, <2>3, <3>1, <3>2
  <2>4. st'[q] # st[q] => q = p /\ st[p] = "exited" /\ ~sh.again
    BY <1>2 DEF TypeOK
  <2> QED
    BY <2>2, <2>3, <2>4
<1>7. ShellCall' /\ SweptBehind'
  BY <1>2, ShellIsNoPid DEF ShellCall, SweptBehind
<1> QED
  BY <1>4, <1>5, <1>6, <1>7

\* The death of the processes P, at another's hands or reaped.
LEMMA ReleaseKeeps ==
  ASSUME IInv, NEW P \in SUBSET Pid, Release(P)
  PROVE  IInv'
<1> USE DEF IInv
<1> DEFINE O == OwnedBy(P)
           C == {Entry(v) : v \in O} \cup DiskOwnedBy(P)
<1>1. /\ GiveEntries(C) /\ UNCHANGED <<sh, shared>>
      /\ vfd' = [v \in VFd |-> IF v \in O THEN Closed ELSE vfd[v]]
      /\ st' = [p \in Pid |-> IF p \in P THEN "released" ELSE st[p]]
      /\ raced \subseteq raced'
      /\ \A v \in O : Closing(v) => Entry(v) \in raced'
      /\ \A e \in raced' : e \in raced \/ \E v \in O : Closing(v) /\ e = Entry(v)
  BY DEF Release
<1>2. \A v \in O : /\ v \in VFd /\ Used(v) /\ vfd[v] # Wiped /\ vfd[v].owner \in P
                   /\ vfd[v].k \in Backend /\ vfd[v].b \in Nat /\ vfd'[v] = Closed /\ ~Current(v)'
  <2> SUFFICES ASSUME NEW v \in O
               PROVE  /\ v \in VFd /\ Used(v) /\ vfd[v] # Wiped /\ vfd[v].owner \in P
                      /\ vfd[v].k \in Backend /\ vfd[v].b \in Nat /\ vfd'[v] = Closed /\ ~Current(v)'
    OBVIOUS
  <2>1. v \in VFd /\ Used(v) /\ vfd[v].owner \in P
    BY DEF OwnedBy
  <2>2. vfd[v] # Wiped
    BY <2>1, ClosedFields, ShellIsNoPid
  <2>3. vfd'[v] = Closed
    BY <1>1, <2>1
  <2> QED
    BY <2>1, <2>2, <2>3, CurrentTyped DEF Current, Used
<1>3. \A v \in VFd : v \notin O =>
        /\ vfd'[v] = vfd[v] /\ Entry(v)' = Entry(v)
        /\ (Closing(v)' <=> Closing(v)) /\ (Current(v)' <=> Current(v))
  BY <1>1 DEF Used, Current, Closing, Entry
<1>4. ASSUME NEW v \in VFd, Current(v), v \notin O, Entry(v) \in C
      PROVE  Entry(v) \in raced'
  <2> SUFFICES ASSUME Entry(v) \notin raced' PROVE FALSE
    OBVIOUS
  <2>1. Entry(v) \notin raced
    BY <1>1
  <2>2. CASE \E w \in O : Entry(w) = Entry(v)
    <3>1. PICK w \in O : Entry(w) = Entry(v)
      BY <2>2
    <3>2. ~Closing(w) /\ Current(w) /\ w # v
      BY <1>1, <1>2, <1>4, <3>1 DEF Current
    <3> QED
      BY <1>2, <1>4, <2>1, <3>1, <3>2 DEF DescriptorsDistinct
  <2>3. CASE Entry(v) \in DiskOwnedBy(P)
    <3>1. vfd[v].k = "disk" /\ own[vfd[v].b] \in P
      BY <2>3 DEF DiskOwnedBy, Entry
    <3>2. vfd[v].owner \in P
      BY <1>4, <2>1, <3>1 DEF OwnersAgree
    <3> QED
      BY <1>4, <3>2 DEF OwnedBy, Current
  <2> QED
    BY <1>4, <2>2, <2>3
<1>5. TypeOK'
  <2>1. vfd' \in [VFd -> [k : Backend, b : Nat, owner : Actor] \cup {Closed, Wiped}]
    BY <1>1 DEF TypeOK
  <2>2. st' \in [Pid -> {"unused", "live", "exited", "released", "forgotten"}]
    BY <1>1 DEF TypeOK
  <2>3. raced' \subseteq (Backend \X Nat) \cup {<<"wiped", -1>>}
    <3> SUFFICES ASSUME NEW e \in raced'
                 PROVE  e \in (Backend \X Nat) \cup {<<"wiped", -1>>}
      OBVIOUS
    <3>1. CASE e \in raced
      BY <3>1 DEF TypeOK
    <3>2. CASE \E v \in O : e = Entry(v)
      <4>1. PICK v \in O : e = Entry(v)
        BY <3>2
      <4>2. vfd[v].k \in Backend /\ vfd[v].b \in Nat
        BY <1>2, <4>1
      <4> QED
        BY <4>1, <4>2 DEF Entry
    <3> QED
      BY <1>1, <3>1, <3>2
  <2> HIDE DEF C
  <2> QED
    BY <1>1, <2>1, <2>2, <2>3, GiveTyped DEF TypeOK
<1>6. DescriptorsDistinct' /\ NoOrphans' /\ OwnersAgree'
  <2>1. \A v \in VFd : Current(v)' => /\ Current(v) /\ vfd'[v] = vfd[v]
                                      /\ Entry(v) \in C => Entry(v) \in raced'
    BY <1>2, <1>3, <1>4
  <2>2. \A v \in VFd : Current(v) => Current(v)' \/ Entry(v) \in C \cup raced'
    BY <1>3
  <2> HIDE DEF C, O
  <2> QED
    BY <1>1, <2>1, <2>2, GiveMeans, Gives
<1>7. ReleasedOwnNothing'
  <2> SUFFICES ASSUME NEW p \in Pid, st'[p] \in {"unused", "released"}
               PROVE  /\ \A v \in VFd : vfd'[v].owner # p
                      /\ \A b \in Slot("disk") : own'[b] # p
    BY DEF ReleasedOwnNothing
  <2>1. \/ p \in P
        \/ (\A v \in VFd : vfd[v].owner # p) /\ (\A b \in Slot("disk") : own[b] # p)
    BY <1>1 DEF ReleasedOwnNothing, TypeOK
  <2>2. ASSUME NEW v \in VFd PROVE vfd'[v].owner # p
    <3>1. CASE v \in O
      BY <1>2, <3>1, ShellIsNoPid, ClosedFields
    <3>2. CASE v \notin O
      <4>1. vfd'[v] = vfd[v] /\ (vfd[v] = Closed \/ vfd[v].owner \notin P)
        BY <1>3, <3>2 DEF OwnedBy, Used
      <4> QED
        BY <2>1, <4>1, ShellIsNoPid, ClosedFields
    <3> QED
      BY <3>1, <3>2
  <2>3. ASSUME NEW b \in Slot("disk") PROVE own'[b] # p
    <3>1. own[b] \in P => <<"disk", b>> \in C
      BY DEF DiskOwnedBy
    <3>2. own'[b] = -1 \/ (own'[b] = own[b] /\ own[b] \notin P)
      <4> HIDE DEF C
      <4> QED
        BY <1>1, <3>1, GiveMeans
    <3> QED
      BY <2>1, <3>2, ShellIsNoPid DEF Shell
  <2> QED
    BY <2>2, <2>3
<1>8. ShellCall'
  <2>1. ASSUME sh.step \in {"opened", "slot"}, <<sh.k, sh.b>> \notin raced'
        PROVE  /\ sh.b \in open'[sh.k] /\ (sh.k = "disk" => own'[sh.b] = Shell)
               /\ \A v \in VFd : Current(v)' => Entry(v)' # <<sh.k, sh.b>>
    <3>1. /\ sh.k \in Backend /\ sh.b \in open[sh.k] /\ sh.b \in Slot(sh.k)
          /\ (sh.k = "disk" => own[sh.b] = Shell)
          /\ \A v \in VFd : Current(v) => Entry(v) # <<sh.k, sh.b>>
      BY <1>1, <2>1 DEF ShellCall
    <3>2. \A v \in O : Entry(v) # <<sh.k, sh.b>>
      BY <1>2, <2>1, <3>1 DEF Current, Closing
    <3>3. <<sh.k, sh.b>> \notin DiskOwnedBy(P)
      BY <3>1, ShellIsNoPid DEF DiskOwnedBy
    <3>4. <<sh.k, sh.b>> \notin C
      BY <3>2, <3>3
    <3>5. \A v \in VFd : Current(v)' => Entry(v)' # <<sh.k, sh.b>>
      BY <1>2, <1>3, <3>1
    <3> HIDE DEF C
    <3>6. sh.b \in open'[sh.k]
      BY <1>1, <3>1, <3>4, GiveMeans
    <3>7. ASSUME sh.k = "disk" PROVE own'[sh.b] = Shell
      <4>1. sh.b \in Slot("disk") /\ <<"disk", sh.b>> \notin C /\ own[sh.b] = Shell
        BY <3>1, <3>4, <3>7
      <4> QED
        BY <1>1, <4>1, GiveMeans
    <3> QED
      BY <3>5, <3>6, <3>7
  <2>2. ASSUME sh.step \in {"closed", "reset"}, sh.v # -1
        PROVE  Closing(sh.v)' \/ <<sh.k, sh.b>> \in raced'
    <3>1. sh.v \in VFd /\ (Closing(sh.v) \/ <<sh.k, sh.b>> \in raced)
      BY <2>2 DEF ShellCall
    <3>2. CASE sh.v \in O
      BY <1>1, <3>1, <3>2 DEF Closing
    <3>3. CASE sh.v \notin O
      <4>1. UNCHANGED sh /\ vfd'[sh.v] = vfd[sh.v]
        BY <1>1, <1>3, <3>1, <3>3
      <4> QED
        BY <1>1, <3>1, <4>1 DEF Closing, Entry
    <3> QED
      BY <3>2, <3>3
  <2> QED
    BY <1>1, <2>1, <2>2 DEF ShellCall
<1>9. SweptBehind'
  <2>1. \A v \in VFd : vfd'[v].owner = vfd[v].owner \/ vfd'[v].owner = Shell
    BY <1>2, <1>3, ClosedFields
  <2>2. \A p \in Pid : st[p] # "live" => st'[p] # "live"
    BY <1>1
  <2>3. sh.step = "wiped" => sh.v \in VFd
    BY DEF ShellCall
  <2> QED
    BY <1>1, <2>1, <2>2, <2>3, ShellIsNoPid DEF SweptBehind
<1> QED
  BY <1>5, <1>6, <1>7, <1>8, <1>9

LEMMA StutterKeeps == IInv /\ UNCHANGED vars => IInv'
BY DEF IInv, vars, TypeOK, DescriptorsDistinct, NoOrphans, ReleasedOwnNothing,
       ShellCall, SweptBehind, OwnersAgree, Current, Closing, Used, Entry

LEMMA NextIInv == IInv /\ [Next]_vars => IInv'
<1> SUFFICES ASSUME IInv, [Next]_vars PROVE IInv'
  OBVIOUS
<1>1. ASSUME NEW p \in Pid, NEW k \in Backend, OpenVfd(p, k) PROVE IInv'
  BY <1>1, OpenKeeps
<1>2. ASSUME NEW p \in Pid, NEW v \in VFd, CloseVfd(p, v) PROVE IInv'
  BY <1>2, CloseKeeps
<1>3. ASSUME NEW k \in Backend, ShellOpen(k) PROVE IInv'
  BY <1>3, ShellOpenKeeps
<1>4. ASSUME ShellTake \/ ShellAllocFd \/ ShellTakeFd PROVE IInv'
  BY <1>4, ShellTakeKeeps, ShellAllocKeeps, ShellTakeFdKeeps
<1>5. ASSUME NEW v \in VFd, ShellClose(v) PROVE IInv'
  BY <1>5, ShellCloseKeeps
<1>6. ASSUME ShellWipe \/ ShellReset \/ ShellWipeFd PROVE IInv'
  BY <1>6, ShellWipeKeeps, ShellResetKeeps, ShellWipeFdKeeps
<1>7. ASSUME NEW p \in Pid, Create(p) PROVE IInv'
  BY <1>7, CreateKeeps
<1>8. ASSUME NEW p \in Pid, CreateFails(p) \/ Exit(p) PROVE IInv'
  BY <1>8, CreateExitKeep
<1>9. ASSUME NEW a \in Pid, NEW p \in Pid, Kill(a, p) PROVE IInv'
  <2>1. {p} \in SUBSET Pid /\ Release({p})
    BY <1>9 DEF Kill
  <2> QED
    BY <2>1, ReleaseKeeps
<1>10. ASSUME NEW p \in Pid, ShellKill(p) PROVE IInv'
  BY <1>10, ShellKillKeeps
<1>11. ASSUME ShellSweep \/ ShellSwept PROVE IInv'
  BY <1>11, ShellSweepKeeps, ShellSweptKeeps
<1>12. ASSUME Reap PROVE IInv'
  <2>1. Exited \in SUBSET Pid /\ Release(Exited)
    BY <1>12 DEF Reap, Exited
  <2> QED
    BY <2>1, ReleaseKeeps
<1> QED
  BY <1>1, <1>2, <1>3, <1>4, <1>5, <1>6, <1>7, <1>8, <1>9, <1>10, <1>11, <1>12, StutterKeeps
  DEF Next

\* The strengthened invariant holds in every reachable state.
THEOREM InvariantHolds == Spec => []IInv
<1> QED
  BY InitIInv, NextIInv, PTL DEF Spec

\* vfs_open_files, the backends' tables and the shell's call stay in range.
THEOREM TypeCorrect == Spec => []TypeOK
<1>1. IInv => TypeOK
  BY DEF IInv
<1> QED
  BY <1>1, InvariantHolds, PTL

\* No two descriptors in use lead to one entry of a backend, and none leads to
\* a closed one, wherever the timer cuts the shell's calls: when that makes two
\* take one slot, only the entries of that slot are affected.
THEOREM DescriptorsStayDistinct == Spec => []DescriptorsDistinct
<1>1. IInv => DescriptorsDistinct
  BY DEF IInv
<1> QED
  BY <1>1, InvariantHolds, PTL

\* No backend entry is lost but those two took or cleared at once: vfs_open's
\* failure path, vfs_close and vfs_close_for_pid give back all that the
\* backends' opens took.
THEOREM NoEntryIsOrphaned == Spec => []NoOrphans
<1>1. IInv => NoOrphans
  BY DEF IInv
<1> QED
  BY <1>1, InvariantHolds, PTL

\* process_release_resources leaves a dead process nothing in either table,
\* whether the reaper calls it, a process's kill or, cut by ticks, the shell's.
THEOREM TheReleasedOwnNothing == Spec => []ReleasedOwnNothing
<1>1. IInv => ReleasedOwnNothing
  BY DEF IInv
<1> QED
  BY <1>1, InvariantHolds, PTL

=============================================================================

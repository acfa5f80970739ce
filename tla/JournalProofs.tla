---------------------------- MODULE JournalProofs ----------------------------
(***************************************************************************)
(* A person's tables hang together, every undo can be applied, every       *)
(* change is stamped and an open run is the current one, for any games,    *)
(* updates, imports and number of writes.                                  *)
(***************************************************************************)
EXTENDS Journal, FiniteSetTheorems, WellFoundedInduction, TLAPS

\* The tables of a database, and nothing else.
Tables(d) ==
  /\ d = [items |-> d.items, runs |-> d.runs, sessions |-> d.sessions,
          runSeq |-> d.runSeq, sessSeq |-> d.sessSeq, touched |-> d.touched]
  /\ d.runSeq \in Nat /\ d.sessSeq \in Nat

Sound(d) == Tables(d) /\ DBTypeOK(d) /\ Owned(d)

\* What came of d by statements about one game g: an id is an old one with its
\* game, or a new one of g, and every row that changed is stamped.
Descends(old, new, seq, g) ==
  \A x \in DOMAIN new : \/ x \in DOMAIN old /\ new[x].game = old[x].game
                        \/ x > seq /\ new[x].game = g
Stamped(d, e) ==
  /\ d.touched \subseteq e.touched
  /\ \A h \in Games : RowOf(e, h) # RowOf(d, h) => h \in e.touched
Moved(d, e, g) ==
  /\ d.runSeq <= e.runSeq /\ Descends(d.runs, e.runs, d.runSeq, g)
  /\ d.sessSeq <= e.sessSeq /\ Descends(d.sessions, e.sessions, d.sessSeq, g)
  /\ Stamped(d, e)

LEMMA MovedOn ==
  ASSUME NEW d, NEW e, NEW f, NEW g, Sound(d), Sound(e), Sound(f), Moved(d, e, g), Moved(e, f, g)
  PROVE  Moved(d, f, g)
  <1>1. d.runSeq <= f.runSeq /\ d.sessSeq <= f.sessSeq
    BY DEF Moved, Sound, Tables
  <1>2. Descends(d.runs, f.runs, d.runSeq, g)
    BY DEF Moved, Sound, Tables, Descends, DBTypeOK
  <1>3. Descends(d.sessions, f.sessions, d.sessSeq, g)
    BY DEF Moved, Sound, Tables, Descends, DBTypeOK
  <1>4. Stamped(d, f)
    BY DEF Moved, Stamped
  <1>. QED  BY <1>1, <1>2, <1>3, <1>4 DEF Moved

\* An open run is its item's current one, and would be again if the snapshot
\* were put back.  It stays so where items keep their marks and no run is opened.
Tidy(d) == \A r \in DOMAIN d.runs : d.runs[r].finished = None => d.items[d.runs[r].game].cur = r
TidySnapshot(snap) == \A r \in DOMAIN snap.runs : snap.runs[r].finished = None => snap.row.cur = r

LEMMA StaysTidy ==
  ASSUME NEW d, Sound(d), Tidy(d), NEW e,
         \A h \in DOMAIN d.items : e.items[h].cur = d.items[h].cur,
         \A r \in DOMAIN e.runs : /\ r \in DOMAIN d.runs
                                  /\ e.runs[r].game = d.runs[r].game /\ e.runs[r].finished = d.runs[r].finished
  PROVE  Tidy(e)
  BY DEF Tidy, Sound, Owned, InLibrary

\* Nothing moves.
LEMMA Stays ==
  ASSUME NEW d, NEW g, Sound(d)
  PROVE  Moved(d, d, g)
  BY DEF Moved, Sound, Tables, Descends, Stamped

----------------------------------------------------------------------------
(* Rows.                                                                   *)

LEMMA RowFields ==
  ASSUME NEW row \in RowType
  PROVE  /\ row.status \in Statuses /\ row.started \in MaybeDay /\ row.completed \in MaybeDay
         /\ row.total \in Nat /\ row.cur \in Nat
         /\ \A n \in Nat : [row EXCEPT !.total = n] \in RowType /\ [row EXCEPT !.total = n].cur = row.cur
         /\ \A n \in Nat : [row EXCEPT !.cur = n] \in RowType /\ [row EXCEPT !.cur = n].cur = n
  BY DEF RowType

LEMMA RunFields ==
  ASSUME NEW run \in RunType
  PROVE  /\ run.game \in Games /\ run.started \in MaybeDay /\ run.finished \in MaybeDay
         /\ run.minutes \in Int /\ run.edition \in Nat
         /\ \A n \in Int : [run EXCEPT !.minutes = n] \in RunType /\ [run EXCEPT !.minutes = n].game = run.game
                           /\ [run EXCEPT !.minutes = n].finished = run.finished
  BY DEF RunType

LEMMA SessionFields ==
  ASSUME NEW s \in SessionType
  PROVE  /\ s.game \in Games /\ s.run \in Nat /\ s.minutes \in Int /\ s.source \in Sources
         /\ \A n \in Int : /\ [s EXCEPT !.minutes = n] \in SessionType
                           /\ [s EXCEPT !.minutes = n].game = s.game
                           /\ [s EXCEPT !.minutes = n].run = s.run
  BY DEF SessionType

LEMMA Clamped == \A n : Clamp(n) \in Nat
  BY DEF Clamp

LEMMA Replayed == \A from, change : Replay(from, change) \in Nat
  BY Clamped, Zenon DEF Replay

----------------------------------------------------------------------------
(* What each statement leaves: tables that hang together still, and only   *)
(* the game it is about has moved.                                         *)

\* An item and a run of it get other minutes, and nothing else changes.
LEMMA Recount ==
  ASSUME NEW d, Sound(d), NEW g \in DOMAIN d.items, NEW r, NEW t \in Nat, NEW m \in Int, NEW e,
         e = [items |-> Update(d.items, g, [d.items[g] EXCEPT !.total = t]),
              runs |-> Update(d.runs, r, [d.runs[r] EXCEPT !.minutes = m]),
              sessions |-> d.sessions, runSeq |-> d.runSeq, sessSeq |-> d.sessSeq,
              touched |-> d.touched \cup ({g} \cap DOMAIN d.items)]
  PROVE  /\ Sound(e) /\ Moved(d, e, g)
         /\ DOMAIN e.items = DOMAIN d.items /\ DOMAIN e.runs = DOMAIN d.runs
         /\ \A h \in DOMAIN d.items : e.items[h].cur = d.items[h].cur
         /\ \A q \in DOMAIN d.runs : e.runs[q].game = d.runs[q].game /\ e.runs[q].finished = d.runs[q].finished
  <1>0. /\ DOMAIN d.items \subseteq Games /\ \A h \in DOMAIN d.items : d.items[h] \in RowType
        /\ \A q \in DOMAIN d.runs : q \in 1..d.runSeq /\ d.runs[q] \in RunType
        /\ d.runSeq \in Nat /\ d.sessSeq \in Nat /\ d.touched \subseteq Games
    BY DEF Sound, DBTypeOK, Tables
  <1>1. Tables(e)
    BY <1>0 DEF Tables
  <1>2. \A h \in DOMAIN d.items : e.items[h] \in RowType /\ e.items[h].cur = d.items[h].cur
    BY <1>0, RowFields DEF Update
  <1>3. \A q \in DOMAIN d.runs : /\ e.runs[q] \in RunType
                                 /\ e.runs[q].game = d.runs[q].game /\ e.runs[q].finished = d.runs[q].finished
    BY <1>0, RunFields DEF Update
  <1>4. DOMAIN e.items = DOMAIN d.items /\ DOMAIN e.runs = DOMAIN d.runs /\ e.sessions = d.sessions
        /\ e.runSeq = d.runSeq /\ e.sessSeq = d.sessSeq
    BY DEF Update
  <1>5. DBTypeOK(e)
    BY <1>0, <1>2, <1>3, <1>4 DEF DBTypeOK, Sound
  <1>6. Owned(e)
    BY <1>2, <1>3, <1>4 DEF Owned, Sound, RunsOf, InLibrary
  <1>7. Stamped(d, e)
    BY <1>4 DEF Stamped, RowOf, InLibrary, Update
  <1>8. Moved(d, e, g)
    BY <1>0, <1>3, <1>4, <1>7 DEF Moved, Descends
  <1>. QED  BY <1>1, <1>2, <1>3, <1>4, <1>5, <1>6, <1>8 DEF Sound

LEMMA MinutesAdded ==
  ASSUME NEW d, Sound(d), NEW g \in DOMAIN d.items, NEW r, NEW m \in Int, NEW e, e = AddMinutes(d, g, r, m)
  PROVE  /\ Sound(e) /\ Moved(d, e, g)
         /\ DOMAIN e.items = DOMAIN d.items /\ DOMAIN e.runs = DOMAIN d.runs
         /\ \A h \in DOMAIN d.items : e.items[h].cur = d.items[h].cur
         /\ \A q \in DOMAIN d.runs : e.runs[q].game = d.runs[q].game /\ e.runs[q].finished = d.runs[q].finished
         /\ e.sessions = d.sessions /\ e.runSeq = d.runSeq /\ e.sessSeq = d.sessSeq
  <1>. DEFINE t == Clamp(d.items[g].total + m)
              n == Clamp(d.runs[r].minutes + m)
  <1>1. t \in Nat /\ n \in Int
    BY Clamped
  <1>2. e = [items |-> Update(d.items, g, [d.items[g] EXCEPT !.total = t]),
             runs |-> Update(d.runs, r, [d.runs[r] EXCEPT !.minutes = n]),
             sessions |-> d.sessions, runSeq |-> d.runSeq, sessSeq |-> d.sessSeq,
             touched |-> d.touched \cup ({g} \cap DOMAIN d.items)]
    BY DEF AddMinutes, Longer, Played, Sound, Tables
  <1>. HIDE DEF t, n
  <1>. QED  BY <1>1, <1>2, Recount

\* A new diary entry.
LEMMA SessionAdded ==
  ASSUME NEW d, Sound(d), NEW s \in SessionType, s.game \in DOMAIN d.items,
         s.run \in RunsOf(d, s.game) \cup {None}, NEW e, e = AddSession(d, s)
  PROVE  /\ Sound(e) /\ Moved(d, e, s.game)
         /\ DOMAIN e.items = DOMAIN d.items /\ DOMAIN e.runs = DOMAIN d.runs
         /\ \A h \in DOMAIN d.items : e.items[h].cur = d.items[h].cur
         /\ \A q \in DOMAIN d.runs : e.runs[q].game = d.runs[q].game /\ e.runs[q].finished = d.runs[q].finished
         /\ e.runSeq = d.runSeq
  <1>. DEFINE x == AddMinutes(d, s.game, s.run, s.minutes)
  <1>1. e = [items |-> x.items, runs |-> x.runs, sessions |-> Put(x.sessions, d.sessSeq + 1, s),
             runSeq |-> x.runSeq, sessSeq |-> d.sessSeq + 1, touched |-> x.touched]
    <2>1. x = [items |-> x.items, runs |-> x.runs, sessions |-> x.sessions,
               runSeq |-> x.runSeq, sessSeq |-> x.sessSeq, touched |-> x.touched]
      BY SessionFields, MinutesAdded DEF Sound, Tables
    <2>. HIDE DEF x
    <2>2. e = [x EXCEPT !.sessions = Put(x.sessions, d.sessSeq + 1, s), !.sessSeq = d.sessSeq + 1]
      BY DEF AddSession, x
    <2>. QED  BY <2>1, <2>2
  <1>2. /\ Sound(x) /\ Moved(d, x, s.game)
        /\ DOMAIN x.items = DOMAIN d.items /\ DOMAIN x.runs = DOMAIN d.runs
        /\ \A h \in DOMAIN d.items : x.items[h].cur = d.items[h].cur
        /\ \A q \in DOMAIN d.runs : x.runs[q].game = d.runs[q].game /\ x.runs[q].finished = d.runs[q].finished
        /\ x.sessions = d.sessions /\ x.runSeq = d.runSeq /\ x.sessSeq = d.sessSeq
    <2>1. s.minutes \in Int
      BY SessionFields
    <2>. QED  BY <2>1, MinutesAdded
  <1>. HIDE DEF x
  <1>3. Tables(e) /\ d.sessSeq \in Nat
    BY <1>1, <1>2 DEF Sound, Tables
  <1>4. DBTypeOK(e)
    BY <1>1, <1>2, <1>3 DEF Sound, DBTypeOK, Put
  <1>5. Owned(e)
    BY <1>1, <1>2 DEF Sound, Owned, RunsOf, InLibrary, Put
  <1>6. Moved(d, e, s.game)
    <2>1. Descends(d.sessions, e.sessions, d.sessSeq, s.game)
      BY <1>1, <1>2, <1>3 DEF Descends, Put
    <2>. QED  BY <1>1, <1>2, <1>3, <2>1 DEF Moved, Stamped, RowOf, InLibrary
  <1>. QED  BY <1>1, <1>2, <1>3, <1>4, <1>5, <1>6 DEF Sound

\* A diary entry less.
LEMMA SessionDropped ==
  ASSUME NEW d, Sound(d), NEW id \in DOMAIN d.sessions, NEW e, e = DropSession(d, id)
  PROVE  /\ Sound(e) /\ Moved(d, e, d.sessions[id].game)
         /\ DOMAIN e.items = DOMAIN d.items /\ DOMAIN e.runs = DOMAIN d.runs
         /\ \A h \in DOMAIN d.items : e.items[h].cur = d.items[h].cur
         /\ \A q \in DOMAIN d.runs : e.runs[q].game = d.runs[q].game /\ e.runs[q].finished = d.runs[q].finished
  <1>. DEFINE s == d.sessions[id]
              x == AddMinutes(d, s.game, s.run, -s.minutes)
  <1>0. s \in SessionType /\ s.game \in DOMAIN d.items /\ -s.minutes \in Int
    <2>1. s \in SessionType /\ s.game \in DOMAIN d.items
      BY DEF Sound, DBTypeOK, Owned, InLibrary
    <2>2. s.minutes \in Int
      BY <2>1, SessionFields
    <2>. QED  BY <2>1, <2>2
  <1>2. /\ Sound(x) /\ Moved(d, x, s.game)
        /\ DOMAIN x.items = DOMAIN d.items /\ DOMAIN x.runs = DOMAIN d.runs
        /\ \A h \in DOMAIN d.items : x.items[h].cur = d.items[h].cur
        /\ \A q \in DOMAIN d.runs : x.runs[q].game = d.runs[q].game /\ x.runs[q].finished = d.runs[q].finished
        /\ x.sessions = d.sessions /\ x.runSeq = d.runSeq /\ x.sessSeq = d.sessSeq
    BY <1>0, MinutesAdded
  <1>1. e = [items |-> x.items, runs |-> x.runs, sessions |-> Without(x.sessions, {id}),
             runSeq |-> x.runSeq, sessSeq |-> x.sessSeq, touched |-> x.touched]
    <2>1. x = [items |-> x.items, runs |-> x.runs, sessions |-> x.sessions,
               runSeq |-> x.runSeq, sessSeq |-> x.sessSeq, touched |-> x.touched]
      BY <1>2 DEF Sound, Tables
    <2>2. e = [x EXCEPT !.sessions = Without(x.sessions, {id})]
      BY DEF DropSession
    <2>. HIDE DEF x
    <2>. QED  BY <2>1, <2>2
  <1>. HIDE DEF x, s
  <1>3. Tables(e)
    BY <1>1, <1>2 DEF Sound, Tables
  <1>4. DBTypeOK(e)
    BY <1>1, <1>2, <1>3 DEF Sound, DBTypeOK, Without, Restrict
  <1>5. Owned(e)
    BY <1>1, <1>2 DEF Sound, Owned, RunsOf, InLibrary, Without, Restrict
  <1>6. Moved(d, e, s.game)
    <2>1. Descends(d.sessions, e.sessions, d.sessSeq, s.game)
      BY <1>1, <1>2, <1>3 DEF Descends, Without, Restrict
    <2>. QED  BY <1>1, <1>2, <1>3, <2>1 DEF Moved, Stamped, RowOf, InLibrary
  <1>. QED  BY <1>1, <1>2, <1>3, <1>4, <1>5, <1>6 DEF Sound, s

\* A diary entry of other minutes.
LEMMA SessionChanged ==
  ASSUME NEW d, Sound(d), NEW id \in DOMAIN d.sessions, NEW m \in Int, NEW e, e = SetMinutes(d, id, m)
  PROVE  /\ Sound(e) /\ Moved(d, e, d.sessions[id].game)
         /\ DOMAIN e.items = DOMAIN d.items /\ DOMAIN e.runs = DOMAIN d.runs
         /\ \A h \in DOMAIN d.items : e.items[h].cur = d.items[h].cur
         /\ \A q \in DOMAIN d.runs : e.runs[q].game = d.runs[q].game /\ e.runs[q].finished = d.runs[q].finished
  <1>. DEFINE s == d.sessions[id]
              t == Clamp(d.items[s.game].total - s.minutes + m)
              n == Clamp(d.runs[s.run].minutes - s.minutes) + m
              x == [items |-> Update(d.items, s.game, [d.items[s.game] EXCEPT !.total = t]),
                    runs |-> Update(d.runs, s.run, [d.runs[s.run] EXCEPT !.minutes = n]),
                    sessions |-> d.sessions, runSeq |-> d.runSeq, sessSeq |-> d.sessSeq,
                    touched |-> d.touched \cup ({s.game} \cap DOMAIN d.items)]
  <1>0. s \in SessionType /\ s.game \in DOMAIN d.items /\ t \in Nat /\ n \in Int
    <2>1. s \in SessionType /\ s.game \in DOMAIN d.items
      BY DEF Sound, DBTypeOK, Owned, InLibrary
    <2>2. t \in Nat /\ Clamp(d.runs[s.run].minutes - s.minutes) \in Nat
      BY Clamped
    <2>. QED  BY <2>1, <2>2
  <1>1. e = [items |-> x.items, runs |-> x.runs, sessions |-> Update(x.sessions, id, [s EXCEPT !.minutes = m]),
             runSeq |-> x.runSeq, sessSeq |-> x.sessSeq, touched |-> x.touched]
    BY DEF SetMinutes, Sound, Tables
  <1>r. s.run \in Nat /\ s.game \in Games
    BY <1>0, SessionFields
  <1>. HIDE DEF t, n
  <1>2. /\ Sound(x) /\ Moved(d, x, s.game)
        /\ DOMAIN x.items = DOMAIN d.items /\ DOMAIN x.runs = DOMAIN d.runs
        /\ \A h \in DOMAIN d.items : x.items[h].cur = d.items[h].cur
        /\ \A q \in DOMAIN d.runs : x.runs[q].game = d.runs[q].game /\ x.runs[q].finished = d.runs[q].finished
        /\ x.sessions = d.sessions /\ x.runSeq = d.runSeq /\ x.sessSeq = d.sessSeq
    <2>1. x = [items |-> Update(d.items, s.game, [d.items[s.game] EXCEPT !.total = t]),
               runs |-> Update(d.runs, s.run, [d.runs[s.run] EXCEPT !.minutes = n]),
               sessions |-> d.sessions, runSeq |-> d.runSeq, sessSeq |-> d.sessSeq,
               touched |-> d.touched \cup ({s.game} \cap DOMAIN d.items)]
      OBVIOUS
    <2>. HIDE DEF s, x
    <2>2. /\ Sound(x) /\ Moved(d, x, s.game)
          /\ DOMAIN x.items = DOMAIN d.items /\ DOMAIN x.runs = DOMAIN d.runs
          /\ \A h \in DOMAIN d.items : x.items[h].cur = d.items[h].cur
          /\ \A q \in DOMAIN d.runs : x.runs[q].game = d.runs[q].game /\ x.runs[q].finished = d.runs[q].finished
      <3>1. PICK g, r : g = s.game /\ r = s.run
        OBVIOUS
      <3>2. /\ Sound(x) /\ Moved(d, x, g)
            /\ DOMAIN x.items = DOMAIN d.items /\ DOMAIN x.runs = DOMAIN d.runs
            /\ \A h \in DOMAIN d.items : x.items[h].cur = d.items[h].cur
            /\ \A q \in DOMAIN d.runs : x.runs[q].game = d.runs[q].game /\ x.runs[q].finished = d.runs[q].finished
        <4>1. g \in DOMAIN d.items /\ t \in Nat /\ n \in Int
          BY <1>0, <3>1
        <4>2. x = [items |-> Update(d.items, g, [d.items[g] EXCEPT !.total = t]),
                   runs |-> Update(d.runs, r, [d.runs[r] EXCEPT !.minutes = n]),
                   sessions |-> d.sessions, runSeq |-> d.runSeq, sessSeq |-> d.sessSeq,
                   touched |-> d.touched \cup ({g} \cap DOMAIN d.items)]
          BY <2>1, <3>1
        <4>. QED  BY <4>1, <4>2, Recount
      <3>. QED  BY <3>1, <3>2
    <2>. QED  BY <2>1, <2>2
  <1>. HIDE DEF x, s
  <1>s. s = d.sessions[id] /\ [s EXCEPT !.minutes = m] \in SessionType
        /\ [s EXCEPT !.minutes = m].game = s.game /\ [s EXCEPT !.minutes = m].run = s.run
    BY <1>0, SessionFields DEF s
  <1>3. Tables(e)
    BY <1>1, <1>2 DEF Sound, Tables
  <1>4. DBTypeOK(e)
    BY <1>1, <1>2, <1>3, <1>s DEF Sound, DBTypeOK, Update
  <1>5. Owned(e)
    BY <1>1, <1>2, <1>s DEF Sound, Owned, RunsOf, InLibrary, Update
  <1>6. Moved(d, e, s.game)
    <2>1. Descends(d.sessions, e.sessions, d.sessSeq, s.game)
      BY <1>1, <1>2, <1>3, <1>s DEF Descends, Update
    <2>. QED  BY <1>1, <1>2, <1>3, <2>1 DEF Moved, Stamped, RowOf, InLibrary
  <1>. QED  BY <1>1, <1>2, <1>3, <1>4, <1>5, <1>6, <1>s DEF Sound

\* A row written or inserted, whose current run is one of its own.
LEMMA RowPut ==
  ASSUME NEW d, Sound(d), NEW g \in Games, NEW row \in RowType, row.cur \in RunsOf(d, g) \cup {None},
         NEW e, e = PutRow(d, g, row)
  PROVE  /\ Sound(e) /\ Moved(d, e, g)
         /\ DOMAIN e.items = DOMAIN d.items \cup {g} /\ e.items[g] = row
         /\ \A h \in DOMAIN d.items \ {g} : e.items[h] = d.items[h]
         /\ e.runs = d.runs /\ e.sessions = d.sessions /\ e.runSeq = d.runSeq /\ e.sessSeq = d.sessSeq
  <1>1. e = [items |-> Put(d.items, g, row), runs |-> d.runs, sessions |-> d.sessions,
             runSeq |-> d.runSeq, sessSeq |-> d.sessSeq, touched |-> d.touched \cup {g}]
    BY DEF PutRow, Sound, Tables
  <1>3. Tables(e)
    BY <1>1 DEF Sound, Tables
  <1>4. DBTypeOK(e)
    BY <1>1, <1>3 DEF Sound, DBTypeOK, Put
  <1>5. Owned(e)
    BY <1>1 DEF Sound, Owned, RunsOf, InLibrary, Put
  <1>6. Moved(d, e, g)
    BY <1>1, <1>3 DEF Sound, Tables, Moved, Descends, Stamped, RowOf, InLibrary, Put
  <1>. QED  BY <1>1, <1>3, <1>4, <1>5, <1>6 DEF Sound, Put

\* A new run, and the item's current one.
LEMMA RunAdded ==
  ASSUME NEW d, Sound(d), NEW g \in DOMAIN d.items, NEW day \in MaybeDay, NEW e, e = AddRun(d, g, day)
  PROVE  /\ Sound(e) /\ Moved(d, e, g)
         /\ DOMAIN e.items = DOMAIN d.items /\ e.items[g].cur = e.runSeq
         /\ \A h \in DOMAIN d.items \ {g} : e.items[h] = d.items[h]
         /\ e.runSeq = d.runSeq + 1 /\ DOMAIN e.runs = DOMAIN d.runs \cup {e.runSeq}
         /\ e.runs[e.runSeq].game = g /\ e.runs[e.runSeq].finished = None
         /\ \A q \in DOMAIN d.runs : e.runs[q] = d.runs[q]
  <1>. DEFINE id  == d.runSeq + 1
              row == [d.items[g] EXCEPT !.cur = id]
  <1>0. /\ d.runSeq \in Nat /\ id \in Nat \ {0} /\ g \in Games
        /\ row \in RowType /\ row.cur = id
    <2>1. d.runSeq \in Nat /\ g \in Games /\ d.items[g] \in RowType
      BY DEF Sound, Tables, DBTypeOK
    <2>. QED  BY <2>1, RowFields
  <1>1. e = [items |-> Put(d.items, g, row), runs |-> Put(d.runs, id, NewRun(g, day)), sessions |-> d.sessions,
             runSeq |-> id, sessSeq |-> d.sessSeq, touched |-> d.touched \cup {g}]
    BY DEF AddRun, PutRow, Sound, Tables
  <1>2. NewRun(g, day) \in RunType /\ NewRun(g, day).game = g /\ NewRun(g, day).finished = None
    BY <1>0 DEF NewRun, RunType, MaybeDay, None
  <1>. HIDE DEF row
  <1>3. Tables(e)
    BY <1>0, <1>1 DEF Sound, Tables
  <1>4. DBTypeOK(e)
    BY <1>0, <1>1, <1>2, <1>3 DEF Sound, Tables, DBTypeOK, Put
  <1>5. Owned(e)
    <2>1. \A q \in DOMAIN d.runs : q # id
      BY <1>0 DEF Sound, DBTypeOK
    <2>. QED  BY <1>0, <1>1, <1>2, <2>1 DEF Sound, Owned, RunsOf, InLibrary, Put
  <1>6. Moved(d, e, g)
    BY <1>0, <1>1, <1>2, <1>3 DEF Sound, Tables, Moved, Descends, Stamped, RowOf, InLibrary, Put
  <1>7. \A q \in DOMAIN d.runs : q # id
    BY <1>0 DEF Sound, DBTypeOK
  <1>. QED  BY <1>0, <1>1, <1>2, <1>3, <1>4, <1>5, <1>6, <1>7 DEF Sound, Put

\* A run with other dates or another edition.
LEMMA RunChanged ==
  ASSUME NEW d, Sound(d), NEW r \in DOMAIN d.runs, NEW run \in RunType, run.game = d.runs[r].game,
         NEW e, e = [d EXCEPT !.runs = Update(d.runs, r, run)]
  PROVE  /\ Sound(e) /\ Moved(d, e, run.game)
         /\ e.items = d.items /\ e.sessions = d.sessions /\ e.runSeq = d.runSeq
         /\ DOMAIN e.runs = DOMAIN d.runs /\ e.runs[r] = run
         /\ \A q \in DOMAIN d.runs \ {r} : e.runs[q] = d.runs[q]
  <1>1. e = [items |-> d.items, runs |-> Update(d.runs, r, run), sessions |-> d.sessions,
             runSeq |-> d.runSeq, sessSeq |-> d.sessSeq, touched |-> d.touched]
    BY DEF Sound, Tables
  <1>3. Tables(e)
    BY <1>1 DEF Sound, Tables
  <1>4. DBTypeOK(e)
    BY <1>1, <1>3 DEF Sound, DBTypeOK, Update
  <1>5. Owned(e)
    BY <1>1 DEF Sound, Owned, RunsOf, InLibrary, Update
  <1>6. Moved(d, e, run.game)
    BY <1>1, <1>3 DEF Sound, Tables, Moved, Descends, Stamped, RowOf, InLibrary, Update
  <1>. QED  BY <1>1, <1>3, <1>4, <1>5, <1>6 DEF Sound, Update

\* A row deleted, with all that hangs on it.
LEMMA RowDeleted ==
  ASSUME NEW d, Sound(d), NEW g \in Games, NEW e, e = DeleteRow(d, g)
  PROVE  /\ Sound(e) /\ Moved(d, e, g)
         /\ DOMAIN e.items = DOMAIN d.items \ {g} /\ \A h \in DOMAIN e.items : e.items[h] = d.items[h]
         /\ RunsOf(e, g) = {} /\ SessionsOf(e, g) = {}
         /\ \A r \in DOMAIN e.runs : r \in DOMAIN d.runs /\ e.runs[r] = d.runs[r]
         /\ \A s \in DOMAIN e.sessions : s \in DOMAIN d.sessions /\ e.sessions[s] = d.sessions[s]
         /\ e.runSeq = d.runSeq /\ e.sessSeq = d.sessSeq /\ g \in e.touched
  <1>1. e = [items |-> Without(d.items, {g}), runs |-> Without(d.runs, RunsOf(d, g)),
             sessions |-> Without(d.sessions, SessionsOf(d, g)),
             runSeq |-> d.runSeq, sessSeq |-> d.sessSeq, touched |-> d.touched \cup {g}]
    BY DEF DeleteRow, Sound, Tables
  <1>2. /\ DOMAIN e.items = DOMAIN d.items \ {g} /\ \A h \in DOMAIN e.items : e.items[h] = d.items[h]
        /\ DOMAIN e.runs = DOMAIN d.runs \ RunsOf(d, g) /\ \A r \in DOMAIN e.runs : e.runs[r] = d.runs[r]
        /\ DOMAIN e.sessions = DOMAIN d.sessions \ SessionsOf(d, g)
        /\ \A s \in DOMAIN e.sessions : e.sessions[s] = d.sessions[s]
    BY <1>1 DEF Without, Restrict
  <1>3. Tables(e)
    BY <1>1 DEF Sound, Tables
  <1>4. DBTypeOK(e)
    BY <1>1, <1>2 DEF Sound, DBTypeOK
  <1>5. Owned(e)
    BY <1>2 DEF Sound, Owned, RunsOf, SessionsOf, InLibrary
  <1>6. Moved(d, e, g)
    <2>1. d.runSeq <= e.runSeq /\ d.sessSeq <= e.sessSeq
      BY <1>1 DEF Sound, Tables
    <2>2. Descends(d.runs, e.runs, d.runSeq, g) /\ Descends(d.sessions, e.sessions, d.sessSeq, g)
      BY <1>2 DEF Descends
    <2>3. Stamped(d, e)
      BY <1>1, <1>2 DEF Stamped, RowOf, InLibrary
    <2>. QED  BY <2>1, <2>2, <2>3 DEF Moved
  <1>7. RunsOf(e, g) = {} /\ SessionsOf(e, g) = {}
    BY <1>2 DEF RunsOf, SessionsOf
  <1>8. e.runSeq = d.runSeq /\ e.sessSeq = d.sessSeq /\ g \in e.touched
    BY <1>1
  <1>9. Sound(e)
    BY <1>3, <1>4, <1>5 DEF Sound
  <1>. QED  BY <1>2, <1>6, <1>7, <1>8, <1>9

\* A run deleted, with its diary, and with it the mark of the current one.
LEMMA RunDropped ==
  ASSUME NEW d, Sound(d), NEW r \in DOMAIN d.runs, NEW g, g = d.runs[r].game,
         NEW c, c = DropRun(d, r),
         NEW e, e = IF c.items[g].cur = r THEN PutRow(c, g, [c.items[g] EXCEPT !.cur = None]) ELSE c
  PROVE  /\ Sound(e) /\ Moved(d, e, g)
         /\ DOMAIN e.items = DOMAIN d.items
         /\ \A h \in DOMAIN d.items : e.items[h].cur = IF h = g /\ d.items[g].cur = r THEN None ELSE d.items[h].cur
         /\ \A q \in DOMAIN e.runs : q # r /\ q \in DOMAIN d.runs /\ e.runs[q] = d.runs[q]
  <1>. DEFINE S == SessionsIn(d, r)
              t == Replay(d.items[g].total, Negated(MinutesOf(d, S)))
              row == IF S = {} THEN d.items[g] ELSE [d.items[g] EXCEPT !.total = t]
              end == IF row.cur = r THEN [row EXCEPT !.cur = None] ELSE row
  <1>0. /\ g \in DOMAIN d.items /\ g \in Games /\ d.items[g] \in RowType /\ r \in Nat \ {0}
        /\ d.runSeq \in Nat /\ d.sessSeq \in Nat /\ t \in Nat
    BY Replayed DEF Sound, DBTypeOK, Owned, InLibrary, Tables
  <1>1. row \in RowType /\ row.cur = d.items[g].cur
    <2>. HIDE DEF t
    <2>. QED  BY <1>0, RowFields
  <1>2. end \in RowType /\ end.cur = IF d.items[g].cur = r THEN None ELSE d.items[g].cur
    <2>. HIDE DEF row
    <2>. QED  BY <1>0, <1>1, RowFields DEF None
  <1>3. c = [items |-> IF S = {} THEN d.items ELSE Update(d.items, g, row), runs |-> Without(d.runs, {r}),
             sessions |-> Without(d.sessions, S), runSeq |-> d.runSeq, sessSeq |-> d.sessSeq,
             touched |-> IF S = {} THEN d.touched ELSE d.touched \cup {g}]
    BY DEF DropRun, Sound, Tables
  <1>v. /\ S = {} /\ row.cur # r => end = d.items[g]
        /\ end = IF row.cur = r THEN [row EXCEPT !.cur = None] ELSE row
        /\ S = {} => row = d.items[g]
        /\ \A s \in DOMAIN d.sessions : d.sessions[s].run = r => s \in S
    BY DEF SessionsIn
  <1>. HIDE DEF S, t, row, end
  <1>4. /\ DOMAIN c.items = DOMAIN d.items /\ c.items[g] = row
        /\ \A h \in DOMAIN d.items \ {g} : c.items[h] = d.items[h]
        /\ c.runs = Without(d.runs, {r}) /\ c.sessions = Without(d.sessions, S)
        /\ c.runSeq = d.runSeq /\ c.sessSeq = d.sessSeq
        /\ c.touched = IF S = {} THEN d.touched ELSE d.touched \cup {g}
        /\ c = [items |-> c.items, runs |-> c.runs, sessions |-> c.sessions,
                runSeq |-> c.runSeq, sessSeq |-> c.sessSeq, touched |-> c.touched]
    BY <1>0, <1>3, <1>v DEF Update
  <1>5. e = IF row.cur = r
            THEN [items |-> Put(c.items, g, end), runs |-> c.runs, sessions |-> c.sessions,
                  runSeq |-> c.runSeq, sessSeq |-> c.sessSeq, touched |-> c.touched \cup {g}]
            ELSE c
    <2>1. CASE row.cur = r
      <3>1. e = PutRow(c, g, end)
        BY <1>4, <1>v, <2>1
      <3>. QED  BY <1>4, <2>1, <3>1 DEF PutRow
    <2>2. CASE row.cur # r
      BY <1>4, <2>2
    <2>. QED  BY <2>1, <2>2
  <1>6. DOMAIN e.items = DOMAIN d.items /\ e.items[g] = end /\ \A h \in DOMAIN d.items \ {g} : e.items[h] = d.items[h]
    <2>1. CASE row.cur = r
      <3>1. e.items = Put(c.items, g, end)
        BY <1>5, <2>1
      <3>. QED  BY <1>0, <1>4, <3>1 DEF Put
    <2>2. CASE row.cur # r
      <3>1. e.items = c.items /\ end = row
        BY <1>5, <1>v, <2>2
      <3>. QED  BY <1>4, <3>1
    <2>. QED  BY <2>1, <2>2
  <1>a. /\ e.runs = Without(d.runs, {r}) /\ e.sessions = Without(d.sessions, S)
        /\ e.runSeq = d.runSeq /\ e.sessSeq = d.sessSeq
    BY <1>4, <1>5
  <1>b. e = [items |-> e.items, runs |-> e.runs, sessions |-> e.sessions,
                runSeq |-> e.runSeq, sessSeq |-> e.sessSeq, touched |-> e.touched]
    <2>1. CASE row.cur = r
      BY <1>5, <2>1
    <2>2. CASE row.cur # r
      <3>1. e = c
        BY <1>5, <2>2
      <3>. QED  BY <1>4, <3>1
    <2>. QED  BY <2>1, <2>2
  <1>u. /\ d.touched \subseteq e.touched /\ e.touched \subseteq d.touched \cup {g}
        /\ S # {} \/ row.cur = r => g \in e.touched
    BY <1>4, <1>5
  <1>7. /\ DOMAIN e.runs = DOMAIN d.runs \ {r} /\ \A q \in DOMAIN e.runs : e.runs[q] = d.runs[q]
        /\ DOMAIN e.sessions = DOMAIN d.sessions \ S /\ \A s \in DOMAIN e.sessions : e.sessions[s] = d.sessions[s]
    BY <1>a DEF Without, Restrict
  <1>8. Tables(e)
    BY <1>0, <1>a, <1>b DEF Tables
  <1>9. DBTypeOK(e)
    BY <1>0, <1>2, <1>6, <1>7, <1>a, <1>u DEF Sound, DBTypeOK
  <1>10. Owned(e)
    <2>1. \A h \in DOMAIN e.items : e.items[h].cur \in RunsOf(e, h) \cup {None}
      <3>1. SUFFICES ASSUME NEW h \in DOMAIN d.items PROVE e.items[h].cur \in RunsOf(e, h) \cup {None}
        BY <1>6
      <3>2. d.items[h].cur \in RunsOf(d, h) \cup {None}
        BY DEF Sound, Owned
      <3>3. \A q \in RunsOf(d, h) : q # r => q \in RunsOf(e, h)
        BY <1>7 DEF RunsOf
      <3>4. CASE h = g
        BY <1>2, <1>6, <3>2, <3>3, <3>4
      <3>5. CASE h # g
        <4>1. r \notin RunsOf(d, h)
          BY <3>5 DEF RunsOf
        <4>. QED  BY <1>0, <1>6, <3>2, <3>3, <3>5, <4>1 DEF None
      <3>. QED  BY <3>4, <3>5
    <2>2. \A q \in DOMAIN e.runs : InLibrary(e, e.runs[q].game)
      BY <1>6, <1>7 DEF Sound, Owned, InLibrary
    <2>3. \A s \in DOMAIN e.sessions : /\ InLibrary(e, e.sessions[s].game)
                                       /\ e.sessions[s].run \in RunsOf(e, e.sessions[s].game) \cup {None}
      <3>1. TAKE s \in DOMAIN e.sessions
      <3>2. s \in DOMAIN d.sessions /\ e.sessions[s] = d.sessions[s] /\ d.sessions[s].run # r
        BY <1>7, <1>v
      <3>3. /\ InLibrary(d, d.sessions[s].game)
            /\ d.sessions[s].run \in RunsOf(d, d.sessions[s].game) \cup {None}
        BY <3>2 DEF Sound, Owned
      <3>4. \A h, q : q \in RunsOf(d, h) /\ q # r => q \in RunsOf(e, h)
        BY <1>7 DEF RunsOf
      <3>5. InLibrary(e, d.sessions[s].game)
        BY <1>6, <3>3 DEF InLibrary
      <3>6. d.sessions[s].run \in RunsOf(e, d.sessions[s].game) \cup {None}
        BY <3>2, <3>3, <3>4
      <3>. QED  BY <3>2, <3>5, <3>6
    <2>. QED  BY <2>1, <2>2, <2>3 DEF Owned
  <1>11. Moved(d, e, g)
    <2>1. d.runSeq <= e.runSeq /\ d.sessSeq <= e.sessSeq
      BY <1>0, <1>a
    <2>2. Descends(d.runs, e.runs, d.runSeq, g) /\ Descends(d.sessions, e.sessions, d.sessSeq, g)
      BY <1>7 DEF Descends
    <2>3. Stamped(d, e)
      BY <1>6, <1>u, <1>v DEF Stamped, RowOf, InLibrary
    <2>. QED  BY <2>1, <2>2, <2>3 DEF Moved
  <1>. QED  BY <1>0, <1>2, <1>6, <1>7, <1>8, <1>9, <1>10, <1>11 DEF Sound

----------------------------------------------------------------------------
(* Snapshots.                                                              *)

\* A snapshot of game g that a restore turns into rows of their shape.
IsSnapshot(g, snap) ==
  /\ snap.row = NoRow \/ /\ snap.row.status \in Statuses
                         /\ snap.row.started \in MaybeDay /\ snap.row.completed \in MaybeDay
                         /\ snap.row.cur \in DOMAIN snap.runs \cup {None}
  /\ \A r \in DOMAIN snap.runs : snap.runs[r].started \in MaybeDay /\ snap.runs[r].finished \in MaybeDay
  /\ \A s \in DOMAIN snap.sessions : /\ snap.sessions[s] \in SessionType
                                     /\ snap.sessions[s].game = g
                                     /\ snap.sessions[s].run \in DOMAIN snap.runs \cup {None}

LEMMA SnapshotTaken ==
  ASSUME NEW d, Sound(d), NEW g \in Games, NEW snap, snap = Snapshot(d, g)
  PROVE  /\ IsSnapshot(g, snap)
         /\ DOMAIN snap.runs \subseteq RunsOf(d, g) /\ DOMAIN snap.sessions \subseteq SessionsOf(d, g)
         /\ Tidy(d) => TidySnapshot(snap)
  <1>1. CASE InLibrary(d, g)
    <2>1. /\ snap.row = [status |-> d.items[g].status, started |-> d.items[g].started,
                         completed |-> d.items[g].completed, cur |-> d.items[g].cur]
          /\ snap.runs = [r \in RunsOf(d, g) |-> [started |-> d.runs[r].started, finished |-> d.runs[r].finished]]
          /\ snap.sessions = [s \in SessionsOf(d, g) |-> d.sessions[s]]
      BY <1>1 DEF Snapshot, Restrict
    <2>2. d.items[g] \in RowType /\ d.items[g].cur \in RunsOf(d, g) \cup {None}
      BY <1>1 DEF Sound, DBTypeOK, Owned, InLibrary
    <2>3. /\ snap.row.status \in Statuses
          /\ snap.row.started \in MaybeDay /\ snap.row.completed \in MaybeDay
          /\ snap.row.cur \in DOMAIN snap.runs \cup {None}
      BY <2>1, <2>2, RowFields
    <2>4. \A r \in DOMAIN snap.runs : snap.runs[r].started \in MaybeDay /\ snap.runs[r].finished \in MaybeDay
      <3>1. TAKE r \in DOMAIN snap.runs
      <3>2. r \in RunsOf(d, g) /\ snap.runs[r] = [started |-> d.runs[r].started, finished |-> d.runs[r].finished]
        BY <2>1
      <3>3. d.runs[r] \in RunType
        BY <3>2 DEF Sound, DBTypeOK, RunsOf
      <3>. QED  BY <3>2, <3>3, RunFields
    <2>5. \A s \in DOMAIN snap.sessions : /\ snap.sessions[s] \in SessionType
                                          /\ snap.sessions[s].game = g
                                          /\ snap.sessions[s].run \in DOMAIN snap.runs \cup {None}
      <3>1. TAKE s \in DOMAIN snap.sessions
      <3>2. s \in DOMAIN d.sessions /\ snap.sessions[s] = d.sessions[s] /\ d.sessions[s].game = g
        BY <2>1 DEF SessionsOf
      <3>3. d.sessions[s] \in SessionType /\ d.sessions[s].run \in RunsOf(d, g) \cup {None}
        BY <3>2 DEF Sound, DBTypeOK, Owned
      <3>. QED  BY <2>1, <3>2, <3>3
    <2>6. Tidy(d) => TidySnapshot(snap)
      BY <2>1 DEF Tidy, TidySnapshot, RunsOf
    <2>. QED  BY <2>1, <2>3, <2>4, <2>5, <2>6 DEF IsSnapshot
  <1>2. CASE ~InLibrary(d, g)
    <2>1. snap = [row |-> NoRow, runs |-> <<>>, sessions |-> <<>>]
      BY <1>2 DEF Snapshot
    <2>2. snap.row = NoRow /\ DOMAIN snap.runs = {} /\ DOMAIN snap.sessions = {}
      BY <2>1
    <2>. QED  BY <2>2 DEF IsSnapshot, TidySnapshot
  <1>. QED  BY <1>1, <1>2

\* Restoring: only the game's ids of the snapshot come back.
LEMMA SnapshotRestored ==
  ASSUME NEW d, Sound(d), NEW g \in Games, NEW snap, IsSnapshot(g, snap),
         DOMAIN snap.runs \subseteq 1..d.runSeq, DOMAIN snap.sessions \subseteq 1..d.sessSeq,
         Restorable(d, g, snap), NEW e, e = RestoreItem(d, g, snap)
  PROVE  /\ Sound(e) /\ Stamped(d, e) /\ e.runSeq = d.runSeq /\ e.sessSeq = d.sessSeq
         /\ \A r \in DOMAIN e.runs : \/ r \in DOMAIN d.runs /\ e.runs[r].game = d.runs[r].game
                                     \/ r \in DOMAIN snap.runs /\ e.runs[r].game = g
         /\ \A s \in DOMAIN e.sessions : \/ s \in DOMAIN d.sessions /\ e.sessions[s].game = d.sessions[s].game
                                         \/ s \in DOMAIN snap.sessions /\ e.sessions[s].game = g
         /\ Tidy(d) /\ TidySnapshot(snap) => Tidy(e)
  <1>. DEFINE c == IF InLibrary(d, g) THEN DeleteRow(d, g) ELSE d
  <1>1. /\ Sound(c) /\ Stamped(d, c) /\ ~InLibrary(c, g) /\ c.runSeq = d.runSeq /\ c.sessSeq = d.sessSeq
        /\ \A r \in DOMAIN c.runs : r \in DOMAIN d.runs /\ c.runs[r] = d.runs[r]
        /\ \A s \in DOMAIN c.sessions : s \in DOMAIN d.sessions /\ c.sessions[s] = d.sessions[s]
        /\ \A h \in DOMAIN c.items : c.items[h] = d.items[h]
    <2>1. CASE InLibrary(d, g)
      <3>1. c = DeleteRow(d, g)
        BY <2>1
      <3>. HIDE DEF c
      <3>. QED  BY <3>1, RowDeleted DEF Moved, InLibrary
    <2>2. CASE ~InLibrary(d, g)
      BY <2>2 DEF Stamped
    <2>. QED  BY <2>1, <2>2
  <1>2. /\ \A r \in DOMAIN snap.runs : r \notin DOMAIN c.runs
        /\ \A s \in DOMAIN snap.sessions : s \notin DOMAIN c.sessions
    BY DEF Restorable
  <1>t. Tidy(d) => Tidy(c)
    <2>. HIDE DEF c
    <2>. QED  BY <1>1 DEF Tidy, Sound, Owned, InLibrary
  <1>3. CASE snap.row = NoRow
    <2>1. e = c
      BY <1>3 DEF RestoreItem
    <2>. HIDE DEF c
    <2>. QED  BY <1>1, <1>t, <2>1
  <1>4. CASE snap.row # NoRow
    <2>. DEFINE In(r) == {s \in DOMAIN snap.sessions : snap.sessions[s].run = r}
                Minutes(T) == [s \in T |-> snap.sessions[s].minutes]
                row == [status |-> snap.row.status, started |-> snap.row.started,
                        completed |-> snap.row.completed, cur |-> snap.row.cur,
                        total |-> Replay(0, Minutes(DOMAIN snap.sessions))]
                runs == [r \in DOMAIN snap.runs |->
                           [game |-> g, started |-> snap.runs[r].started, finished |-> snap.runs[r].finished,
                            minutes |-> Replay(0, Minutes(In(r))), edition |-> None]]
    <2>1. e = [PutRow(c, g, row) EXCEPT !.runs = Over(runs, @), !.sessions = Over(snap.sessions, @)]
      BY <1>4 DEF RestoreItem
    <2>2. row \in RowType /\ row.cur = snap.row.cur
      <3>1. Replay(0, Minutes(DOMAIN snap.sessions)) \in Nat
        BY Replayed
      <3>2. snap.row.cur \in Nat
        BY <1>4 DEF IsSnapshot, None
      <3>. HIDE DEF Minutes
      <3>. QED  BY <1>4, <3>1, <3>2 DEF IsSnapshot, RowType
    <2>3. /\ DOMAIN runs = DOMAIN snap.runs
          /\ \A r \in DOMAIN snap.runs : /\ runs[r] \in RunType /\ runs[r].game = g
                                         /\ runs[r].finished = snap.runs[r].finished
      <3>1. \A r \in DOMAIN snap.runs : Replay(0, Minutes(In(r))) \in Nat
        BY Replayed
      <3>. HIDE DEF Minutes, In
      <3>2. DOMAIN runs = DOMAIN snap.runs /\ \A r \in DOMAIN snap.runs : runs[r] =
              [game |-> g, started |-> snap.runs[r].started, finished |-> snap.runs[r].finished,
               minutes |-> Replay(0, Minutes(In(r))), edition |-> None]
        OBVIOUS
      <3>. HIDE DEF runs
      <3>3. \A r \in DOMAIN snap.runs : snap.runs[r].started \in MaybeDay /\ snap.runs[r].finished \in MaybeDay
        BY DEF IsSnapshot
      <3>4. \A r \in DOMAIN snap.runs : /\ runs[r] \in RunType /\ runs[r].game = g
                                        /\ runs[r].finished = snap.runs[r].finished
        <4>1. TAKE r \in DOMAIN snap.runs
        <4>2. PICK n \in Nat : runs[r] = [game |-> g, started |-> snap.runs[r].started,
                                         finished |-> snap.runs[r].finished, minutes |-> n, edition |-> None]
          BY <3>1, <3>2
        <4>. QED  BY <3>3, <4>2 DEF RunType, None
      <3>. QED  BY <3>2, <3>4
    <2>. HIDE DEF row, runs, c
    <2>4. e = [items |-> Put(c.items, g, row), runs |-> Over(runs, c.runs), sessions |-> Over(snap.sessions, c.sessions),
               runSeq |-> c.runSeq, sessSeq |-> c.sessSeq, touched |-> c.touched \cup {g}]
      BY <1>1, <2>1 DEF PutRow, Sound, Tables
    <2>5. /\ DOMAIN e.items = DOMAIN c.items \cup {g} /\ e.items[g] = row
          /\ \A h \in DOMAIN c.items \ {g} : e.items[h] = c.items[h]
      BY <2>4 DEF Put
    <2>6. /\ DOMAIN e.runs = DOMAIN snap.runs \cup DOMAIN c.runs
          /\ \A r \in DOMAIN snap.runs : e.runs[r] = runs[r]
          /\ \A r \in DOMAIN c.runs : e.runs[r] = c.runs[r]
      BY <1>2, <2>3, <2>4 DEF Over, c
    <2>7. /\ DOMAIN e.sessions = DOMAIN snap.sessions \cup DOMAIN c.sessions
          /\ \A s \in DOMAIN snap.sessions : e.sessions[s] = snap.sessions[s]
          /\ \A s \in DOMAIN c.sessions : e.sessions[s] = c.sessions[s]
      BY <1>2, <2>4 DEF Over
    <2>8. e.runSeq = d.runSeq /\ e.sessSeq = d.sessSeq /\ e.touched = c.touched \cup {g}
      BY <1>1, <2>4
    <2>9. Tables(e)
      <3>1. e = [items |-> e.items, runs |-> e.runs, sessions |-> e.sessions,
                 runSeq |-> e.runSeq, sessSeq |-> e.sessSeq, touched |-> e.touched]
        BY <2>4
      <3>. QED  BY <2>8, <3>1 DEF Tables, Sound
    <2>10. DBTypeOK(e)
      BY <1>1, <2>2, <2>3, <2>5, <2>6, <2>7, <2>8 DEF Sound, DBTypeOK, IsSnapshot
    <2>11. Owned(e)
      <3>1. \A h, q : q \in RunsOf(c, h) => q \in RunsOf(e, h)
        BY <2>6 DEF RunsOf
      <3>2. \A q \in DOMAIN snap.runs : q \in RunsOf(e, g)
        BY <2>3, <2>6 DEF RunsOf
      <3>3. \A h \in DOMAIN e.items : e.items[h].cur \in RunsOf(e, h) \cup {None}
        BY <1>1, <1>4, <2>2, <2>5, <3>1, <3>2 DEF Sound, Owned, IsSnapshot
      <3>4. \A q \in DOMAIN e.runs : InLibrary(e, e.runs[q].game)
        BY <1>1, <2>3, <2>5, <2>6 DEF Sound, Owned, InLibrary
      <3>5. \A s \in DOMAIN e.sessions : /\ InLibrary(e, e.sessions[s].game)
                                         /\ e.sessions[s].run \in RunsOf(e, e.sessions[s].game) \cup {None}
        BY <1>1, <2>5, <2>7, <3>1, <3>2 DEF Sound, Owned, InLibrary, IsSnapshot
      <3>. QED  BY <3>3, <3>4, <3>5 DEF Owned
    <2>12. Stamped(d, e)
      BY <1>1, <2>5, <2>8 DEF Stamped, RowOf, InLibrary
    <2>13. ASSUME Tidy(d), TidySnapshot(snap) PROVE Tidy(e)
      <3>1. SUFFICES ASSUME NEW r \in DOMAIN e.runs, e.runs[r].finished = None
                     PROVE  e.items[e.runs[r].game].cur = r
        BY DEF Tidy
      <3>2. CASE r \in DOMAIN snap.runs
        BY <2>2, <2>3, <2>5, <2>6, <2>13, <3>1, <3>2 DEF TidySnapshot
      <3>3. CASE r \in DOMAIN c.runs
        <4>1. c.runs[r].game \in DOMAIN c.items /\ c.runs[r].game # g
          BY <1>1, <3>3 DEF Sound, Owned, InLibrary
        <4>. QED  BY <1>t, <2>5, <2>6, <2>13, <3>1, <3>3, <4>1 DEF Tidy
      <3>. QED  BY <2>6, <3>1, <3>2, <3>3
    <2>. QED  BY <1>1, <2>3, <2>6, <2>7, <2>8, <2>9, <2>10, <2>11, <2>12, <2>13 DEF Sound, IsSnapshot
  <1>. QED  BY <1>3, <1>4

----------------------------------------------------------------------------
(* Operations on a game.                                                   *)

LEMMA ChangeFields ==
  ASSUME NEW ch \in ChangeType
  PROVE  /\ ch.status \in Statuses \cup {""} /\ ch.started \in MaybeDay \cup {Keep}
         /\ ch.completed \in MaybeDay \cup {Keep} /\ ch.total \in Nat \cup {Keep}
         /\ ch.delta \in Int /\ ch.edition \in Nat
  BY DEF ChangeType

LEMMA NewDates ==
  ASSUME NEW given \in MaybeDay \cup {Keep}, NEW old \in MaybeDay, NEW enters, NEW now \in Days
  PROVE  NewDate(given, old, enters, now) \in MaybeDay
  BY DEF NewDate, MaybeDay

LEMMA Upserted ==
  ASSUME NEW d, Sound(d), NEW g \in Games, NEW ch \in ChangeType, NEW now \in Days,
         NEW e, e = UpsertRow(d, g, ch, now)
  PROVE  /\ Sound(e) /\ Moved(d, e, g)
         /\ DOMAIN e.items = DOMAIN d.items \cup {g} /\ e.runs = d.runs
         /\ e.items[g].cur = OldRow(d, g).cur /\ e.items[g].status = NewStatus(d, g, ch)
         /\ \A h \in DOMAIN d.items \ {g} : e.items[h] = d.items[h]
  <1>. DEFINE old == OldRow(d, g)
              st  == NewStatus(d, g, ch)
              s   == NewDate(ch.started, old.started, st = "playing" /\ old.status # "playing", now)
              c   == NewDate(ch.completed, old.completed, st = "completed" /\ old.status # "completed", now)
              row == [status |-> st, started |-> s, completed |-> c, total |-> old.total, cur |-> old.cur]
  <1>1. /\ old.started \in MaybeDay /\ old.completed \in MaybeDay /\ old.total \in Nat /\ old.cur \in Nat
        /\ old.cur \in RunsOf(d, g) \cup {None}
    <2>1. CASE InLibrary(d, g)
      <3>1. old = d.items[g] /\ d.items[g] \in RowType /\ d.items[g].cur \in RunsOf(d, g) \cup {None}
        BY <2>1 DEF OldRow, Sound, DBTypeOK, Owned, InLibrary
      <3>. HIDE DEF old
      <3>. QED  BY <3>1, RowFields
    <2>2. CASE ~InLibrary(d, g)
      BY <2>2 DEF OldRow, None, MaybeDay
    <2>. QED  BY <2>1, <2>2
  <1>2. st \in Statuses
    <2>1. CASE InLibrary(d, g)
      <3>1. d.items[g].status \in Statuses
        BY <2>1, RowFields DEF Sound, DBTypeOK, InLibrary
      <3>. QED  BY <2>1, <3>1, ChangeFields DEF NewStatus
    <2>2. CASE ~InLibrary(d, g)
      <3>1. "backlog" \in Statuses
        BY DEF Statuses
      <3>. QED  BY <2>2, <3>1, ChangeFields DEF NewStatus
    <2>. QED  BY <2>1, <2>2
  <1>. HIDE DEF old, st
  <1>3. s \in MaybeDay /\ c \in MaybeDay
    BY <1>1, ChangeFields, NewDates
  <1>. HIDE DEF s, c
  <1>4. row \in RowType /\ row.cur = old.cur /\ row.status = st
    BY <1>1, <1>2, <1>3 DEF RowType
  <1>5. e = PutRow(d, g, row)
    BY DEF UpsertRow, old, st, s, c
  <1>. HIDE DEF row
  <1>. QED  BY <1>1, <1>4, <1>5, RowPut DEF old, st

LEMMA RunsUpdated ==
  ASSUME NEW d, Sound(d), NEW g \in DOMAIN d.items, NEW old, old.started \in MaybeDay,
         NEW ch \in ChangeType, NEW day \in Days,
         NEW e, e = UpdatePlaythroughs(d, g, old, ch, day)
  PROVE  Sound(e) /\ Moved(d, e, g) /\ InLibrary(e, g) /\ (Tidy(d) => Tidy(e))
  <1>. DEFINE row   == d.items[g]
              st    == row.status
              moved == st # old.status
              cur   == IF row.cur \in DOMAIN d.runs THEN row.cur ELSE None
              over  == cur # None /\ d.runs[cur].finished # None
              start == CASE moved /\ st = "playing" /\ over -> day
                         [] moved /\ st \in {"completed", "abandoned"} -> row.started
                         [] OTHER -> FirstStart(old, row, ch, day)
              opens == \/ moved /\ st = "playing" /\ (cur = None \/ over)
                       \/ moved /\ st \in {"completed", "abandoned"} /\ cur = None
                       \/ ch.edition # None /\ st \in {"playing", "completed"} /\ cur = None
              c     == IF opens THEN AddRun(d, g, start) ELSE d
              run   == IF opens THEN c.runSeq ELSE cur
              ends  == IF ch.completed # Keep /\ st = "completed" THEN row.completed
                       ELSE IF moved /\ st = "completed" /\ row.completed # None THEN row.completed
                       ELSE IF moved /\ st \in {"completed", "abandoned"} THEN day
                       ELSE c.runs[run].finished
              was   == c.runs[run]
              now   == [game |-> was.game, minutes |-> was.minutes, finished |-> ends,
                        started |-> IF ch.started # Keep THEN row.started ELSE was.started,
                        edition |-> IF ch.edition # None THEN ch.edition ELSE was.edition]
  <1>0. e = IF run = None THEN c ELSE [c EXCEPT !.runs = Update(c.runs, run, now)]
    BY DEF UpdatePlaythroughs
  <1>1. /\ row \in RowType /\ row.started \in MaybeDay /\ row.completed \in MaybeDay
        /\ day \in MaybeDay /\ g \in Games /\ row.cur \in RunsOf(d, g) \cup {None}
        /\ d.runSeq \in Nat
    <2>1. row \in RowType /\ g \in Games /\ row.cur \in RunsOf(d, g) \cup {None} /\ d.runSeq \in Nat
      BY DEF Sound, DBTypeOK, Owned, Tables
    <2>. HIDE DEF row
    <2>. QED  BY <2>1, RowFields DEF MaybeDay
  <1>2. start \in MaybeDay
    <2>. HIDE DEF row, moved, over, st
    <2>. QED  BY <1>1 DEF FirstStart
  <1>3. cur # None => cur \in DOMAIN d.runs /\ d.runs[cur].game = g
    BY <1>1 DEF RunsOf, None
  <1>t. Tidy(d) /\ opens => \A q \in RunsOf(d, g) : d.runs[q].finished # None
    <2>1. opens => cur = None \/ over
      OBVIOUS
    <2>2. SUFFICES ASSUME Tidy(d), cur = None \/ over, NEW q \in RunsOf(d, g), d.runs[q].finished = None
                   PROVE  FALSE
      BY <2>1
    <2>3. row.cur = q /\ q \in DOMAIN d.runs /\ q # None
      <3>1. q \in DOMAIN d.runs /\ d.items[g].cur = q
        BY <2>2 DEF Tidy, RunsOf
      <3>2. q \in 1..d.runSeq
        BY <3>1 DEF Sound, DBTypeOK
      <3>. QED  BY <1>1, <3>1, <3>2 DEF None
    <2>4. cur = q
      BY <2>3
    <2>. QED  BY <2>2, <2>3, <2>4
  <1>. HIDE DEF start, opens, over
  <1>4. /\ Sound(c) /\ Moved(d, c, g) /\ DOMAIN c.items = DOMAIN d.items
        /\ run # None => run \in DOMAIN c.runs /\ c.runs[run].game = g /\ c.items[g].cur = run
        /\ Tidy(d) => Tidy(c)
    <2>1. CASE opens
      <3>1. c = AddRun(d, g, start) /\ run = c.runSeq
        BY <2>1
      <3>. HIDE DEF c, run, row, moved, st, cur
      <3>2. /\ Sound(c) /\ Moved(d, c, g) /\ DOMAIN c.items = DOMAIN d.items
            /\ DOMAIN c.runs = DOMAIN d.runs \cup {c.runSeq} /\ c.runs[c.runSeq].game = g
            /\ c.items[g].cur = c.runSeq /\ \A h \in DOMAIN d.items \ {g} : c.items[h] = d.items[h]
            /\ \A q \in DOMAIN d.runs : c.runs[q] = d.runs[q]
        BY <1>2, <3>1, RunAdded
      <3>3. ASSUME Tidy(d) PROVE Tidy(c)
        <4>1. \A q \in DOMAIN d.runs : d.runs[q].game \in DOMAIN d.items
          BY DEF Sound, Owned, InLibrary
        <4>2. \A q \in DOMAIN d.runs : d.runs[q].finished = None => d.runs[q].game # g
          BY <1>t, <2>1, <3>3 DEF RunsOf
        <4>. QED  BY <3>2, <3>3, <4>1, <4>2 DEF Tidy
      <3>. QED  BY <3>1, <3>2, <3>3
    <2>2. CASE ~opens
      <3>1. c = d /\ run = cur /\ (cur # None => d.items[g].cur = cur)
        BY <2>2
      <3>. HIDE DEF c, run, cur
      <3>. QED  BY <1>3, <3>1, Stays
    <2>. QED  BY <2>1, <2>2
  <1>. HIDE DEF c, run, cur
  <1>5. CASE run = None
    BY <1>0, <1>4, <1>5 DEF InLibrary
  <1>6. CASE run # None
    <2>1. was \in RunType
      BY <1>4, <1>6 DEF Sound, DBTypeOK
    <2>2. /\ was.game = g /\ was.minutes \in Int /\ was.started \in MaybeDay
          /\ was.finished \in MaybeDay /\ was.edition \in Nat
      <3>. HIDE DEF was
      <3>1. was.game = g
        BY <1>4, <1>6 DEF was
      <3>. QED  BY <2>1, <3>1, RunFields
    <2>3. ends \in MaybeDay
      <3>. HIDE DEF row, moved, st
      <3>. QED  BY <1>1, <2>2
    <2>. HIDE DEF was, ends, row
    <2>4. now \in RunType /\ now.game = g
      <3>1. now.started \in MaybeDay /\ now.edition \in Nat
        BY <1>1, <2>2, ChangeFields
      <3>. QED  BY <1>1, <2>2, <2>3, <3>1 DEF RunType
    <2>. HIDE DEF now
    <2>5. e = [c EXCEPT !.runs = Update(c.runs, run, now)]
      BY <1>0, <1>6
    <2>6. Sound(e) /\ Moved(c, e, g) /\ e.items = c.items
      BY <1>4, <1>6, <2>4, <2>5, RunChanged
    <2>7. Tidy(c) => Tidy(e)
      <3>1. e.runs = Update(c.runs, run, now)
        BY <1>4, <2>5 DEF Sound, Tables
      <3>2. /\ DOMAIN e.runs = DOMAIN c.runs /\ \A q \in DOMAIN c.runs \ {run} : e.runs[q] = c.runs[q]
            /\ e.runs[run].game = g
        BY <1>4, <1>6, <2>4, <3>1 DEF Update
      <3>. QED  BY <1>4, <1>6, <2>6, <3>1, <3>2 DEF Tidy
    <2>. QED  BY <1>4, <2>6, <2>7, MovedOn DEF InLibrary
  <1>. QED  BY <1>5, <1>6

LEMMA MinutesLogged ==
  ASSUME NEW d, Sound(d), NEW g \in DOMAIN d.items, NEW ch \in ChangeType, NEW e, e = LogMinutes(d, g, ch)
  PROVE  Sound(e) /\ Moved(d, e, g) /\ InLibrary(e, g) /\ (Tidy(d) => Tidy(e))
  <1>. DEFINE m   == MinutesToLog(d, g, ch)
              cur == d.items[g].cur
              s   == [game |-> g, minutes |-> m, source |-> WriteSource(ch),
                      run |-> IF cur \in DOMAIN d.runs THEN cur ELSE None]
  <1>1. g \in Games /\ d.items[g] \in RowType /\ d.items[g].total \in Nat /\ cur \in Nat /\ cur \in RunsOf(d, g) \cup {None}
    <2>1. g \in Games /\ d.items[g] \in RowType /\ d.items[g].cur \in RunsOf(d, g) \cup {None}
      BY DEF Sound, DBTypeOK, Owned
    <2>. QED  BY <2>1, RowFields
  <1>2. m \in Int
    <2>1. ch.total \in Nat \cup {Keep} /\ ch.delta \in Int
      BY ChangeFields
    <2>. QED  BY <1>1, <2>1 DEF MinutesToLog
  <1>3. WriteSource(ch) \in Sources
    BY DEF WriteSource, Sources
  <1>4. s \in SessionType /\ s.game = g /\ s.run \in RunsOf(d, g) \cup {None}
    <2>1. (IF cur \in DOMAIN d.runs THEN cur ELSE None) \in Nat
      BY <1>1 DEF None
    <2>. HIDE DEF m, cur
    <2>. QED  BY <1>1, <1>2, <1>3, <2>1 DEF SessionType, cur
  <1>5. CASE m = 0
    BY <1>5, Stays DEF LogMinutes, InLibrary
  <1>6. CASE m # 0
    <2>1. e = AddSession(d, s)
      BY <1>6 DEF LogMinutes
    <2>. HIDE DEF s
    <2>2. Sound(e) /\ Moved(d, e, g) /\ InLibrary(e, g)
      BY <1>4, <2>1, SessionAdded DEF InLibrary
    <2>3. Tidy(d) => Tidy(e)
      <3>1. /\ DOMAIN e.runs = DOMAIN d.runs
            /\ \A h \in DOMAIN d.items : e.items[h].cur = d.items[h].cur
            /\ \A q \in DOMAIN d.runs : e.runs[q].game = d.runs[q].game /\ e.runs[q].finished = d.runs[q].finished
        BY <1>4, <2>1, SessionAdded
      <3>. QED  BY <3>1, StaysTidy
    <2>. QED  BY <2>2, <2>3
  <1>. QED  BY <1>5, <1>6

LEMMA ChangeApplied ==
  ASSUME NEW d, Sound(d), NEW g \in Games, NEW ch \in ChangeType, NEW day \in Days, NEW now \in Days,
         NEW e, e = ApplyChange(d, g, ch, day, now)
  PROVE  Sound(e) /\ Moved(d, e, g) /\ InLibrary(e, g) /\ (Tidy(d) => Tidy(e))
  <1>1. PICK a : a = UpsertRow(d, g, ch, now)
    OBVIOUS
  <1>2. Sound(a) /\ Moved(d, a, g) /\ g \in DOMAIN a.items
    BY <1>1, Upserted
  <1>t. ASSUME Tidy(d) PROVE Tidy(a)
    <2>1. /\ a.runs = d.runs /\ a.items[g].cur = OldRow(d, g).cur
          /\ \A h \in DOMAIN d.items \ {g} : a.items[h] = d.items[h]
      BY <1>1, Upserted
    <2>2. g \in DOMAIN d.items => a.items[g].cur = d.items[g].cur
      BY <2>1 DEF OldRow, InLibrary
    <2>3. \A h \in DOMAIN d.items : a.items[h].cur = d.items[h].cur
      BY <2>1, <2>2
    <2>. QED  BY <1>t, <2>1, <2>3, StaysTidy
  <1>0. OldRow(d, g).started \in MaybeDay
    <2>1. CASE InLibrary(d, g)
      BY <2>1, RowFields DEF OldRow, InLibrary, Sound, DBTypeOK
    <2>2. CASE ~InLibrary(d, g)
      BY <2>2 DEF OldRow, None, MaybeDay
    <2>. QED  BY <2>1, <2>2
  <1>3. PICK old : old = OldRow(d, g) /\ old.started \in MaybeDay
    BY <1>0
  <1>4. PICK b : b = UpdatePlaythroughs(a, g, old, ch, day)
    OBVIOUS
  <1>5. Sound(b) /\ Moved(a, b, g) /\ g \in DOMAIN b.items /\ (Tidy(a) => Tidy(b))
    BY <1>2, <1>3, <1>4, RunsUpdated DEF InLibrary
  <1>6. e = LogMinutes(b, g, ch)
    BY <1>1, <1>3, <1>4 DEF ApplyChange
  <1>7. Sound(e) /\ Moved(b, e, g) /\ InLibrary(e, g) /\ (Tidy(b) => Tidy(e))
    BY <1>5, <1>6, MinutesLogged
  <1>8. Moved(d, b, g)
    BY <1>2, <1>5, MovedOn
  <1>9. Tidy(d) => Tidy(e)
    BY <1>t, <1>5, <1>7
  <1>. QED  BY <1>2, <1>5, <1>7, <1>8, <1>9, MovedOn

----------------------------------------------------------------------------
(* Imports.                                                                *)

LEMMA LargestId ==
  ASSUME NEW n \in Nat, NEW T, T \subseteq 1..n, T # {}
  PROVE  Max(T) \in T
  <1>. DEFINE Bounds == {k \in Nat : \A y \in T : k >= y}
  <1>1. n \in Bounds
    OBVIOUS
  <1>2. PICK k \in Bounds : \A j \in Bounds : ~ (j < k)
    <2>. DEFINE R == OpToRel(<, Nat)
    <2>1. IsWellFoundedOn(R, Nat)
      BY NatLessThanWellFounded, Zenon
    <2>2. \A x, y \in Nat : y < x => <<y, x>> \in R
      BY DEF OpToRel
    <2>3. Bounds \subseteq Nat /\ Bounds # {}
      BY <1>1
    <2>. HIDE DEF R, Bounds
    <2>4. \E k \in Bounds : \A j \in Bounds : ~ (<<j, k>> \in R)
      BY <2>1, <2>3, WFMin
    <2>. QED  BY <2>2, <2>3, <2>4
  <1>3. k \in T
    <2>1. SUFFICES ASSUME k \notin T PROVE FALSE
      OBVIOUS
    <2>2. \A y \in T : y \in Nat \ {0} /\ k \in Nat /\ y <= k /\ y # k
      BY <2>1
    <2>3. k \in Nat \ {0}
      <3>1. PICK y : y \in T
        OBVIOUS
      <3>. QED  BY <2>2, <3>1
    <2>4. \A y \in T : k - 1 >= y
      BY <2>2
    <2>. QED  BY <1>2, <2>3, <2>4
  <1>. QED  BY <1>2, <1>3 DEF Max

LEMMA EntryFields ==
  ASSUME NEW e \in EntryType
  PROVE  /\ e.status \in Statuses /\ e.minutes \in Nat /\ e.started \in MaybeDay /\ e.completed \in MaybeDay
         /\ e.sessions \in Seq(Nat \ {0})
  BY DEF EntryType

LEMMA DiaryImported ==
  ASSUME NEW d, Sound(d), NEW g \in DOMAIN d.items, NEW e \in EntryType, NEW f, f = AddImportedSessions(d, g, e)
  PROVE  Sound(f) /\ Moved(d, f, g) /\ InLibrary(f, g) /\ (Tidy(d) => Tidy(f))
  <1>. DEFINE n   == Len(e.sessions)
              new == [id \in (d.sessSeq + 1)..(d.sessSeq + n) |->
                        [game |-> g, run |-> None, minutes |-> e.sessions[id - d.sessSeq], source |-> "import"]]
              sum == Replay(0, e.sessions)
              a   == AddMinutes(d, g, None, sum)
              x   == [a EXCEPT !.sessions = Over(new, @), !.sessSeq = @ + n]
              adjusts == {s \in SessionsOf(d, g) : d.sessions[s].source = "adjust"}
              last == Max(adjusts)
              rest == d.sessions[last].minutes - sum
  <1>0. f = IF n = 0 THEN d
            ELSE IF adjusts = {} THEN x
            ELSE IF rest = 0 THEN DropSession(x, last) ELSE SetMinutes(x, last, rest)
    BY DEF AddImportedSessions
  <1>1. /\ n \in Nat /\ sum \in Nat /\ g \in Games /\ d.sessSeq \in Nat
        /\ \A s \in DOMAIN d.sessions : s \in 1..d.sessSeq /\ d.sessions[s] \in SessionType
    BY EntryFields, Replayed DEF Sound, DBTypeOK, Tables
  <1>. HIDE DEF sum
  <1>2. /\ Sound(a) /\ Moved(d, a, g) /\ DOMAIN a.items = DOMAIN d.items
        /\ a.sessions = d.sessions /\ a.sessSeq = d.sessSeq
        /\ DOMAIN a.runs = DOMAIN d.runs /\ \A h \in DOMAIN d.items : a.items[h].cur = d.items[h].cur
        /\ \A q \in DOMAIN d.runs : a.runs[q].game = d.runs[q].game /\ a.runs[q].finished = d.runs[q].finished
    BY <1>1, MinutesAdded
  <1>3. DOMAIN new = (d.sessSeq + 1)..(d.sessSeq + n)
        /\ \A id \in DOMAIN new : new[id] \in SessionType /\ new[id].game = g /\ new[id].run = None
    <2>1. \A i \in 1..n : e.sessions[i] \in Int
      BY EntryFields
    <2>2. "import" \in Sources
      BY DEF Sources
    <2>3. \A id \in (d.sessSeq + 1)..(d.sessSeq + n) : id - d.sessSeq \in 1..n
      BY <1>1
    <2>. HIDE DEF n
    <2>4. DOMAIN new = (d.sessSeq + 1)..(d.sessSeq + n)
      OBVIOUS
    <2>5. ASSUME NEW id \in (d.sessSeq + 1)..(d.sessSeq + n)
          PROVE  new[id] \in SessionType /\ new[id].game = g /\ new[id].run = None
      <3>1. PICK m \in Int : new[id] = [game |-> g, run |-> None, minutes |-> m, source |-> "import"]
        BY <2>1, <2>3
      <3>. HIDE DEF new
      <3>. QED  BY <1>1, <2>2, <3>1 DEF SessionType, None
    <2>. QED  BY <2>4, <2>5
  <1>. HIDE DEF n, new
  <1>4. x = [items |-> a.items, runs |-> a.runs, sessions |-> Over(new, d.sessions),
             runSeq |-> a.runSeq, sessSeq |-> d.sessSeq + n, touched |-> a.touched]
    <2>1. a = [items |-> a.items, runs |-> a.runs, sessions |-> a.sessions,
               runSeq |-> a.runSeq, sessSeq |-> a.sessSeq, touched |-> a.touched]
      BY <1>2 DEF Sound, Tables
    <2>. HIDE DEF a
    <2>2. x = [a EXCEPT !.sessions = Over(new, a.sessions), !.sessSeq = a.sessSeq + n]
      OBVIOUS
    <2>. HIDE DEF x
    <2>3. a.sessions = d.sessions /\ a.sessSeq = d.sessSeq
      BY <1>2
    <2>. QED  BY <2>1, <2>2, <2>3
  <1>. HIDE DEF a
  <1>. HIDE DEF x
  <1>5. /\ DOMAIN x.sessions = DOMAIN new \cup DOMAIN d.sessions
        /\ \A s \in DOMAIN new : x.sessions[s] = new[s] /\ s \in 1..(d.sessSeq + n) /\ s > d.sessSeq
        /\ \A s \in DOMAIN d.sessions : x.sessions[s] = d.sessions[s] /\ s \in 1..(d.sessSeq + n)
    <2>1. x.sessions = Over(new, d.sessions)
      BY <1>4
    <2>. QED  BY <1>1, <1>3, <2>1 DEF Over
  <1>6. /\ x.items = a.items /\ x.runs = a.runs /\ x.runSeq = a.runSeq
        /\ x.sessSeq = d.sessSeq + n /\ x.touched = a.touched
    BY <1>4
  <1>7. Sound(x) /\ Moved(d, x, g) /\ InLibrary(x, g)
    <2>1. Tables(x)
      <3>1. x = [items |-> x.items, runs |-> x.runs, sessions |-> x.sessions,
                 runSeq |-> x.runSeq, sessSeq |-> x.sessSeq, touched |-> x.touched]
        BY <1>4
      <3>. QED  BY <1>1, <1>2, <1>6, <3>1 DEF Sound, Tables
    <2>2. DBTypeOK(x)
      BY <1>1, <1>2, <1>3, <1>5, <1>6 DEF Sound, DBTypeOK
    <2>3. Owned(x)
      <3>1. \A s \in DOMAIN x.sessions : /\ InLibrary(x, x.sessions[s].game)
                                         /\ x.sessions[s].run \in RunsOf(x, x.sessions[s].game) \cup {None}
        <4>1. ASSUME NEW s \in DOMAIN new
              PROVE  /\ InLibrary(x, x.sessions[s].game)
                     /\ x.sessions[s].run \in RunsOf(x, x.sessions[s].game) \cup {None}
          BY <1>2, <1>3, <1>5, <1>6, <4>1 DEF InLibrary
        <4>2. ASSUME NEW s \in DOMAIN d.sessions
              PROVE  /\ InLibrary(x, x.sessions[s].game)
                     /\ x.sessions[s].run \in RunsOf(x, x.sessions[s].game) \cup {None}
          BY <1>2, <1>5, <1>6, <4>2 DEF Sound, Owned, InLibrary, RunsOf
        <4>. QED  BY <1>5, <4>1, <4>2
      <3>. QED  BY <1>2, <1>6, <3>1 DEF Sound, Owned, InLibrary, RunsOf
    <2>4. Moved(d, x, g)
      <3>1. Descends(d.sessions, x.sessions, d.sessSeq, g)
        BY <1>3, <1>5 DEF Descends
      <3>. QED  BY <1>1, <1>2, <1>6, <3>1 DEF Moved, Stamped, RowOf, InLibrary
    <2>. QED  BY <1>2, <1>6, <2>1, <2>2, <2>3, <2>4 DEF Sound, InLibrary
  <1>t. Tidy(d) => Tidy(x)
    BY <1>2, <1>6, StaysTidy
  <1>8. CASE n = 0
    BY <1>0, <1>8, Stays DEF InLibrary
  <1>9. CASE n # 0 /\ adjusts = {}
    BY <1>0, <1>7, <1>t, <1>9
  <1>10. CASE n # 0 /\ adjusts # {}
    <2>1. last \in adjusts
      <3>1. adjusts \subseteq 1..d.sessSeq
        BY <1>1 DEF SessionsOf
      <3>. HIDE DEF adjusts
      <3>. QED  BY <1>1, <1>10, <3>1, LargestId
    <2>2. last \in DOMAIN x.sessions /\ x.sessions[last].game = g /\ rest \in Int
      <3>1. last \in DOMAIN d.sessions /\ d.sessions[last].game = g
        BY <2>1 DEF SessionsOf
      <3>. HIDE DEF last
      <3>2. d.sessions[last].minutes \in Int
        BY <1>1, <3>1, SessionFields
      <3>. QED  BY <1>1, <1>5, <3>1, <3>2
    <2>. HIDE DEF last, rest, adjusts
    <2>3. f = IF rest = 0 THEN DropSession(x, last) ELSE SetMinutes(x, last, rest)
      BY <1>0, <1>10
    <2>4. /\ Sound(f) /\ Moved(x, f, g) /\ InLibrary(f, g)
          /\ DOMAIN f.runs = DOMAIN x.runs /\ \A h \in DOMAIN x.items : f.items[h].cur = x.items[h].cur
          /\ \A q \in DOMAIN x.runs : f.runs[q].game = x.runs[q].game /\ f.runs[q].finished = x.runs[q].finished
      <3>1. CASE rest = 0
        BY <1>7, <2>2, <2>3, <3>1, SessionDropped DEF InLibrary
      <3>2. CASE rest # 0
        BY <1>7, <2>2, <2>3, <3>2, SessionChanged DEF InLibrary
      <3>. QED  BY <3>1, <3>2
    <2>5. Tidy(x) => Tidy(f)
      BY <1>7, <2>4, StaysTidy
    <2>. QED  BY <1>7, <1>t, <2>4, <2>5, MovedOn
  <1>. QED  BY <1>8, <1>9, <1>10

LEMMA IsChange ==
  ASSUME NEW status \in Statuses \cup {""}, NEW started \in MaybeDay \cup {Keep},
         NEW completed \in MaybeDay \cup {Keep}, NEW total \in Nat \cup {Keep}, NEW delta \in Int
  PROVE  [status |-> status, started |-> started, completed |-> completed,
          total |-> total, delta |-> delta, edition |-> None] \in ChangeType
  <1>1. None \in Nat
    BY DEF None
  <1>. QED  BY <1>1 DEF ChangeType

LEMMA ImportChanges ==
  ASSUME NEW d, NEW g \in Games, NEW e \in EntryType
  PROVE  ImportChange(d, g, e) \in ChangeType
  <1>1. /\ e.status \in Statuses /\ e.minutes \in Nat
        /\ \A old : Fill(e.started, old) \in MaybeDay \cup {Keep} /\ Fill(e.completed, old) \in MaybeDay \cup {Keep}
    BY EntryFields DEF Fill
  <1>6. PICK n \in Int : n = 0
    OBVIOUS
  <1>2. PICK t \in Nat \cup {Keep} : t = IF e.minutes > OldRow(d, g).total THEN e.minutes ELSE Keep
    BY <1>1
  <1>3. PICK s, c \in MaybeDay \cup {Keep} :
          s = Fill(e.started, OldRow(d, g).started) /\ c = Fill(e.completed, OldRow(d, g).completed)
    BY <1>1
  <1>4. PICK st \in Statuses \cup {""} : st = IF InLibrary(d, g) THEN "" ELSE e.status
    BY <1>1
  <1>5. ImportChange(d, g, e) =
          [status |-> st, started |-> s, completed |-> c, total |-> t, delta |-> 0, edition |-> None]
    BY <1>2, <1>3, <1>4 DEF ImportChange
  <1>7. ImportChange(d, g, e) =
          [status |-> st, started |-> s, completed |-> c, total |-> t, delta |-> n, edition |-> None]
    BY <1>5, <1>6
  <1>8. [status |-> st, started |-> s, completed |-> c, total |-> t, delta |-> n, edition |-> None] \in ChangeType
    BY IsChange
  <1>. QED  BY <1>7, <1>8

LEMMA EntryImported ==
  ASSUME NEW d, Sound(d), NEW g \in Games, NEW e \in EntryType, NEW now \in Days,
         NEW f, f = ImportEntry(d, g, e, now)
  PROVE  Sound(f) /\ Moved(d, f, g) /\ InLibrary(f, g) /\ (Tidy(d) => Tidy(f))
  <1>1. PICK ch \in ChangeType : ch = ImportChange(d, g, e)
    BY ImportChanges
  <1>2. PICK c : c = ApplyChange(d, g, ch, now, now)
    OBVIOUS
  <1>3. Sound(c) /\ Moved(d, c, g) /\ InLibrary(c, g) /\ (Tidy(d) => Tidy(c))
    BY <1>2, ChangeApplied
  <1>4. f = IF InLibrary(d, g) THEN c ELSE AddImportedSessions(c, g, e)
    BY <1>1, <1>2 DEF ImportEntry
  <1>5. CASE InLibrary(d, g)
    BY <1>3, <1>4, <1>5
  <1>6. CASE ~InLibrary(d, g)
    <2>1. Sound(f) /\ Moved(c, f, g) /\ InLibrary(f, g) /\ (Tidy(c) => Tidy(f))
      BY <1>3, <1>4, <1>6, DiaryImported DEF InLibrary
    <2>. QED  BY <1>3, <2>1, MovedOn
  <1>. QED  BY <1>5, <1>6

----------------------------------------------------------------------------
(* Ids have one owner.                                                     *)

\* The databases and the sets of snapshots that know an id as one of game g's.
ClaimsRun(D, K, r, g) ==
  \/ \E d \in D : r \in RunsOf(d, g)
  \/ \E k \in K : g \in DOMAIN k /\ r \in DOMAIN k[g].runs
ClaimsSession(D, K, s, g) ==
  \/ \E d \in D : s \in SessionsOf(d, g)
  \/ \E k \in K : g \in DOMAIN k /\ s \in DOMAIN k[g].sessions

\* Databases D and sets of snapshots K that fit together, with no id above
\* rs and ss: whatever some of them forgot, an id is of one game in all.
Coherent(D, K, rs, ss) ==
  /\ \A d \in D : Sound(d) /\ d.runSeq <= rs /\ d.sessSeq <= ss
  /\ \A k \in K : \A g \in DOMAIN k :
       /\ g \in Games /\ IsSnapshot(g, k[g])
       /\ DOMAIN k[g].runs \subseteq 1..rs /\ DOMAIN k[g].sessions \subseteq 1..ss
  /\ \A g, h \in Games :
       /\ \A r \in 1..rs : ClaimsRun(D, K, r, g) /\ ClaimsRun(D, K, r, h) => g = h
       /\ \A s \in 1..ss : ClaimsSession(D, K, s, g) /\ ClaimsSession(D, K, s, h) => g = h

\* What is claimed is within the bounds.
LEMMA Claimed ==
  ASSUME NEW D, NEW K, NEW rs \in Nat, NEW ss \in Nat, Coherent(D, K, rs, ss), NEW g
  PROVE  /\ \A r : ClaimsRun(D, K, r, g) => r \in 1..rs /\ g \in Games
         /\ \A s : ClaimsSession(D, K, s, g) => s \in 1..ss /\ g \in Games
  <1>1. ASSUME NEW r, ClaimsRun(D, K, r, g) PROVE r \in 1..rs /\ g \in Games
    <2>1. CASE \E d \in D : r \in RunsOf(d, g)
      <3>1. PICK d \in D : r \in DOMAIN d.runs /\ d.runs[r].game = g
        BY <2>1 DEF RunsOf
      <3>2. r \in 1..d.runSeq /\ d.runs[r] \in RunType /\ d.runSeq \in Nat /\ d.runSeq <= rs
        BY <3>1 DEF Coherent, Sound, DBTypeOK, Tables
      <3>. QED  BY <3>1, <3>2, RunFields
    <2>2. CASE \E k \in K : g \in DOMAIN k /\ r \in DOMAIN k[g].runs
      BY <2>2 DEF Coherent
    <2>. QED  BY <1>1, <2>1, <2>2 DEF ClaimsRun
  <1>2. ASSUME NEW s, ClaimsSession(D, K, s, g) PROVE s \in 1..ss /\ g \in Games
    <2>1. CASE \E d \in D : s \in SessionsOf(d, g)
      <3>1. PICK d \in D : s \in DOMAIN d.sessions /\ d.sessions[s].game = g
        BY <2>1 DEF SessionsOf
      <3>2. s \in 1..d.sessSeq /\ d.sessions[s] \in SessionType /\ d.sessSeq \in Nat /\ d.sessSeq <= ss
        BY <3>1 DEF Coherent, Sound, DBTypeOK, Tables
      <3>. QED  BY <3>1, <3>2, SessionFields
    <2>2. CASE \E k \in K : g \in DOMAIN k /\ s \in DOMAIN k[g].sessions
      BY <2>2 DEF Coherent
    <2>. QED  BY <1>2, <2>1, <2>2 DEF ClaimsSession
  <1>. QED  BY <1>1, <1>2

\* Databases and snapshots that are forgotten claim nothing.
LEMMA Forgotten ==
  ASSUME NEW D, NEW K, NEW rs \in Nat, NEW ss \in Nat, Coherent(D, K, rs, ss),
         NEW E, E \subseteq D, NEW L, L \subseteq K
  PROVE  Coherent(E, L, rs, ss)
  <1>1. \A r, h : ClaimsRun(E, L, r, h) => ClaimsRun(D, K, r, h)
    BY DEF ClaimsRun
  <1>2. \A s, h : ClaimsSession(E, L, s, h) => ClaimsSession(D, K, s, h)
    BY DEF ClaimsSession
  <1>3. /\ \A d \in E : Sound(d) /\ d.runSeq <= rs /\ d.sessSeq <= ss
        /\ \A k \in L : \A h \in DOMAIN k :
             /\ h \in Games /\ IsSnapshot(h, k[h])
             /\ DOMAIN k[h].runs \subseteq 1..rs /\ DOMAIN k[h].sessions \subseteq 1..ss
    BY DEF Coherent
  <1>. QED  BY <1>1, <1>2, <1>3 DEF Coherent

\* One more database, the work of one statement on a game in one of them.
LEMMA Grows ==
  ASSUME NEW D, NEW K, NEW d \in D, Coherent(D, K, d.runSeq, d.sessSeq), NEW g \in Games,
         NEW e, Sound(e), Moved(d, e, g)
  PROVE  Coherent(D \cup {e}, K, e.runSeq, e.sessSeq)
  <1>1. /\ d.runSeq \in Nat /\ d.sessSeq \in Nat /\ e.runSeq \in Nat /\ e.sessSeq \in Nat
        /\ d.runSeq <= e.runSeq /\ d.sessSeq <= e.sessSeq
    BY DEF Coherent, Sound, Tables, Moved
  <1>2. \A r, h : ClaimsRun(D \cup {e}, K, r, h) => ClaimsRun(D, K, r, h) \/ (r > d.runSeq /\ h = g)
    <2>1. \A r, h : r \in RunsOf(e, h) => r \in RunsOf(d, h) \/ (r > d.runSeq /\ h = g)
      BY DEF Moved, Descends, RunsOf
    <2>. QED  BY <2>1 DEF ClaimsRun
  <1>3. \A s, h : ClaimsSession(D \cup {e}, K, s, h) => ClaimsSession(D, K, s, h) \/ (s > d.sessSeq /\ h = g)
    <2>1. \A s, h : s \in SessionsOf(e, h) => s \in SessionsOf(d, h) \/ (s > d.sessSeq /\ h = g)
      BY DEF Moved, Descends, SessionsOf
    <2>. QED  BY <2>1 DEF ClaimsSession
  <1>4. \A c \in D \cup {e} : Sound(c) /\ c.runSeq <= e.runSeq /\ c.sessSeq <= e.sessSeq
    <2>1. TAKE c \in D \cup {e}
    <2>2. CASE c = e
      BY <1>1, <2>2
    <2>3. CASE c \in D
      BY <1>1, <2>3 DEF Coherent, Sound, Tables
    <2>. QED  BY <2>2, <2>3
  <1>5. \A k \in K : \A h \in DOMAIN k :
           /\ h \in Games /\ IsSnapshot(h, k[h])
           /\ DOMAIN k[h].runs \subseteq 1..e.runSeq /\ DOMAIN k[h].sessions \subseteq 1..e.sessSeq
    BY <1>1 DEF Coherent
  <1>6. /\ \A r, h : ClaimsRun(D, K, r, h) => r \in 1..d.runSeq
        /\ \A s, h : ClaimsSession(D, K, s, h) => s \in 1..d.sessSeq
    <2>1. PICK rs \in Nat : rs = d.runSeq
      BY <1>1
    <2>2. PICK ss \in Nat : ss = d.sessSeq
      BY <1>1
    <2>3. Coherent(D, K, rs, ss)
      BY <2>1, <2>2
    <2>. QED  BY <2>1, <2>2, <2>3, Claimed
  <1>7. ASSUME NEW h \in Games, NEW i \in Games, NEW r, ClaimsRun(D \cup {e}, K, r, h), ClaimsRun(D \cup {e}, K, r, i)
        PROVE  h = i
    <2>1. /\ ClaimsRun(D, K, r, h) \/ (r > d.runSeq /\ h = g)
          /\ ClaimsRun(D, K, r, i) \/ (r > d.runSeq /\ i = g)
      BY <1>2, <1>7
    <2>2. r \in 1..d.runSeq => ~ (r > d.runSeq)
      BY <1>1
    <2>. QED  BY <1>6, <2>1, <2>2 DEF Coherent
  <1>8. ASSUME NEW h \in Games, NEW i \in Games, NEW s, ClaimsSession(D \cup {e}, K, s, h), ClaimsSession(D \cup {e}, K, s, i)
        PROVE  h = i
    <2>1. /\ ClaimsSession(D, K, s, h) \/ (s > d.sessSeq /\ h = g)
          /\ ClaimsSession(D, K, s, i) \/ (s > d.sessSeq /\ i = g)
      BY <1>3, <1>8
    <2>2. s \in 1..d.sessSeq => ~ (s > d.sessSeq)
      BY <1>1
    <2>. QED  BY <1>6, <2>1, <2>2 DEF Coherent
  <1>. QED  BY <1>4, <1>5, <1>7, <1>8 DEF Coherent

\* One more set of snapshots, of one more game.
LEMMA Keeps ==
  ASSUME NEW D, NEW K, NEW d \in D, Coherent(D, K, d.runSeq, d.sessSeq), NEW g \in Games,
         NEW k, k \in K \/ k = <<>>, NEW l, l = Over(SnapshotOf(d, g), k)
  PROVE  Coherent(D, K \cup {l}, d.runSeq, d.sessSeq)
  <1>1. d.runSeq \in Nat /\ d.sessSeq \in Nat /\ Sound(d)
    BY DEF Coherent, Sound, Tables
  <1>2. PICK snap : snap = Snapshot(d, g)
    OBVIOUS
  <1>3. /\ IsSnapshot(g, snap)
        /\ DOMAIN snap.runs \subseteq RunsOf(d, g) /\ DOMAIN snap.sessions \subseteq SessionsOf(d, g)
    BY <1>1, <1>2, SnapshotTaken
  <1>4. DOMAIN l = DOMAIN k \cup {g} /\ l[g] = snap /\ \A h \in DOMAIN k \ {g} : l[h] = k[h]
    BY <1>2 DEF Over, SnapshotOf
  <1>5. k \in K \/ DOMAIN k = {}
    OBVIOUS
  <1>6. /\ \A r : r \in RunsOf(d, g) => r \in 1..d.runSeq
        /\ \A s : s \in SessionsOf(d, g) => s \in 1..d.sessSeq
    BY <1>1 DEF Sound, DBTypeOK, RunsOf, SessionsOf
  <1>7. \A m \in K \cup {l} : \A h \in DOMAIN m :
           /\ h \in Games /\ IsSnapshot(h, m[h])
           /\ DOMAIN m[h].runs \subseteq 1..d.runSeq /\ DOMAIN m[h].sessions \subseteq 1..d.sessSeq
    <2>1. \A m \in K : \A h \in DOMAIN m :
             /\ h \in Games /\ IsSnapshot(h, m[h])
             /\ DOMAIN m[h].runs \subseteq 1..d.runSeq /\ DOMAIN m[h].sessions \subseteq 1..d.sessSeq
      BY DEF Coherent
    <2>2. ASSUME NEW h \in DOMAIN l
          PROVE  /\ h \in Games /\ IsSnapshot(h, l[h])
                 /\ DOMAIN l[h].runs \subseteq 1..d.runSeq /\ DOMAIN l[h].sessions \subseteq 1..d.sessSeq
      <3>1. CASE h = g
        BY <1>3, <1>4, <1>6, <3>1
      <3>2. CASE h # g
        BY <1>4, <1>5, <2>1, <3>2
      <3>. QED  BY <3>1, <3>2
    <2>. QED  BY <2>1, <2>2
  <1>8. \A r, h : ClaimsRun(D, K \cup {l}, r, h) => ClaimsRun(D, K, r, h)
    <2>1. \A r, h : h \in DOMAIN l /\ r \in DOMAIN l[h].runs =>
             r \in RunsOf(d, h) \/ (k \in K /\ h \in DOMAIN k /\ r \in DOMAIN k[h].runs)
      BY <1>3, <1>4, <1>5
    <2>. QED  BY <2>1 DEF ClaimsRun
  <1>9. \A s, h : ClaimsSession(D, K \cup {l}, s, h) => ClaimsSession(D, K, s, h)
    <2>1. \A s, h : h \in DOMAIN l /\ s \in DOMAIN l[h].sessions =>
             s \in SessionsOf(d, h) \/ (k \in K /\ h \in DOMAIN k /\ s \in DOMAIN k[h].sessions)
      BY <1>3, <1>4, <1>5
    <2>. QED  BY <2>1 DEF ClaimsSession
  <1>. QED  BY <1>7, <1>8, <1>9 DEF Coherent

\* What every snapshot relies on, in every database it knows of.
LEMMA Applies ==
  ASSUME NEW D, NEW K, NEW rs \in Nat, NEW ss \in Nat, Coherent(D, K, rs, ss),
         NEW d \in D, NEW k \in K, NEW g \in DOMAIN k
  PROVE  Restorable(d, g, k[g])
  <1>1. PICK snap : snap = k[g]
    OBVIOUS
  <1>2. /\ g \in Games /\ IsSnapshot(g, snap) /\ Sound(d)
        /\ DOMAIN snap.runs \subseteq 1..rs /\ DOMAIN snap.sessions \subseteq 1..ss
    BY <1>1 DEF Coherent
  <1>3. PICK e : e = IF InLibrary(d, g) THEN DeleteRow(d, g) ELSE d
    OBVIOUS
  <1>4. /\ \A r \in DOMAIN e.runs : r \in DOMAIN d.runs /\ d.runs[r].game # g
        /\ \A s \in DOMAIN e.sessions : s \in DOMAIN d.sessions /\ d.sessions[s].game # g
    <2>1. CASE InLibrary(d, g)
      <3>1. e = DeleteRow(d, g)
        BY <1>3, <2>1
      <3>. QED  BY <1>2, <3>1, RowDeleted DEF RunsOf, SessionsOf
    <2>2. CASE ~InLibrary(d, g)
      BY <1>2, <1>3, <2>2 DEF Sound, Owned
    <2>. QED  BY <2>1, <2>2
  <1>5. ASSUME NEW r \in DOMAIN snap.runs PROVE r \notin DOMAIN e.runs
    <2>1. SUFFICES ASSUME r \in DOMAIN e.runs PROVE FALSE
      OBVIOUS
    <2>2. PICK h : h = d.runs[r].game
      OBVIOUS
    <2>3. ClaimsRun(D, K, r, g) /\ ClaimsRun(D, K, r, h) /\ h # g
      BY <1>1, <1>4, <2>1, <2>2 DEF ClaimsRun, RunsOf
    <2>4. r \in 1..rs /\ h \in Games
      BY <2>3, Claimed
    <2>. QED  BY <1>2, <2>3, <2>4 DEF Coherent
  <1>6. ASSUME NEW s \in DOMAIN snap.sessions PROVE s \notin DOMAIN e.sessions
    <2>1. SUFFICES ASSUME s \in DOMAIN e.sessions PROVE FALSE
      OBVIOUS
    <2>2. PICK h : h = d.sessions[s].game
      OBVIOUS
    <2>3. ClaimsSession(D, K, s, g) /\ ClaimsSession(D, K, s, h) /\ h # g
      BY <1>1, <1>4, <2>1, <2>2 DEF ClaimsSession, SessionsOf
    <2>4. s \in 1..ss /\ h \in Games
      BY <2>3, Claimed
    <2>. QED  BY <1>2, <2>3, <2>4 DEF Coherent
  <1>7. \A s \in DOMAIN snap.sessions : snap.sessions[s].run \in DOMAIN snap.runs \cup {None}
    BY <1>2 DEF IsSnapshot
  <1>. QED  BY <1>1, <1>3, <1>5, <1>6, <1>7 DEF Restorable

\* One more database, with a snapshot put back.
LEMMA Restores ==
  ASSUME NEW D, NEW K, NEW d \in D, Coherent(D, K, d.runSeq, d.sessSeq),
         NEW k \in K, NEW g \in DOMAIN k, NEW e, e = RestoreItem(d, g, k[g])
  PROVE  /\ Sound(e) /\ Stamped(d, e) /\ e.runSeq = d.runSeq /\ e.sessSeq = d.sessSeq
         /\ Coherent(D \cup {e}, K, e.runSeq, e.sessSeq)
  <1>1. PICK snap : snap = k[g]
    OBVIOUS
  <1>2. /\ g \in Games /\ IsSnapshot(g, snap) /\ Sound(d) /\ d.runSeq \in Nat /\ d.sessSeq \in Nat
        /\ DOMAIN snap.runs \subseteq 1..d.runSeq /\ DOMAIN snap.sessions \subseteq 1..d.sessSeq
    BY <1>1 DEF Coherent, Sound, Tables
  <1>3. Restorable(d, g, snap)
    BY <1>1, <1>2, Applies
  <1>4. e = RestoreItem(d, g, snap)
    BY <1>1
  <1>5. /\ Sound(e) /\ Stamped(d, e) /\ e.runSeq = d.runSeq /\ e.sessSeq = d.sessSeq
        /\ \A r \in DOMAIN e.runs : \/ r \in DOMAIN d.runs /\ e.runs[r].game = d.runs[r].game
                                    \/ r \in DOMAIN snap.runs /\ e.runs[r].game = g
        /\ \A s \in DOMAIN e.sessions : \/ s \in DOMAIN d.sessions /\ e.sessions[s].game = d.sessions[s].game
                                        \/ s \in DOMAIN snap.sessions /\ e.sessions[s].game = g
    BY <1>2, <1>3, <1>4, SnapshotRestored
  <1>6. \A r, h : ClaimsRun(D \cup {e}, K, r, h) => ClaimsRun(D, K, r, h)
    <2>1. \A r, h : r \in RunsOf(e, h) => r \in RunsOf(d, h) \/ (h = g /\ r \in DOMAIN k[g].runs)
      BY <1>1, <1>5 DEF RunsOf
    <2>. QED  BY <2>1 DEF ClaimsRun
  <1>7. \A s, h : ClaimsSession(D \cup {e}, K, s, h) => ClaimsSession(D, K, s, h)
    <2>1. \A s, h : s \in SessionsOf(e, h) => s \in SessionsOf(d, h) \/ (h = g /\ s \in DOMAIN k[g].sessions)
      BY <1>1, <1>5 DEF SessionsOf
    <2>. QED  BY <2>1 DEF ClaimsSession
  <1>8. \A c \in D \cup {e} : Sound(c) /\ c.runSeq <= e.runSeq /\ c.sessSeq <= e.sessSeq
    BY <1>2, <1>5 DEF Coherent
  <1>9. \A m \in K : \A h \in DOMAIN m :
           /\ h \in Games /\ IsSnapshot(h, m[h])
           /\ DOMAIN m[h].runs \subseteq 1..e.runSeq /\ DOMAIN m[h].sessions \subseteq 1..e.sessSeq
    BY <1>5 DEF Coherent
  <1>10. Coherent(D \cup {e}, K, e.runSeq, e.sessSeq)
    BY <1>5, <1>6, <1>7, <1>8, <1>9 DEF Coherent
  <1>. QED  BY <1>5, <1>10

\* The same tables in a new transaction.
LEMMA Refreshed ==
  ASSUME NEW d, Sound(d), NEW e, e = Fresh(d)
  PROVE  /\ Sound(e) /\ e.runs = d.runs /\ e.sessions = d.sessions /\ e.items = d.items
         /\ e.runSeq = d.runSeq /\ e.sessSeq = d.sessSeq /\ e.touched = {}
  <1>1. e = [items |-> d.items, runs |-> d.runs, sessions |-> d.sessions,
             runSeq |-> d.runSeq, sessSeq |-> d.sessSeq, touched |-> {}]
    BY DEF Fresh, Sound, Tables
  <1>2. Tables(e)
    BY <1>1 DEF Sound, Tables
  <1>3. DBTypeOK(e)
    BY <1>1 DEF Sound, DBTypeOK
  <1>4. Owned(e)
    BY <1>1 DEF Sound, Owned, RunsOf, InLibrary
  <1>. QED  BY <1>1, <1>2, <1>3, <1>4 DEF Sound

LEMMA StartsFresh ==
  ASSUME NEW D, NEW K, NEW d \in D, Coherent(D, K, d.runSeq, d.sessSeq), NEW e, e = Fresh(d)
  PROVE  Coherent(D \cup {e}, K, e.runSeq, e.sessSeq)
  <1>1. /\ Sound(e) /\ e.runs = d.runs /\ e.sessions = d.sessions
        /\ e.runSeq = d.runSeq /\ e.sessSeq = d.sessSeq /\ e.runSeq \in Nat /\ e.sessSeq \in Nat
    BY Refreshed DEF Coherent, Sound, Tables
  <1>2. \A r, h : ClaimsRun(D \cup {e}, K, r, h) => ClaimsRun(D, K, r, h)
    BY <1>1 DEF ClaimsRun, RunsOf
  <1>3. \A s, h : ClaimsSession(D \cup {e}, K, s, h) => ClaimsSession(D, K, s, h)
    BY <1>1 DEF ClaimsSession, SessionsOf
  <1>. QED  BY <1>1, <1>2, <1>3 DEF Coherent

----------------------------------------------------------------------------
(* The invariant.                                                          *)

\* The snapshots that undos and import batches hold.
Kept == {undoLog[u] : u \in DOMAIN undoLog} \cup {batches[b] : b \in DOMAIN batches}

LogOK ==
  /\ \A a \in activity : a.undo \in 1..issued.undo /\ a.game \in Games
  /\ issued \in [undo : 0..MaxWrites, batch : 0..MaxImports]

\* An open transaction: what is left to do is what its argument says.
TxOK ==
  Idle \/
  /\ tx = [op |-> tx.op, arg |-> tx.arg, chosen |-> tx.chosen, todo |-> tx.todo,
           work |-> tx.work, snaps |-> tx.snaps, events |-> tx.events]
  /\ tx.todo \subseteq Games /\ \A e \in tx.events : e[1] \in Games
  /\ tx.op = "bulk" => tx.arg \in Statuses
  /\ tx.op = "undo" => tx.arg \in DOMAIN undoLog /\ tx.todo \subseteq DOMAIN undoLog[tx.arg]
  /\ tx.op = "undoImport" => tx.arg \in DOMAIN batches /\ tx.todo \subseteq DOMAIN batches[tx.arg]
  /\ tx.op = "import" => issued.batch < MaxImports /\ \A g \in tx.todo : tx.arg[g] \in EntryType

\* What is committed fits together as it is, for a rollback may come, and
\* fits together with what the open transaction is about to publish.
Committed == Coherent({db}, Kept, db.runSeq, db.sessSeq)
Opened ==
  Idle \/
  /\ Coherent({db, tx.work}, Kept \cup {tx.snaps}, tx.work.runSeq, tx.work.sessSeq)
  /\ Stamped(Fresh(db), tx.work)

JournalInv == LogOK /\ TxOK /\ Committed /\ Opened

\* Every row that a step changes is stamped.
StampsChanges == \A g \in Games : RowOf(db', g) # RowOf(db, g) => g \in db'.touched

THEOREM InitInv == Init => JournalInv
  <1>1. SUFFICES ASSUME Init PROVE JournalInv
    OBVIOUS
  <1>2. db = EmptyDB /\ Kept = {} /\ tx = NoTx /\ activity = {} /\ issued = [undo |-> 0, batch |-> 0]
    BY <1>1 DEF Init, Kept
  <1>3. Sound(db)
    <2>1. DOMAIN db.items = {} /\ DOMAIN db.runs = {} /\ DOMAIN db.sessions = {} /\ db.touched = {}
          /\ db.runSeq = 0 /\ db.sessSeq = 0
      BY <1>2 DEF EmptyDB
    <2>2. Tables(db)
      BY <1>2 DEF Tables, EmptyDB
    <2>. QED  BY <2>1, <2>2 DEF Sound, DBTypeOK, Owned
  <1>4. Committed
    <2>1. db.runSeq = 0 /\ db.sessSeq = 0
      BY <1>2 DEF EmptyDB
    <2>2. 1..0 = {}
      OBVIOUS
    <2>. QED  BY <1>2, <1>3, <2>1, <2>2 DEF Committed, Coherent
  <1>5. LogOK
    BY <1>2, BoundsAssumption DEF LogOK
  <1>. QED  BY <1>2, <1>4, <1>5 DEF JournalInv, TxOK, Opened, Idle

\* Snapshots that hold the same, or nothing.
LEMMA SameSnapshots ==
  ASSUME NEW D, NEW K, NEW k, k \in K \/ DOMAIN k = {}, NEW rs, NEW ss, Coherent(D, K, rs, ss),
         NEW l, DOMAIN l = DOMAIN k, \A h \in DOMAIN k : l[h] = k[h]
  PROVE  Coherent(D, K \cup {l}, rs, ss)
  <1>1. \A r, h : ClaimsRun(D, K \cup {l}, r, h) => ClaimsRun(D, K, r, h)
    BY DEF ClaimsRun
  <1>2. \A s, h : ClaimsSession(D, K \cup {l}, s, h) => ClaimsSession(D, K, s, h)
    BY DEF ClaimsSession
  <1>3. \A m \in K \cup {l} : \A h \in DOMAIN m :
           /\ h \in Games /\ IsSnapshot(h, m[h])
           /\ DOMAIN m[h].runs \subseteq 1..rs /\ DOMAIN m[h].sessions \subseteq 1..ss
    BY DEF Coherent
  <1>. QED  BY <1>1, <1>2, <1>3 DEF Coherent

LEMMA NoTransaction ==
  ASSUME LogOK', Committed', tx' = NoTx
  PROVE  JournalInv'
  BY DEF JournalInv, TxOK, Opened, Idle

\* What a commit publishes.
LEMMA Published ==
  ASSUME JournalInv, NEW d, NEW snaps, NEW events, Publish(d, snaps, events),
         Coherent({d}, Kept \cup {snaps}, d.runSeq, d.sessSeq), \A e \in events : e[1] \in Games
  PROVE  LogOK' /\ Committed' /\ db' = d
  <1>1. db' = d /\ batches' = batches
    BY DEF Publish
  <1>2. d.runSeq \in Nat /\ d.sessSeq \in Nat
    BY DEF Coherent, Sound, Tables
  <1>3. LogOK' /\ Kept' \subseteq Kept \cup {snaps}
    <2>1. CASE DOMAIN snaps = {}
      <3>1. undoLog' = undoLog /\ activity' = activity /\ issued' = issued
        BY <2>1 DEF Publish
      <3>. QED  BY <1>1, <3>1 DEF Kept, LogOK, JournalInv
    <2>2. CASE DOMAIN snaps # {}
      <3>1. /\ issued.undo < MaxWrites /\ issued' = [issued EXCEPT !.undo = @ + 1]
            /\ undoLog' = Put(undoLog, issued'.undo, snaps)
            /\ activity' = activity \cup
                 {[undo |-> issued'.undo, game |-> e[1], kind |-> e[2]] : e \in events}
        BY <2>2 DEF Publish
      <3>2. issued \in [undo : 0..MaxWrites, batch : 0..MaxImports] /\ MaxWrites \in Nat /\ MaxImports \in Nat
        BY BoundsAssumption DEF JournalInv, LogOK
      <3>3. /\ issued' \in [undo : 0..MaxWrites, batch : 0..MaxImports]
            /\ issued'.undo = issued.undo + 1 /\ issued.undo \in Nat
        BY <3>1, <3>2
      <3>4. \A a \in activity' : a.undo \in 1..issued'.undo /\ a.game \in Games
        <4>1. TAKE a \in activity'
        <4>2. CASE a \in activity
          <5>1. a.undo \in 1..issued.undo /\ a.game \in Games
            BY <4>2 DEF JournalInv, LogOK
          <5>. QED  BY <3>3, <5>1
        <4>3. CASE a \notin activity
          <5>1. PICK e \in events : a = [undo |-> issued'.undo, game |-> e[1], kind |-> e[2]]
            BY <3>1, <4>3
          <5>2. a.undo = issued'.undo /\ a.game = e[1]
            BY <5>1
          <5>. QED  BY <3>3, <5>2
        <4>. QED  BY <4>2, <4>3
      <3>5. Kept' \subseteq Kept \cup {snaps}
        BY <1>1, <3>1 DEF Kept, Put
      <3>. QED  BY <3>3, <3>4, <3>5 DEF LogOK
    <2>. QED  BY <2>1, <2>2
  <1>4. Coherent({d}, Kept', d.runSeq, d.sessSeq)
    <2>1. PICK L : L = Kept'
      OBVIOUS
    <2>2. PICK K : K = Kept \cup {snaps} /\ L \subseteq K
      BY <1>3, <2>1
    <2>3. PICK rs \in Nat, ss \in Nat : rs = d.runSeq /\ ss = d.sessSeq
      BY <1>2
    <2>4. Coherent({d}, K, rs, ss)
      BY <2>2, <2>3
    <2>5. Coherent({d}, L, rs, ss)
      BY <2>2, <2>4, Forgotten
    <2>. QED  BY <2>1, <2>3, <2>5
  <1>5. Committed'
    BY <1>1, <1>4 DEF Committed
  <1>. QED  BY <1>1, <1>3, <1>5

----------------------------------------------------------------------------
(* Operations on one game.                                                 *)

LEMMA PartialChanges ==
  /\ NoChange \in ChangeType
  /\ \A st \in Statuses : [NoChange EXCEPT !.status = st] \in ChangeType
  /\ \A m \in Int : [NoChange EXCEPT !.delta = m] \in ChangeType
  <1>1. PICK z \in Int : z = 0
    OBVIOUS
  <1>2. PICK e : e = ""
    OBVIOUS
  <1>3. PICK n : n = NoChange
    OBVIOUS
  <1>4. n = [status |-> e, started |-> Keep, completed |-> Keep, total |-> Keep, delta |-> z, edition |-> None]
    BY <1>1, <1>2, <1>3 DEF NoChange
  <1>5. e \in Statuses \cup {""} /\ Keep \in MaybeDay \cup {Keep} /\ Keep \in Nat \cup {Keep}
    BY <1>2
  <1>6. n \in ChangeType
    BY <1>4, <1>5, IsChange
  <1>7. ASSUME NEW m \in Int PROVE [n EXCEPT !.delta = m] \in ChangeType
    <2>1. [n EXCEPT !.delta = m] = [status |-> e, started |-> Keep, completed |-> Keep,
                                    total |-> Keep, delta |-> m, edition |-> None]
      BY <1>4
    <2>2. [status |-> e, started |-> Keep, completed |-> Keep,
           total |-> Keep, delta |-> m, edition |-> None] \in ChangeType
      BY <1>5, IsChange
    <2>. QED  BY <2>1, <2>2
  <1>8. ASSUME NEW st \in Statuses PROVE [n EXCEPT !.status = st] \in ChangeType
    <2>1. [n EXCEPT !.status = st] = [status |-> st, started |-> Keep, completed |-> Keep,
                                      total |-> Keep, delta |-> z, edition |-> None]
      BY <1>4
    <2>2. st \in Statuses \cup {""}
      OBVIOUS
    <2>3. [status |-> st, started |-> Keep, completed |-> Keep,
           total |-> Keep, delta |-> z, edition |-> None] \in ChangeType
      BY <1>5, <2>2, IsChange
    <2>. QED  BY <2>1, <2>3
  <1>. QED  BY <1>3, <1>6, <1>7, <1>8

\* Committed at once: the work of statements on one game in a new transaction.
LEMMA Written ==
  ASSUME JournalInv, Idle, NEW g \in Games, NEW f, f = Fresh(db), NEW d, Sound(d), Moved(f, d, g),
         NEW kinds, WriteOne(d, g, kinds)
  PROVE  JournalInv' /\ StampsChanges
  <1>1. Coherent({db}, Kept, db.runSeq, db.sessSeq) /\ Sound(db)
    BY DEF JournalInv, Committed, Coherent
  <1>2. PICK snaps : snaps = SnapshotOf(db, g)
    OBVIOUS
  <1>3. PICK K : K = Kept \cup {snaps}
    OBVIOUS
  <1>4. Coherent({db}, K, db.runSeq, db.sessSeq)
    <2>1. snaps = Over(SnapshotOf(db, g), <<>>)
      BY <1>2 DEF Over, SnapshotOf
    <2>2. db \in {db}
      OBVIOUS
    <2>. QED  BY <1>1, <1>3, <2>1, <2>2, Keeps
  <1>5. PICK D : D = {db} \cup {f}
    OBVIOUS
  <1>6. Coherent(D, K, f.runSeq, f.sessSeq) /\ f \in D
    <2>1. db \in {db}
      OBVIOUS
    <2>. QED  BY <1>4, <1>5, <2>1, StartsFresh
  <1>7. Coherent(D \cup {d}, K, d.runSeq, d.sessSeq)
    BY <1>6, Grows
  <1>8. Coherent({d}, K, d.runSeq, d.sessSeq)
    <2>1. PICK E : E = D \cup {d} /\ {d} \subseteq E
      OBVIOUS
    <2>2. PICK rs \in Nat, ss \in Nat : rs = d.runSeq /\ ss = d.sessSeq
      BY DEF Sound, Tables
    <2>3. Coherent(E, K, rs, ss)
      BY <1>7, <2>1, <2>2
    <2>4. Coherent({d}, K, rs, ss)
      BY <2>1, <2>3, Forgotten
    <2>. QED  BY <2>2, <2>4
  <1>9. PICK events : events = {<<g, k>> : k \in kinds} /\ \A e \in events : e[1] \in Games
    <2>1. \A e \in {<<g, k>> : k \in kinds} : e[1] \in Games
      OBVIOUS
    <2>. QED  BY <2>1
  <1>10. Publish(d, snaps, events) /\ tx' = tx
    BY <1>2, <1>9 DEF WriteOne
  <1>11. LogOK' /\ Committed' /\ db' = d
    BY <1>3, <1>8, <1>9, <1>10, Published
  <1>12. StampsChanges
    <2>1. f.items = db.items
      BY <1>1, Refreshed
    <2>2. \A h \in Games : RowOf(f, h) = RowOf(db, h)
      BY <2>1 DEF RowOf, InLibrary
    <2>. QED  BY <1>11, <2>2 DEF StampsChanges, Moved, Stamped
  <1>. QED  BY <1>10, <1>11, <1>12, NoTransaction DEF Idle

LEMMA WriteKeeps ==
  ASSUME JournalInv, Idle, NEW g \in Games, NEW ch \in ChangeType, NEW day \in Days, NEW now \in Days,
         Write(g, ch, day, now)
  PROVE  JournalInv' /\ StampsChanges
  <1>1. PICK f : f = Fresh(db)
    OBVIOUS
  <1>2. PICK d : d = ApplyChange(f, g, ch, day, now)
    OBVIOUS
  <1>3. Sound(f)
    BY <1>1, Refreshed DEF JournalInv, Committed, Coherent
  <1>4. Sound(d) /\ Moved(f, d, g)
    BY <1>2, <1>3, ChangeApplied
  <1>5. PICK kinds : WriteOne(d, g, kinds)
    BY <1>1, <1>2 DEF Write
  <1>. QED  BY <1>1, <1>4, <1>5, Written

LEMMA WriteNextKeeps ==
  ASSUME JournalInv, WriteNext
  PROVE  JournalInv' /\ StampsChanges
  <1>1. PICK g \in Games :
          \/ \E ch \in Changes, day, now \in Days : Patch(g, ch, day, now) \/ Upsert(g, ch, day, now)
          \/ \E m \in Lengths, day \in Days : LogSession(g, m, day)
          \/ \E m \in Lengths, source \in {"steam", "timer"} : LogOnRun(g, m, source)
          \/ Delete(g)
    BY DEF WriteNext
  <1>0. PICK f : f = Fresh(db)
    OBVIOUS
  <1>f. /\ Sound(f) /\ f.items = db.items /\ f.runs = db.runs
        /\ Sound(db)
    BY <1>0, Refreshed DEF JournalInv, Committed, Coherent
  <1>2. ASSUME NEW ch \in Changes, NEW day \in Days, NEW now \in Days,
               Patch(g, ch, day, now) \/ Upsert(g, ch, day, now)
        PROVE  JournalInv' /\ StampsChanges
    BY <1>2, ChangesAssumption, WriteKeeps DEF Patch, Upsert
  <1>3. ASSUME NEW m \in Lengths, NEW day \in Days, LogSession(g, m, day)
        PROVE  JournalInv' /\ StampsChanges
    <2>1. PICK ch \in ChangeType : ch = [NoChange EXCEPT !.delta = m]
      <3>1. m \in Int
        BY LengthsAssumption
      <3>2. [NoChange EXCEPT !.delta = m] \in ChangeType
        BY <3>1, PartialChanges
      <3>. QED  BY <3>2
    <2>2. Idle /\ Write(g, ch, day, day)
      BY <1>3, <2>1 DEF LogSession, Patch
    <2>. QED  BY <2>2, WriteKeeps
  <1>4. ASSUME NEW m \in Lengths, NEW source \in {"steam", "timer"}, LogOnRun(g, m, source)
        PROVE  JournalInv' /\ StampsChanges
    <2>1. PICK s : s = [game |-> g, run |-> db.items[g].cur, minutes |-> m, source |-> source]
      OBVIOUS
    <2>2. g \in DOMAIN f.items /\ db.items[g].cur \in RunsOf(f, g) \cup {None} /\ db.items[g].cur \in Nat
      <3>1. g \in DOMAIN db.items
        BY <1>4 DEF LogOnRun, InLibrary
      <3>2. db.items[g] \in RowType /\ db.items[g].cur \in RunsOf(db, g) \cup {None}
        BY <1>f, <3>1 DEF Sound, DBTypeOK, Owned
      <3>. QED  BY <1>f, <3>1, <3>2, RowFields DEF RunsOf
    <2>3. s \in SessionType /\ s.game = g /\ s.run = db.items[g].cur
      <3>1. m \in Int
        BY LengthsAssumption
      <3>2. source \in Sources
        BY DEF Sources
      <3>. QED  BY <2>1, <2>2, <3>1, <3>2 DEF SessionType
    <2>4. PICK d : d = AddSession(f, s)
      OBVIOUS
    <2>5. Sound(d) /\ Moved(f, d, g)
      BY <1>f, <2>2, <2>3, <2>4, SessionAdded
    <2>6. Idle /\ WriteOne(d, g, {"logged"})
      BY <1>0, <1>4, <2>1, <2>4 DEF LogOnRun
    <2>. QED  BY <1>0, <2>5, <2>6, Written
  <1>5. ASSUME Delete(g) PROVE JournalInv' /\ StampsChanges
    <2>1. PICK d : d = DeleteRow(f, g)
      OBVIOUS
    <2>2. Sound(d) /\ Moved(f, d, g)
      BY <1>f, <2>1, RowDeleted
    <2>3. Idle /\ WriteOne(d, g, {})
      BY <1>0, <1>5, <2>1 DEF Delete
    <2>. QED  BY <1>0, <2>2, <2>3, Written
  <1>. QED  BY <1>1, <1>2, <1>3, <1>4, <1>5

LEMMA DeleteSessionKeeps ==
  ASSUME JournalInv, NEW id \in DOMAIN db.sessions, DeleteSession(id)
  PROVE  JournalInv' /\ StampsChanges
  <1>1. PICK f : f = Fresh(db)
    OBVIOUS
  <1>2. Sound(f) /\ f.sessions = db.sessions
    BY <1>1, Refreshed DEF JournalInv, Committed, Coherent
  <1>3. PICK d : d = DropSession(f, id)
    OBVIOUS
  <1>4. PICK g : g = f.sessions[id].game
    OBVIOUS
  <1>5. Sound(d) /\ Moved(f, d, g) /\ id \in DOMAIN f.sessions
    BY <1>2, <1>3, <1>4, SessionDropped
  <1>6. g \in Games
    BY <1>2, <1>4, <1>5, SessionFields DEF Sound, DBTypeOK
  <1>7. Idle /\ WriteOne(d, g, {})
    BY <1>1, <1>2, <1>3, <1>4 DEF DeleteSession
  <1>. QED  BY <1>1, <1>5, <1>6, <1>7, Written

LEMMA UpdateSessionKeeps ==
  ASSUME JournalInv, NEW id \in DOMAIN db.sessions, NEW m \in Lengths, UpdateSession(id, m)
  PROVE  JournalInv' /\ StampsChanges
  <1>1. PICK f : f = Fresh(db)
    OBVIOUS
  <1>2. Sound(f) /\ f.sessions = db.sessions /\ m \in Int
    BY <1>1, Refreshed, LengthsAssumption DEF JournalInv, Committed, Coherent
  <1>3. PICK d : d = SetMinutes(f, id, m)
    OBVIOUS
  <1>4. PICK g : g = f.sessions[id].game
    OBVIOUS
  <1>5. Sound(d) /\ Moved(f, d, g) /\ id \in DOMAIN f.sessions
    BY <1>2, <1>3, <1>4, SessionChanged
  <1>6. g \in Games
    BY <1>2, <1>4, <1>5, SessionFields DEF Sound, DBTypeOK
  <1>7. Idle /\ WriteOne(d, g, {})
    BY <1>1, <1>2, <1>3, <1>4 DEF UpdateSession
  <1>. QED  BY <1>1, <1>5, <1>6, <1>7, Written

LEMMA EditFields ==
  ASSUME NEW run \in RunType, NEW edit \in RunEditType, NEW now, now = EditedRun(run, edit)
  PROVE  /\ now \in RunType /\ now.game = run.game
         /\ now.finished = IF edit.finished # Keep THEN edit.finished ELSE run.finished
  <1>1. PICK s \in MaybeDay : s = IF edit.started # Keep THEN edit.started ELSE run.started
    BY RunFields DEF RunEditType
  <1>2. PICK e \in MaybeDay : e = IF edit.finished # Keep THEN edit.finished ELSE run.finished
    BY RunFields DEF RunEditType
  <1>3. now = [run EXCEPT !.started = s, !.finished = e]
    BY <1>1, <1>2 DEF EditedRun
  <1>. QED  BY <1>2, <1>3 DEF RunType

LEMMA UpdatePlaythroughKeeps ==
  ASSUME JournalInv, NEW r \in DOMAIN db.runs, NEW edit \in RunEdits, UpdatePlaythrough(r, edit)
  PROVE  JournalInv' /\ StampsChanges
  <1>1. PICK f : f = Fresh(db)
    OBVIOUS
  <1>2. Sound(f) /\ f.runs = db.runs /\ f.items = db.items
    BY <1>1, Refreshed DEF JournalInv, Committed, Coherent
  <1>3. PICK g : g = db.runs[r].game
    OBVIOUS
  <1>4. /\ g \in Games /\ g \in DOMAIN f.items /\ f.items[g] \in RowType
        /\ f.items[g].cur \in RunsOf(f, g) \cup {None} /\ f.runs[r] \in RunType
    BY <1>2, <1>3 DEF Sound, DBTypeOK, Owned, InLibrary
  <1>5. PICK row : row = f.items[g]
    OBVIOUS
  <1>6. PICK c : c = PutRow(f, g, row)
    OBVIOUS
  <1>7. Sound(c) /\ Moved(f, c, g) /\ c.runs = f.runs
    BY <1>2, <1>4, <1>5, <1>6, RowPut
  <1>8. PICK run : run = EditedRun(c.runs[r], edit)
    OBVIOUS
  <1>9. run \in RunType /\ run.game = g
    <2>1. PICK was : was = c.runs[r]
      OBVIOUS
    <2>2. was \in RunType /\ was.game = g /\ edit \in RunEditType /\ run = EditedRun(was, edit)
      BY <1>2, <1>3, <1>4, <1>7, <1>8, <2>1, RunEditsAssumption
    <2>. QED  BY <2>2, EditFields
  <1>10. PICK d : d = [c EXCEPT !.runs = Update(c.runs, r, run)]
    OBVIOUS
  <1>11. Sound(d) /\ Moved(c, d, g)
    <2>1. r \in DOMAIN c.runs /\ run.game = c.runs[r].game
      BY <1>2, <1>3, <1>7, <1>9
    <2>2. Sound(d) /\ Moved(c, d, run.game)
      BY <1>7, <1>9, <1>10, <2>1, RunChanged
    <2>. QED  BY <1>9, <2>2
  <1>12. Moved(f, d, g)
    BY <1>2, <1>7, <1>11, MovedOn
  <1>13. Idle /\ WriteOne(d, g, {})
    BY <1>1, <1>2, <1>3, <1>5, <1>6, <1>8, <1>10 DEF UpdatePlaythrough
  <1>. QED  BY <1>1, <1>4, <1>11, <1>12, <1>13, Written

LEMMA DeletePlaythroughKeeps ==
  ASSUME JournalInv, NEW r \in DOMAIN db.runs, DeletePlaythrough(r)
  PROVE  JournalInv' /\ StampsChanges
  <1>1. PICK f : f = Fresh(db)
    OBVIOUS
  <1>2. Sound(f) /\ f.runs = db.runs
    BY <1>1, Refreshed DEF JournalInv, Committed, Coherent
  <1>3. PICK g : g = f.runs[r].game
    OBVIOUS
  <1>4. PICK c : c = DropRun(f, r)
    OBVIOUS
  <1>5. PICK d : d = IF c.items[g].cur = r THEN PutRow(c, g, [c.items[g] EXCEPT !.cur = None]) ELSE c
    OBVIOUS
  <1>6. Sound(d) /\ Moved(f, d, g)
    BY <1>2, <1>3, <1>4, <1>5, RunDropped
  <1>7. g \in Games
    BY <1>2, <1>3, RunFields DEF Sound, DBTypeOK
  <1>8. Idle /\ WriteOne(d, g, {})
    BY <1>1, <1>2, <1>3, <1>4, <1>5 DEF DeletePlaythrough
  <1>. QED  BY <1>1, <1>6, <1>7, <1>8, Written

LEMMA DiaryNextKeeps ==
  ASSUME JournalInv, DiaryNext
  PROVE  JournalInv' /\ StampsChanges
  BY DeleteSessionKeeps, UpdateSessionKeeps, UpdatePlaythroughKeeps, DeletePlaythroughKeeps DEF DiaryNext

----------------------------------------------------------------------------
(* Operations on several games.                                            *)

\* Where nothing is committed, nothing changes for readers.
LEMMA SameForReaders == db' = db => StampsChanges
  BY DEF StampsChanges

LEMMA BeginKeeps ==
  ASSUME JournalInv, NEW op, NEW arg, NEW games, Begin(op, arg, games), games \subseteq Games,
         op = "bulk" => arg \in Statuses,
         op = "undo" => arg \in DOMAIN undoLog /\ games \subseteq DOMAIN undoLog[arg],
         op = "undoImport" => arg \in DOMAIN batches /\ games \subseteq DOMAIN batches[arg],
         op = "import" => issued.batch < MaxImports /\ \A g \in games : arg[g] \in EntryType
  PROVE  JournalInv' /\ StampsChanges
  <1>1. PICK f : f = Fresh(db)
    OBVIOUS
  <1>2. /\ tx' = [op |-> op, arg |-> arg, chosen |-> games, todo |-> games,
                  work |-> f, snaps |-> <<>>, events |-> {}]
        /\ db' = db /\ undoLog' = undoLog /\ activity' = activity /\ batches' = batches /\ issued' = issued
    BY <1>1 DEF Begin
  <1>3. LogOK' /\ Committed' /\ Kept' = Kept
    BY <1>2 DEF JournalInv, LogOK, Committed, Kept
  <1>4. TxOK'
    BY <1>2 DEF TxOK
  <1>5. Coherent({db, f}, Kept \cup {<<>>}, f.runSeq, f.sessSeq)
    <2>1. Coherent({db}, Kept, db.runSeq, db.sessSeq) /\ db \in {db}
      BY DEF JournalInv, Committed
    <2>2. PICK K : K = Kept \cup {<<>>}
      OBVIOUS
    <2>3. Coherent({db}, K, db.runSeq, db.sessSeq)
      BY <2>1, <2>2, SameSnapshots
    <2>4. Coherent({db} \cup {f}, K, f.runSeq, f.sessSeq)
      BY <1>1, <2>1, <2>3, StartsFresh
    <2>5. {db} \cup {f} = {db, f}
      OBVIOUS
    <2>. QED  BY <2>2, <2>4, <2>5
  <1>6. Stamped(f, f)
    BY DEF Stamped
  <1>7. Opened'
    <2>1. tx'.work = f /\ tx'.snaps = <<>>
      BY <1>2
    <2>2. Fresh(db)' = f
      BY <1>1, <1>2 DEF Fresh
    <2>. QED  BY <1>2, <1>3, <1>5, <1>6, <2>1, <2>2 DEF Opened
  <1>. QED  BY <1>2, <1>3, <1>4, <1>7, SameForReaders DEF JournalInv

\* A step of an open transaction: on, with tables and snapshots that fit.
LEMMA StepKeeps ==
  ASSUME JournalInv, ~Idle, NEW g, NEW d, NEW snaps, NEW events, Worked(g, d, snaps, events),
         \A e \in events : e[1] \in Games,
         NEW l, l = Over(snaps, tx.snaps), NEW D, d \in D, db \in D,
         Coherent(D, Kept \cup {l}, d.runSeq, d.sessSeq), Stamped(tx.work, d)
  PROVE  JournalInv' /\ StampsChanges
  <1>1. /\ tx = [op |-> tx.op, arg |-> tx.arg, chosen |-> tx.chosen, todo |-> tx.todo,
                 work |-> tx.work, snaps |-> tx.snaps, events |-> tx.events]
        /\ TxOK
    BY DEF JournalInv, TxOK
  <1>2. /\ tx' = [op |-> tx.op, arg |-> tx.arg, chosen |-> tx.chosen, todo |-> tx.todo \ {g},
                  work |-> d, snaps |-> l, events |-> tx.events \cup events]
        /\ db' = db /\ undoLog' = undoLog /\ activity' = activity /\ batches' = batches /\ issued' = issued
    BY <1>1 DEF Worked
  <1>3. LogOK' /\ Committed' /\ Kept' = Kept
    BY <1>2 DEF JournalInv, LogOK, Committed, Kept
  <1>4. TxOK'
    BY <1>1, <1>2 DEF TxOK
  <1>5. Coherent({db, d}, Kept \cup {l}, d.runSeq, d.sessSeq)
    <2>1. PICK K : K = Kept \cup {l}
      OBVIOUS
    <2>2. PICK E : E = {db, d} /\ E \subseteq D
      OBVIOUS
    <2>3. PICK rs \in Nat, ss \in Nat : rs = d.runSeq /\ ss = d.sessSeq
      BY DEF Coherent, Sound, Tables
    <2>4. Coherent(D, K, rs, ss)
      BY <2>1, <2>3
    <2>5. Coherent(E, K, rs, ss)
      BY <2>2, <2>4, Forgotten
    <2>. QED  BY <2>1, <2>2, <2>3, <2>5
  <1>6. Stamped(Fresh(db), d)
    BY DEF JournalInv, Opened, Stamped
  <1>7. Opened'
    <2>1. tx'.work = d /\ tx'.snaps = l
      BY <1>2
    <2>2. Fresh(db)' = Fresh(db)
      BY <1>2 DEF Fresh
    <2>. QED  BY <1>2, <1>3, <1>5, <1>6, <2>1, <2>2 DEF Opened
  <1>. QED  BY <1>2, <1>3, <1>4, <1>7, SameForReaders DEF JournalInv

\* What an open transaction starts its next step from.
LEMMA AtWork ==
  ASSUME JournalInv, ~Idle, NEW w, w = tx.work
  PROVE  /\ Coherent({db, w}, Kept \cup {tx.snaps}, w.runSeq, w.sessSeq)
         /\ Stamped(Fresh(db), w) /\ Sound(w) /\ w.runSeq \in Nat /\ w.sessSeq \in Nat
  <1>1. Coherent({db, w}, Kept \cup {tx.snaps}, w.runSeq, w.sessSeq) /\ Stamped(Fresh(db), w)
    BY DEF JournalInv, Opened
  <1>2. Sound(w)
    BY <1>1 DEF Coherent
  <1>. QED  BY <1>1, <1>2 DEF Sound, Tables

LEMMA SkipKeeps ==
  ASSUME JournalInv, ~Idle, NEW g, Skip(g)
  PROVE  JournalInv' /\ StampsChanges
  <1>1. PICK w : w = tx.work
    OBVIOUS
  <1>2. PICK D : D = {db, w}
    OBVIOUS
  <1>3. PICK K : K = Kept \cup {tx.snaps}
    OBVIOUS
  <1>4. Coherent(D, K, w.runSeq, w.sessSeq) /\ w.runSeq \in Nat /\ w.sessSeq \in Nat
    BY <1>1, <1>2, <1>3, AtWork
  <1>5. PICK l : l = Over(<<>>, tx.snaps)
    OBVIOUS
  <1>6. PICK M : M = K \cup {l}
    OBVIOUS
  <1>7. Coherent(D, M, w.runSeq, w.sessSeq)
    <2>1. PICK k : k = tx.snaps
      OBVIOUS
    <2>2. k \in K /\ DOMAIN l = DOMAIN k /\ \A h \in DOMAIN k : l[h] = k[h]
      BY <1>3, <1>5, <2>1 DEF Over
    <2>. QED  BY <1>4, <1>6, <2>2, SameSnapshots
  <1>8. Coherent(D, Kept \cup {l}, w.runSeq, w.sessSeq)
    <2>1. PICK L : L = Kept \cup {l} /\ L \subseteq M
      BY <1>3, <1>6
    <2>2. PICK rs \in Nat, ss \in Nat : rs = w.runSeq /\ ss = w.sessSeq
      BY <1>4
    <2>3. Coherent(D, M, rs, ss)
      BY <1>7, <2>2
    <2>4. Coherent(D, L, rs, ss)
      BY <2>1, <2>3, Forgotten
    <2>. QED  BY <2>1, <2>2, <2>4
  <1>9. Worked(g, w, <<>>, {}) /\ Stamped(tx.work, w)
    BY <1>1 DEF Skip, Stamped
  <1>10. PICK events : events = {}
    OBVIOUS
  <1>11. PICK snaps : snaps = <<>>
    OBVIOUS
  <1>12. Worked(g, w, snaps, events) /\ l = Over(snaps, tx.snaps) /\ w \in D /\ db \in D
        /\ \A e \in events : e[1] \in Games
    BY <1>2, <1>5, <1>9, <1>10, <1>11
  <1>. QED  BY <1>8, <1>9, <1>12, StepKeeps

\* Statements on a game that was snapshotted first.
LEMMA WorkKeeps ==
  ASSUME JournalInv, ~Idle, NEW g \in Games, NEW w, w = tx.work, NEW d, Sound(d), Moved(w, d, g),
         NEW events, \A e \in events : e[1] \in Games, Worked(g, d, SnapshotOf(w, g), events)
  PROVE  JournalInv' /\ StampsChanges
  <1>1. PICK D : D = {db, w}
    OBVIOUS
  <1>2. PICK K : K = Kept \cup {tx.snaps}
    OBVIOUS
  <1>3. Coherent(D, K, w.runSeq, w.sessSeq) /\ w \in D
    BY <1>1, <1>2, AtWork
  <1>4. PICK snaps, k, l : snaps = SnapshotOf(w, g) /\ k = tx.snaps /\ l = Over(snaps, k)
    <2>1. PICK snaps : snaps = SnapshotOf(w, g)
      OBVIOUS
    <2>2. PICK k : k = tx.snaps
      OBVIOUS
    <2>3. PICK l : l = Over(snaps, k)
      OBVIOUS
    <2>. QED  BY <2>1, <2>2, <2>3
  <1>5. PICK M : M = K \cup {l}
    OBVIOUS
  <1>6. Coherent(D, M, w.runSeq, w.sessSeq)
    <2>1. k \in K /\ l = Over(SnapshotOf(w, g), k)
      BY <1>2, <1>4
    <2>. QED  BY <1>3, <1>5, <2>1, Keeps
  <1>7. PICK E : E = D \cup {d}
    OBVIOUS
  <1>8. Coherent(E, M, d.runSeq, d.sessSeq)
    BY <1>3, <1>6, <1>7, Grows
  <1>9. Coherent(E, Kept \cup {l}, d.runSeq, d.sessSeq)
    <2>1. PICK L : L = Kept \cup {l} /\ L \subseteq M
      BY <1>2, <1>5
    <2>2. PICK rs \in Nat, ss \in Nat : rs = d.runSeq /\ ss = d.sessSeq
      BY DEF Sound, Tables
    <2>3. Coherent(E, M, rs, ss)
      BY <1>8, <2>2
    <2>4. Coherent(E, L, rs, ss)
      BY <2>1, <2>3, Forgotten
    <2>. QED  BY <2>1, <2>2, <2>4
  <1>10. Stamped(tx.work, d) /\ d \in E /\ db \in E
    BY <1>1, <1>7 DEF Moved
  <1>11. Worked(g, d, snaps, events) /\ l = Over(snaps, tx.snaps)
    BY <1>4
  <1>. QED  BY <1>9, <1>10, <1>11, StepKeeps

LEMMA BulkStepKeeps ==
  ASSUME JournalInv, ~Idle, NEW g \in tx.todo, BulkStep(g)
  PROVE  JournalInv' /\ StampsChanges
  <1>1. PICK w : w = tx.work
    OBVIOUS
  <1>2. g \in Games /\ Sound(w) /\ tx.arg \in Statuses
    BY <1>1, AtWork DEF JournalInv, TxOK, BulkStep
  <1>3. PICK ch \in ChangeType : ch = [NoChange EXCEPT !.status = tx.arg]
    BY <1>2, PartialChanges
  <1>4. CASE g \notin Custom /\ InLibrary(w, g)
    <2>1. PICK day \in Days : Worked(g, ApplyChange(w, g, ch, day, day), SnapshotOf(w, g),
                                     {<<g, k>> : k \in Events(w, g, ch)})
      BY <1>1, <1>3, <1>4 DEF BulkStep
    <2>2. PICK d : d = ApplyChange(w, g, ch, day, day)
      OBVIOUS
    <2>3. PICK events : events = {<<g, k>> : k \in Events(w, g, ch)} /\ \A e \in events : e[1] \in Games
      <3>1. \A e \in {<<g, k>> : k \in Events(w, g, ch)} : e[1] \in Games
        BY <1>2
      <3>. QED  BY <3>1
    <2>4. Sound(d) /\ Moved(w, d, g)
      BY <1>2, <2>2, ChangeApplied
    <2>5. Worked(g, d, SnapshotOf(w, g), events)
      BY <2>1, <2>2, <2>3
    <2>. QED  BY <1>1, <1>2, <2>3, <2>4, <2>5, WorkKeeps
  <1>5. CASE ~(g \notin Custom /\ InLibrary(w, g))
    BY <1>1, <1>5, SkipKeeps DEF BulkStep
  <1>. QED  BY <1>4, <1>5

LEMMA RemoveStepKeeps ==
  ASSUME JournalInv, ~Idle, NEW g \in tx.todo, RemoveStep(g)
  PROVE  JournalInv' /\ StampsChanges
  <1>1. PICK w : w = tx.work
    OBVIOUS
  <1>2. g \in Games /\ Sound(w)
    BY <1>1, AtWork DEF JournalInv, TxOK
  <1>3. CASE g \notin Custom /\ InLibrary(w, g)
    <2>1. PICK d : d = DeleteRow(w, g)
      OBVIOUS
    <2>2. Sound(d) /\ Moved(w, d, g)
      BY <1>2, <2>1, RowDeleted
    <2>3. Worked(g, d, SnapshotOf(w, g), {})
      BY <1>1, <1>3, <2>1 DEF RemoveStep
    <2>. QED  BY <1>1, <1>2, <2>2, <2>3, WorkKeeps
  <1>4. CASE ~(g \notin Custom /\ InLibrary(w, g))
    BY <1>1, <1>4, SkipKeeps DEF RemoveStep
  <1>. QED  BY <1>3, <1>4

LEMMA ImportStepKeeps ==
  ASSUME JournalInv, ~Idle, NEW g \in tx.todo, ImportStep(g)
  PROVE  JournalInv' /\ StampsChanges
  <1>1. PICK w : w = tx.work
    OBVIOUS
  <1>2. g \in Games /\ Sound(w) /\ tx.arg[g] \in EntryType
    BY <1>1, AtWork DEF JournalInv, TxOK, ImportStep
  <1>3. PICK e \in EntryType : e = tx.arg[g]
    BY <1>2
  <1>4. CASE ImportChange(w, g, e) = NoChange
    BY <1>1, <1>3, <1>4, SkipKeeps DEF ImportStep
  <1>5. CASE ImportChange(w, g, e) # NoChange
    <2>1. PICK now \in Days : Worked(g, ImportEntry(w, g, e, now), SnapshotOf(w, g), {})
      BY <1>1, <1>3, <1>5 DEF ImportStep
    <2>2. PICK d : d = ImportEntry(w, g, e, now)
      OBVIOUS
    <2>3. Sound(d) /\ Moved(w, d, g)
      BY <1>2, <2>2, EntryImported
    <2>4. Worked(g, d, SnapshotOf(w, g), {})
      BY <2>1, <2>2
    <2>. QED  BY <1>1, <1>2, <2>3, <2>4, WorkKeeps
  <1>. QED  BY <1>4, <1>5

LEMMA RestoreStepKeeps ==
  ASSUME JournalInv, ~Idle, NEW g \in tx.todo, RestoreStep(g)
  PROVE  JournalInv' /\ StampsChanges
  <1>1. PICK w : w = tx.work
    OBVIOUS
  <1>2. PICK k : k = Restoring /\ k \in Kept /\ g \in DOMAIN k
    BY DEF JournalInv, TxOK, RestoreStep, Restoring, Kept
  <1>3. PICK D : D = {db, w}
    OBVIOUS
  <1>4. PICK K : K = Kept \cup {tx.snaps}
    OBVIOUS
  <1>5. Coherent(D, K, w.runSeq, w.sessSeq) /\ w \in D /\ k \in K
    BY <1>1, <1>2, <1>3, <1>4, AtWork
  <1>6. PICK d : d = RestoreItem(w, g, k[g])
    OBVIOUS
  <1>7. PICK E : E = D \cup {d}
    OBVIOUS
  <1>8. /\ Sound(d) /\ Stamped(w, d)
        /\ Coherent(E, K, d.runSeq, d.sessSeq)
    BY <1>2, <1>5, <1>6, <1>7, Restores
  <1>9. PICK l : l = Over(<<>>, tx.snaps)
    OBVIOUS
  <1>10. PICK M : M = K \cup {l}
    OBVIOUS
  <1>11. Coherent(E, M, d.runSeq, d.sessSeq)
    <2>1. PICK m : m = tx.snaps
      OBVIOUS
    <2>2. m \in K /\ DOMAIN l = DOMAIN m /\ \A h \in DOMAIN m : l[h] = m[h]
      BY <1>4, <1>9, <2>1 DEF Over
    <2>. QED  BY <1>8, <1>10, <2>2, SameSnapshots
  <1>12. Coherent(E, Kept \cup {l}, d.runSeq, d.sessSeq)
    <2>1. PICK L : L = Kept \cup {l} /\ L \subseteq M
      BY <1>4, <1>10
    <2>2. PICK rs \in Nat, ss \in Nat : rs = d.runSeq /\ ss = d.sessSeq
      BY <1>8 DEF Sound, Tables
    <2>3. Coherent(E, M, rs, ss)
      BY <1>11, <2>2
    <2>4. Coherent(E, L, rs, ss)
      BY <2>1, <2>3, Forgotten
    <2>. QED  BY <2>1, <2>2, <2>4
  <1>13. Worked(g, d, <<>>, {}) /\ Stamped(tx.work, d) /\ d \in E /\ db \in E
    BY <1>1, <1>2, <1>3, <1>6, <1>7, <1>8 DEF RestoreStep
  <1>14. PICK events : events = {}
    OBVIOUS
  <1>15. PICK snaps : snaps = <<>>
    OBVIOUS
  <1>16. Worked(g, d, snaps, events) /\ l = Over(snaps, tx.snaps) /\ \A e \in events : e[1] \in Games
    BY <1>9, <1>13, <1>14, <1>15
  <1>. QED  BY <1>12, <1>13, <1>16, StepKeeps

\* The work of an open transaction, as its commit finds it.
LEMMA AtCommit ==
  ASSUME JournalInv, ~Idle, NEW w, w = tx.work, NEW K, K \subseteq Kept \cup {tx.snaps}
  PROVE  Coherent({w}, K, w.runSeq, w.sessSeq) /\ (db' = w => StampsChanges)
  <1>1. PICK D, M : D = {db, w} /\ M = Kept \cup {tx.snaps} /\ {w} \subseteq D
    <2>1. PICK D : D = {db, w}
      OBVIOUS
    <2>2. PICK M : M = Kept \cup {tx.snaps}
      OBVIOUS
    <2>. QED  BY <2>1, <2>2
  <1>2. /\ Coherent(D, M, w.runSeq, w.sessSeq) /\ Stamped(Fresh(db), w)
        /\ w.runSeq \in Nat /\ w.sessSeq \in Nat
    BY <1>1, AtWork
  <1>3. PICK rs \in Nat, ss \in Nat : rs = w.runSeq /\ ss = w.sessSeq
    BY <1>2
  <1>4. PICK E : E = {w} /\ E \subseteq D
    BY <1>1
  <1>5. Coherent(E, K, rs, ss)
    <2>1. Coherent(D, M, rs, ss) /\ K \subseteq M
      BY <1>1, <1>2, <1>3
    <2>. QED  BY <1>4, <2>1, Forgotten
  <1>6. ASSUME db' = w PROVE StampsChanges
    <2>1. PICK f : f = Fresh(db)
      OBVIOUS
    <2>2. f.items = db.items
      BY <2>1, Refreshed DEF JournalInv, Committed, Coherent
    <2>3. \A h \in Games : RowOf(f, h) = RowOf(db, h)
      BY <2>2 DEF RowOf, InLibrary
    <2>4. Stamped(f, w)
      BY <1>2, <2>1
    <2>. QED  BY <1>6, <2>3, <2>4 DEF StampsChanges, Stamped
  <1>. QED  BY <1>3, <1>4, <1>5, <1>6

LEMMA CommitBulkKeeps ==
  ASSUME JournalInv, CommitBulk
  PROVE  JournalInv' /\ StampsChanges
  <1>1. ~Idle /\ tx' = NoTx
    BY DEF CommitBulk, Idle, NoTx
  <1>2. PICK w : w = tx.work
    OBVIOUS
  <1>3. PICK K : K = Kept \cup {tx.snaps}
    OBVIOUS
  <1>4. Coherent({w}, K, w.runSeq, w.sessSeq) /\ (db' = w => StampsChanges)
    BY <1>1, <1>2, <1>3, AtCommit
  <1>5. PICK snaps, events : snaps = tx.snaps /\ events = tx.events
    <2>1. PICK snaps : snaps = tx.snaps
      OBVIOUS
    <2>2. PICK events : events = tx.events
      OBVIOUS
    <2>. QED  BY <2>1, <2>2
  <1>6. Publish(w, snaps, events) /\ \A e \in events : e[1] \in Games
    BY <1>1, <1>2, <1>5 DEF CommitBulk, JournalInv, TxOK
  <1>7. LogOK' /\ Committed' /\ db' = w
    BY <1>3, <1>4, <1>5, <1>6, Published
  <1>. QED  BY <1>1, <1>4, <1>7, NoTransaction

\* A commit that adds no feed event and keeps no snapshot but its own.
LEMMA CommitKeeps ==
  ASSUME JournalInv, ~Idle, db' = tx.work, tx' = NoTx, LogOK', Kept' \subseteq Kept \cup {tx.snaps}
  PROVE  JournalInv' /\ StampsChanges
  <1>1. PICK w : w = tx.work
    OBVIOUS
  <1>2. PICK K : K = Kept' /\ K \subseteq Kept \cup {tx.snaps}
    OBVIOUS
  <1>3. Coherent({w}, K, w.runSeq, w.sessSeq) /\ (db' = w => StampsChanges)
    BY <1>1, <1>2, AtCommit
  <1>4. Committed'
    BY <1>1, <1>2, <1>3 DEF Committed
  <1>. QED  BY <1>1, <1>3, <1>4, NoTransaction

LEMMA CommitUndoKeeps ==
  ASSUME JournalInv, CommitUndo
  PROVE  JournalInv' /\ StampsChanges
  <1>1. ~Idle /\ db' = tx.work /\ tx' = NoTx
    BY DEF CommitUndo, Idle, NoTx
  <1>2. LogOK'
    BY DEF CommitUndo, JournalInv, LogOK
  <1>3. Kept' \subseteq Kept
    BY DEF CommitUndo, Kept, Without, Restrict
  <1>. QED  BY <1>1, <1>2, <1>3, CommitKeeps

LEMMA CommitUndoImportKeeps ==
  ASSUME JournalInv, CommitUndoImport
  PROVE  JournalInv' /\ StampsChanges
  <1>1. ~Idle /\ db' = tx.work /\ tx' = NoTx
    BY DEF CommitUndoImport, Idle, NoTx
  <1>2. LogOK'
    BY DEF CommitUndoImport, JournalInv, LogOK
  <1>3. Kept' \subseteq Kept
    BY DEF CommitUndoImport, Kept, Without, Restrict
  <1>. QED  BY <1>1, <1>2, <1>3, CommitKeeps

LEMMA CommitImportKeeps ==
  ASSUME JournalInv, CommitImport
  PROVE  JournalInv' /\ StampsChanges
  <1>1. ~Idle /\ db' = tx.work /\ tx' = NoTx
    BY DEF CommitImport, Idle, NoTx
  <1>2. /\ issued.batch < MaxImports /\ MaxWrites \in Nat /\ MaxImports \in Nat
        /\ issued \in [undo : 0..MaxWrites, batch : 0..MaxImports]
    BY <1>1, BoundsAssumption DEF CommitImport, JournalInv, TxOK, LogOK
  <1>3. undoLog' = undoLog /\ activity' = activity
    BY DEF CommitImport
  <1>4. LogOK' /\ Kept' \subseteq Kept \cup {tx.snaps}
    <2>1. CASE DOMAIN tx.snaps = {}
      BY <1>3, <2>1 DEF CommitImport, JournalInv, LogOK, Kept
    <2>2. CASE DOMAIN tx.snaps # {}
      <3>1. issued' = [issued EXCEPT !.batch = @ + 1] /\ batches' = Put(batches, issued'.batch, tx.snaps)
        BY <2>2 DEF CommitImport
      <3>2. issued' \in [undo : 0..MaxWrites, batch : 0..MaxImports] /\ issued'.undo = issued.undo
        BY <1>2, <3>1
      <3>3. LogOK'
        BY <1>3, <3>2 DEF JournalInv, LogOK
      <3>4. Kept' \subseteq Kept \cup {tx.snaps}
        BY <1>3, <3>1 DEF Kept, Put
      <3>. QED  BY <3>3, <3>4
    <2>. QED  BY <2>1, <2>2
  <1>. QED  BY <1>1, <1>4, CommitKeeps

LEMMA LoopNextKeeps ==
  ASSUME JournalInv, LoopNext
  PROVE  JournalInv' /\ StampsChanges
  <1>1. ASSUME NEW S \in SUBSET Games, BeginRemove(S) PROVE JournalInv' /\ StampsChanges
    <2>1. Begin("remove", "", S)
      BY <1>1 DEF BeginRemove
    <2>. QED  BY <2>1, BeginKeeps
  <1>2. ASSUME NEW S \in SUBSET Games, NEW ch \in Changes, ch.status # "", BeginBulk(S, ch.status)
        PROVE  JournalInv' /\ StampsChanges
    <2>1. PICK st \in Statuses : st = ch.status
      BY <1>2, ChangesAssumption, ChangeFields
    <2>2. Begin("bulk", st, S)
      BY <1>2, <2>1 DEF BeginBulk
    <2>. QED  BY <2>2, BeginKeeps
  <1>3. ASSUME NEW S \in SUBSET Games, NEW f \in [S -> Entries], BeginImport(f)
        PROVE  JournalInv' /\ StampsChanges
    <2>1. Begin("import", f, S) /\ issued.batch < MaxImports
      BY <1>3 DEF BeginImport
    <2>2. \A g \in S : f[g] \in EntryType
      BY EntriesAssumption
    <2>. QED  BY <2>1, <2>2, BeginKeeps
  <1>4. ASSUME NEW u \in DOMAIN undoLog, BeginUndo(u) PROVE JournalInv' /\ StampsChanges
    <2>1. PICK S : S = DOMAIN undoLog[u]
      OBVIOUS
    <2>2. S \subseteq Games
      BY <2>1 DEF JournalInv, Committed, Coherent, Kept
    <2>3. Begin("undo", u, S) /\ S \subseteq DOMAIN undoLog[u]
      BY <1>4, <2>1 DEF BeginUndo
    <2>. QED  BY <2>2, <2>3, BeginKeeps
  <1>5. ASSUME NEW b \in DOMAIN batches, BeginUndoImport(b) PROVE JournalInv' /\ StampsChanges
    <2>1. PICK S : S = DOMAIN batches[b]
      OBVIOUS
    <2>2. S \subseteq Games
      BY <2>1 DEF JournalInv, Committed, Coherent, Kept
    <2>3. Begin("undoImport", b, S) /\ S \subseteq DOMAIN batches[b]
      BY <1>5, <2>1 DEF BeginUndoImport
    <2>. QED  BY <2>2, <2>3, BeginKeeps
  <1>6. ASSUME ~Idle, NEW g \in tx.todo, BulkStep(g) \/ RemoveStep(g) \/ RestoreStep(g) \/ ImportStep(g)
        PROVE  JournalInv' /\ StampsChanges
    BY <1>6, BulkStepKeeps, RemoveStepKeeps, RestoreStepKeeps, ImportStepKeeps
  <1>7. ASSUME CommitBulk \/ CommitUndo \/ CommitUndoImport \/ CommitImport
        PROVE  JournalInv' /\ StampsChanges
    BY <1>7, CommitBulkKeeps, CommitUndoKeeps, CommitUndoImportKeeps, CommitImportKeeps
  <1>8. ASSUME Rollback PROVE JournalInv' /\ StampsChanges
    <2>1. tx' = NoTx /\ db' = db /\ undoLog' = undoLog /\ activity' = activity
          /\ batches' = batches /\ issued' = issued
      BY <1>8 DEF Rollback
    <2>2. LogOK' /\ Committed'
      BY <2>1 DEF JournalInv, LogOK, Committed, Kept
    <2>. QED  BY <2>1, <2>2, NoTransaction, SameForReaders
  <1>. QED  BY <1>1, <1>2, <1>3, <1>4, <1>5, <1>6, <1>7, <1>8 DEF LoopNext

LEMMA ExpireUndoKeeps ==
  ASSUME JournalInv, ExpireUndo
  PROVE  JournalInv' /\ StampsChanges
  <1>1. /\ Idle /\ db' = db /\ activity' = activity /\ batches' = batches /\ issued' = issued /\ tx' = tx
        /\ undoLog' = Without(undoLog, {Min(DOMAIN undoLog)})
    BY DEF ExpireUndo
  <1>2. PICK K : K = Kept' /\ K \subseteq Kept
    <2>1. Kept' \subseteq Kept
      <3>1. \A u \in DOMAIN undoLog' : u \in DOMAIN undoLog /\ undoLog'[u] = undoLog[u]
        BY <1>1 DEF Without, Restrict
      <3>. QED  BY <1>1, <3>1 DEF Kept
    <2>. QED  BY <2>1
  <1>d. PICK d : d = db
    OBVIOUS
  <1>3. PICK rs \in Nat, ss \in Nat : rs = d.runSeq /\ ss = d.sessSeq
    BY <1>d DEF JournalInv, Committed, Coherent, Sound, Tables
  <1>4. Coherent({d}, K, rs, ss)
    <2>1. Coherent({d}, Kept, rs, ss)
      BY <1>d, <1>3 DEF JournalInv, Committed
    <2>. QED  BY <1>2, <2>1, Forgotten
  <1>5. Committed'
    BY <1>1, <1>2, <1>d, <1>3, <1>4 DEF Committed
  <1>6. LogOK'
    BY <1>1 DEF JournalInv, LogOK
  <1>. QED  BY <1>1, <1>5, <1>6, NoTransaction, SameForReaders DEF Idle

\* Every step keeps the invariant, and stamps what it changes for readers.
LEMMA NextKeeps == JournalInv /\ [Next]_vars => JournalInv' /\ StampsChanges
  <1>1. SUFFICES ASSUME JournalInv, [Next]_vars PROVE JournalInv' /\ StampsChanges
    OBVIOUS
  <1>2. CASE WriteNext
    BY <1>1, <1>2, WriteNextKeeps
  <1>3. CASE DiaryNext
    BY <1>1, <1>3, DiaryNextKeeps
  <1>4. CASE LoopNext
    BY <1>1, <1>4, LoopNextKeeps
  <1>5. CASE ExpireUndo
    BY <1>1, <1>5, ExpireUndoKeeps
  <1>6. CASE UNCHANGED vars
    <2>1. UNCHANGED <<db, undoLog, activity, batches, issued, tx>>
      BY <1>6 DEF vars
    <2>2. JournalInv'
      BY <1>1, <2>1 DEF JournalInv, LogOK, TxOK, Idle, Committed, Opened, Kept
    <2>. QED  BY <2>1, <2>2, SameForReaders
  <1>. QED  BY <1>1, <1>2, <1>3, <1>4, <1>5, <1>6 DEF Next

THEOREM JournalInvariant == Spec => []JournalInv
  <1>1. Init => JournalInv
    BY InitInv
  <1>2. JournalInv /\ [Next]_vars => JournalInv'
    BY NextKeeps
  <1>. QED  BY <1>1, <1>2, PTL DEF Spec

\* The tables hang together, in every state and in every open transaction:
\* the current run is one of the item's own, a session's run is of its game,
\* and nothing outlives its item (the foreign keys and triggers of migrate.go
\* with what the store does itself).
THEOREM JournalTyped == Spec => []TypeOK
  <1>1. JournalInv => TypeOK
    <2>1. SUFFICES ASSUME JournalInv PROVE TypeOK
      OBVIOUS
    <2>2. DBTypeOK(db) /\ Owned(db)
      BY <2>1 DEF JournalInv, Committed, Coherent, Sound
    <2>3. Idle \/ (DBTypeOK(tx.work) /\ Owned(tx.work))
      BY <2>1 DEF JournalInv, Opened, Coherent, Sound
    <2>4. \A u \in DOMAIN undoLog : DOMAIN undoLog[u] \subseteq Games
      BY <2>1 DEF JournalInv, Committed, Coherent, Kept
    <2>. QED  BY <2>1, <2>2, <2>3, <2>4 DEF TypeOK, JournalInv, LogOK
  <1>. QED  BY <1>1, JournalInvariant, PTL

\* Whatever was written, removed, imported and undone since, every undo and
\* every import batch on offer can be put back, and so can each game of one
\* that is under way: an id restored is of its own game or free (AUTOINCREMENT).
THEOREM UndoApplies == Spec => []UndoAlwaysApplies
  <1>1. JournalInv => UndoAlwaysApplies
    <2>1. SUFFICES ASSUME JournalInv PROVE UndoAlwaysApplies
      OBVIOUS
    <2>2. PICK rs \in Nat, ss \in Nat : rs = db.runSeq /\ ss = db.sessSeq
      BY <2>1 DEF JournalInv, Committed, Coherent, Sound, Tables
    <2>3. \A k \in Kept : \A g \in DOMAIN k : Restorable(db, g, k[g])
      <3>1. Coherent({db}, Kept, rs, ss) /\ db \in {db}
        BY <2>1, <2>2 DEF JournalInv, Committed
      <3>. QED  BY <3>1, Applies
    <2>4. ASSUME ~Idle, tx.op \in {"undo", "undoImport"}, NEW g \in tx.todo
          PROVE  Restorable(tx.work, g, Restoring[g])
      <3>1. PICK w : w = tx.work
        OBVIOUS
      <3>2. PICK k : k = Restoring /\ k \in Kept /\ g \in DOMAIN k
        BY <2>1, <2>4 DEF JournalInv, TxOK, Restoring, Kept
      <3>3. PICK D : D = {db, w}
        OBVIOUS
      <3>4. PICK K : K = Kept \cup {tx.snaps}
        OBVIOUS
      <3>5. /\ Coherent(D, K, w.runSeq, w.sessSeq) /\ w \in D /\ k \in K
            /\ w.runSeq \in Nat /\ w.sessSeq \in Nat
        BY <2>1, <2>4, <3>1, <3>2, <3>3, <3>4, AtWork
      <3>6. Restorable(w, g, k[g])
        BY <3>2, <3>5, Applies
      <3>. QED  BY <3>1, <3>2, <3>6
    <2>. QED  BY <2>3, <2>4 DEF UndoAlwaysApplies, Kept
  <1>. QED  BY <1>1, JournalInvariant, PTL

\* No row changes for readers but by a transaction that stamps it.
THEOREM EveryChangeIsStamped == Spec => ChangesAreStamped
  <1>1. JournalInv /\ [Next]_vars => [\A g \in Games : RowOf(db', g) # RowOf(db, g) => g \in db'.touched]_vars
    BY NextKeeps DEF StampsChanges
  <1>. QED  BY <1>1, JournalInvariant, PTL DEF Spec, ChangesAreStamped

----------------------------------------------------------------------------
(* Where nobody reopens a finished run by hand, the open run is the current *)
(* one.                                                                     *)

NobodyReopens == \A edit \in RunEdits : edit.finished # None

\* A snapshot is put back as it was, so those kept are tidy too; and so is
\* what an open transaction has done.
AllTidy(snaps) == \A g \in DOMAIN snaps : TidySnapshot(snaps[g])
TidyInv ==
  /\ Tidy(db) /\ \A k \in Kept : AllTidy(k)
  /\ Idle \/ (Tidy(tx.work) /\ AllTidy(tx.snaps))

LEMMA TidySnapshots ==
  ASSUME NEW d, Sound(d), Tidy(d), NEW g \in Games
  PROVE  AllTidy(SnapshotOf(d, g))
  <1>1. PICK snap : snap = Snapshot(d, g)
    OBVIOUS
  <1>2. TidySnapshot(snap)
    BY <1>1, SnapshotTaken
  <1>. QED  BY <1>1, <1>2 DEF AllTidy, SnapshotOf

LEMMA TidyTogether ==
  ASSUME NEW snaps, AllTidy(snaps), NEW k, AllTidy(k)
  PROVE  AllTidy(Over(snaps, k))
  <1>1. PICK l : l = Over(snaps, k)
    OBVIOUS
  <1>2. AllTidy(l)
    BY <1>1 DEF AllTidy, Over
  <1>. QED  BY <1>1, <1>2

LEMMA NothingIsTidy == AllTidy(<<>>)
  BY DEF AllTidy

\* The rows that a delete leaves.
LEMMA RowsLeftTidy ==
  ASSUME NEW d, Sound(d), Tidy(d), NEW g \in Games, NEW e, e = DeleteRow(d, g)
  PROVE  Tidy(e)
  <1>1. /\ Sound(e) /\ \A h \in DOMAIN e.items : e.items[h] = d.items[h]
        /\ \A r \in DOMAIN e.runs : r \in DOMAIN d.runs /\ e.runs[r] = d.runs[r]
    BY RowDeleted
  <1>. QED  BY <1>1 DEF Tidy, Sound, Owned, InLibrary

\* Tidy tables are committed, with the snapshots of the write.
LEMMA TidyCommit ==
  ASSUME TidyInv, Idle', Tidy(db'), NEW k, AllTidy(k), Kept' \subseteq Kept \cup {k}
  PROVE  TidyInv'
  BY DEF TidyInv, Tidy, AllTidy, TidySnapshot

LEMMA TidyPublish ==
  ASSUME TidyInv, NEW d, Tidy(d), NEW snaps, AllTidy(snaps), NEW events, Publish(d, snaps, events), Idle'
  PROVE  TidyInv'
  <1>1. db' = d /\ batches' = batches
    BY DEF Publish
  <1>2. Kept' \subseteq Kept \cup {snaps}
    <2>1. CASE DOMAIN snaps = {}
      BY <1>1, <2>1 DEF Publish, Kept
    <2>2. CASE DOMAIN snaps # {}
      <3>1. undoLog' = Put(undoLog, issued'.undo, snaps)
        BY <2>2 DEF Publish
      <3>. QED  BY <1>1, <3>1 DEF Kept, Put
    <2>. QED  BY <2>1, <2>2
  <1>. QED  BY <1>1, <1>2, TidyCommit

LEMMA TidyWrite ==
  ASSUME JournalInv, TidyInv, Idle, NEW g \in Games, NEW d, Tidy(d), NEW kinds, WriteOne(d, g, kinds)
  PROVE  TidyInv'
  <1>1. PICK snaps, events : /\ snaps = SnapshotOf(db, g) /\ Publish(d, snaps, events) /\ tx' = tx
    BY DEF WriteOne
  <1>2. AllTidy(snaps)
    <2>1. Sound(db) /\ Tidy(db)
      BY DEF JournalInv, Committed, Coherent, TidyInv
    <2>. QED  BY <1>1, <2>1, TidySnapshots
  <1>. QED  BY <1>1, <1>2, TidyPublish DEF Idle

\* What a write starts from.
LEMMA TidyStart ==
  ASSUME JournalInv, TidyInv, NEW f, f = Fresh(db)
  PROVE  /\ Sound(f) /\ Tidy(f) /\ Sound(db) /\ f.items = db.items /\ f.runs = db.runs
         /\ f.sessions = db.sessions
  <1>1. Sound(db) /\ Tidy(db)
    BY DEF JournalInv, Committed, Coherent, TidyInv
  <1>2. Sound(f) /\ f.items = db.items /\ f.runs = db.runs /\ f.sessions = db.sessions
    BY <1>1, Refreshed
  <1>. QED  BY <1>1, <1>2 DEF Tidy

LEMMA WriteTidies ==
  ASSUME JournalInv, TidyInv, Idle, NEW g \in Games, NEW ch \in ChangeType, NEW day \in Days, NEW now \in Days,
         Write(g, ch, day, now)
  PROVE  TidyInv'
  <1>1. PICK f : f = Fresh(db)
    OBVIOUS
  <1>2. PICK d : d = ApplyChange(f, g, ch, day, now)
    OBVIOUS
  <1>3. Tidy(d)
    BY <1>1, <1>2, TidyStart, ChangeApplied
  <1>4. PICK kinds : WriteOne(d, g, kinds)
    BY <1>1, <1>2 DEF Write
  <1>. QED  BY <1>3, <1>4, TidyWrite

LEMMA WriteNextTidies ==
  ASSUME JournalInv, TidyInv, WriteNext
  PROVE  TidyInv'
  <1>1. PICK g \in Games :
          \/ \E ch \in Changes, day, now \in Days : Patch(g, ch, day, now) \/ Upsert(g, ch, day, now)
          \/ \E m \in Lengths, day \in Days : LogSession(g, m, day)
          \/ \E m \in Lengths, source \in {"steam", "timer"} : LogOnRun(g, m, source)
          \/ Delete(g)
    BY DEF WriteNext
  <1>0. PICK f : f = Fresh(db)
    OBVIOUS
  <1>f. /\ Sound(f) /\ Tidy(f) /\ Sound(db) /\ f.items = db.items /\ f.runs = db.runs
    BY <1>0, TidyStart
  <1>2. ASSUME NEW ch \in Changes, NEW day \in Days, NEW now \in Days,
               Patch(g, ch, day, now) \/ Upsert(g, ch, day, now)
        PROVE  TidyInv'
    BY <1>2, ChangesAssumption, WriteTidies DEF Patch, Upsert
  <1>3. ASSUME NEW m \in Lengths, NEW day \in Days, LogSession(g, m, day)
        PROVE  TidyInv'
    <2>1. PICK ch \in ChangeType : ch = [NoChange EXCEPT !.delta = m]
      <3>1. m \in Int
        BY LengthsAssumption
      <3>2. [NoChange EXCEPT !.delta = m] \in ChangeType
        BY <3>1, PartialChanges
      <3>. QED  BY <3>2
    <2>2. Idle /\ Write(g, ch, day, day)
      BY <1>3, <2>1 DEF LogSession, Patch
    <2>. QED  BY <2>2, WriteTidies
  <1>4. ASSUME NEW m \in Lengths, NEW source \in {"steam", "timer"}, LogOnRun(g, m, source)
        PROVE  TidyInv'
    <2>1. PICK s : s = [game |-> g, run |-> db.items[g].cur, minutes |-> m, source |-> source]
      OBVIOUS
    <2>2. g \in DOMAIN f.items /\ db.items[g].cur \in RunsOf(f, g) \cup {None} /\ db.items[g].cur \in Nat
      <3>1. g \in DOMAIN db.items
        BY <1>4 DEF LogOnRun, InLibrary
      <3>2. db.items[g] \in RowType /\ db.items[g].cur \in RunsOf(db, g) \cup {None}
        BY <1>f, <3>1 DEF Sound, DBTypeOK, Owned
      <3>. QED  BY <1>f, <3>1, <3>2, RowFields DEF RunsOf
    <2>3. s \in SessionType /\ s.game = g /\ s.run = db.items[g].cur
      <3>1. m \in Int
        BY LengthsAssumption
      <3>2. source \in Sources
        BY DEF Sources
      <3>. QED  BY <2>1, <2>2, <3>1, <3>2 DEF SessionType
    <2>4. PICK d : d = AddSession(f, s)
      OBVIOUS
    <2>5. /\ DOMAIN d.runs = DOMAIN f.runs /\ \A h \in DOMAIN f.items : d.items[h].cur = f.items[h].cur
          /\ \A q \in DOMAIN f.runs : d.runs[q].game = f.runs[q].game /\ d.runs[q].finished = f.runs[q].finished
      BY <1>f, <2>2, <2>3, <2>4, SessionAdded
    <2>6. Tidy(d)
      BY <1>f, <2>5, StaysTidy
    <2>7. Idle /\ WriteOne(d, g, {"logged"})
      BY <1>0, <1>4, <2>1, <2>4 DEF LogOnRun
    <2>. QED  BY <2>6, <2>7, TidyWrite
  <1>5. ASSUME Delete(g) PROVE TidyInv'
    <2>1. PICK d : d = DeleteRow(f, g)
      OBVIOUS
    <2>2. Tidy(d)
      BY <1>f, <2>1, RowsLeftTidy
    <2>3. Idle /\ WriteOne(d, g, {})
      BY <1>0, <1>5, <2>1 DEF Delete
    <2>. QED  BY <2>2, <2>3, TidyWrite
  <1>. QED  BY <1>1, <1>2, <1>3, <1>4, <1>5

LEMMA DeleteSessionTidies ==
  ASSUME JournalInv, TidyInv, NEW id \in DOMAIN db.sessions, DeleteSession(id)
  PROVE  TidyInv'
  <1>1. PICK f : f = Fresh(db)
    OBVIOUS
  <1>2. Sound(f) /\ Tidy(f) /\ f.sessions = db.sessions
    BY <1>1, TidyStart
  <1>3. PICK d : d = DropSession(f, id)
    OBVIOUS
  <1>4. PICK g : g = f.sessions[id].game
    OBVIOUS
  <1>5. /\ DOMAIN d.runs = DOMAIN f.runs /\ \A h \in DOMAIN f.items : d.items[h].cur = f.items[h].cur
        /\ \A q \in DOMAIN f.runs : d.runs[q].game = f.runs[q].game /\ d.runs[q].finished = f.runs[q].finished
    BY <1>2, <1>3, SessionDropped
  <1>6. Tidy(d)
    BY <1>2, <1>5, StaysTidy
  <1>7. g \in Games
    BY <1>2, <1>4, SessionFields DEF Sound, DBTypeOK
  <1>8. Idle /\ WriteOne(d, g, {})
    BY <1>1, <1>2, <1>3, <1>4 DEF DeleteSession
  <1>. QED  BY <1>6, <1>7, <1>8, TidyWrite

LEMMA UpdateSessionTidies ==
  ASSUME JournalInv, TidyInv, NEW id \in DOMAIN db.sessions, NEW m \in Lengths, UpdateSession(id, m)
  PROVE  TidyInv'
  <1>1. PICK f : f = Fresh(db)
    OBVIOUS
  <1>2. Sound(f) /\ Tidy(f) /\ f.sessions = db.sessions /\ m \in Int
    BY <1>1, TidyStart, LengthsAssumption
  <1>3. PICK d : d = SetMinutes(f, id, m)
    OBVIOUS
  <1>4. PICK g : g = f.sessions[id].game
    OBVIOUS
  <1>5. /\ DOMAIN d.runs = DOMAIN f.runs /\ \A h \in DOMAIN f.items : d.items[h].cur = f.items[h].cur
        /\ \A q \in DOMAIN f.runs : d.runs[q].game = f.runs[q].game /\ d.runs[q].finished = f.runs[q].finished
    BY <1>2, <1>3, SessionChanged
  <1>6. Tidy(d)
    BY <1>2, <1>5, StaysTidy
  <1>7. g \in Games
    BY <1>2, <1>4, SessionFields DEF Sound, DBTypeOK
  <1>8. Idle /\ WriteOne(d, g, {})
    BY <1>1, <1>2, <1>3, <1>4 DEF UpdateSession
  <1>. QED  BY <1>6, <1>7, <1>8, TidyWrite

\* The one action that needs NobodyReopens.
LEMMA UpdatePlaythroughTidies ==
  ASSUME JournalInv, TidyInv, NobodyReopens, NEW r \in DOMAIN db.runs, NEW edit \in RunEdits,
         UpdatePlaythrough(r, edit)
  PROVE  TidyInv'
  <1>1. PICK f : f = Fresh(db)
    OBVIOUS
  <1>2. Sound(f) /\ Tidy(f) /\ f.runs = db.runs /\ f.items = db.items
    BY <1>1, TidyStart
  <1>3. PICK g : g = db.runs[r].game
    OBVIOUS
  <1>4. /\ g \in Games /\ g \in DOMAIN f.items /\ f.items[g] \in RowType
        /\ f.items[g].cur \in RunsOf(f, g) \cup {None}
    BY <1>2, <1>3 DEF Sound, DBTypeOK, Owned, InLibrary
  <1>5. PICK row : row = f.items[g]
    OBVIOUS
  <1>6. PICK c : c = PutRow(f, g, row)
    OBVIOUS
  <1>7. /\ Sound(c) /\ c.runs = f.runs /\ DOMAIN c.items = DOMAIN f.items
        /\ \A h \in DOMAIN f.items : c.items[h] = f.items[h]
    <2>1. Sound(c) /\ DOMAIN c.items = DOMAIN f.items \cup {g} /\ c.items[g] = row /\ c.runs = f.runs
      BY <1>2, <1>4, <1>5, <1>6, RowPut
    <2>2. \A h \in DOMAIN f.items \ {g} : c.items[h] = f.items[h]
      BY <1>2, <1>4, <1>5, <1>6, RowPut
    <2>. QED  BY <1>4, <1>5, <2>1, <2>2
  <1>8. PICK was : was = c.runs[r]
    OBVIOUS
  <1>9. was \in RunType /\ was.game = g /\ edit \in RunEditType /\ edit.finished # None
    BY <1>2, <1>3, <1>7, <1>8, RunEditsAssumption DEF Sound, DBTypeOK, NobodyReopens
  <1>10. PICK run : run = EditedRun(was, edit)
    OBVIOUS
  <1>11. /\ run \in RunType /\ run.game = g
         /\ run.finished = None => was.finished = None
    BY <1>9, <1>10, EditFields
  <1>12. PICK d : d = [c EXCEPT !.runs = Update(c.runs, r, run)]
    OBVIOUS
  <1>13. /\ d.items = c.items /\ DOMAIN d.runs = DOMAIN c.runs /\ d.runs[r] = run
         /\ \A q \in DOMAIN c.runs \ {r} : d.runs[q] = c.runs[q]
    <2>1. d.items = c.items /\ d.runs = Update(c.runs, r, run)
      BY <1>7, <1>12 DEF Sound, Tables
    <2>. QED  BY <1>2, <1>7, <2>1 DEF Update
  <1>14. Tidy(d)
    <2>1. SUFFICES ASSUME NEW q \in DOMAIN d.runs, d.runs[q].finished = None
                   PROVE  d.items[d.runs[q].game].cur = q
      BY DEF Tidy
    <2>2. q \in DOMAIN f.runs /\ f.runs[q].finished = None /\ d.runs[q].game = f.runs[q].game
      BY <1>2, <1>3, <1>7, <1>8, <1>11, <1>13, <2>1
    <2>3. f.items[f.runs[q].game].cur = q /\ f.runs[q].game \in DOMAIN f.items
      BY <1>2, <2>2 DEF Tidy, Sound, Owned, InLibrary
    <2>. QED  BY <1>7, <1>13, <2>2, <2>3
  <1>15. Idle /\ WriteOne(d, g, {})
    BY <1>1, <1>2, <1>3, <1>5, <1>6, <1>8, <1>10, <1>12 DEF UpdatePlaythrough
  <1>. QED  BY <1>4, <1>14, <1>15, TidyWrite

LEMMA DeletePlaythroughTidies ==
  ASSUME JournalInv, TidyInv, NEW r \in DOMAIN db.runs, DeletePlaythrough(r)
  PROVE  TidyInv'
  <1>1. PICK f : f = Fresh(db)
    OBVIOUS
  <1>2. Sound(f) /\ Tidy(f) /\ f.runs = db.runs
    BY <1>1, TidyStart
  <1>3. PICK g : g = f.runs[r].game
    OBVIOUS
  <1>4. PICK c : c = DropRun(f, r)
    OBVIOUS
  <1>5. PICK d : d = IF c.items[g].cur = r THEN PutRow(c, g, [c.items[g] EXCEPT !.cur = None]) ELSE c
    OBVIOUS
  <1>6. /\ \A h \in DOMAIN f.items : d.items[h].cur = IF h = g /\ f.items[g].cur = r THEN None ELSE f.items[h].cur
        /\ \A q \in DOMAIN d.runs : q # r /\ q \in DOMAIN f.runs /\ d.runs[q] = f.runs[q]
    <2>0. r \in DOMAIN f.runs
      BY <1>2
    <2>1. \A h \in DOMAIN f.items : d.items[h].cur = IF h = g /\ f.items[g].cur = r THEN None ELSE f.items[h].cur
      BY <1>2, <1>3, <1>4, <1>5, <2>0, RunDropped
    <2>2. \A q \in DOMAIN d.runs : q # r /\ q \in DOMAIN f.runs /\ d.runs[q] = f.runs[q]
      BY <1>2, <1>3, <1>4, <1>5, <2>0, RunDropped
    <2>. QED  BY <2>1, <2>2
  <1>7. Tidy(d)
    BY <1>2, <1>6 DEF Tidy, Sound, Owned, InLibrary
  <1>8. g \in Games
    BY <1>2, <1>3, RunFields DEF Sound, DBTypeOK
  <1>9. Idle /\ WriteOne(d, g, {})
    BY <1>1, <1>2, <1>3, <1>4, <1>5 DEF DeletePlaythrough
  <1>. QED  BY <1>7, <1>8, <1>9, TidyWrite

LEMMA DiaryNextTidies ==
  ASSUME JournalInv, TidyInv, NobodyReopens, DiaryNext
  PROVE  TidyInv'
  BY DeleteSessionTidies, UpdateSessionTidies, UpdatePlaythroughTidies, DeletePlaythroughTidies DEF DiaryNext

LEMMA BeginTidies ==
  ASSUME JournalInv, TidyInv, NEW op, NEW arg, NEW games, Begin(op, arg, games)
  PROVE  TidyInv'
  <1>1. PICK f : f = Fresh(db)
    OBVIOUS
  <1>2. Tidy(f)
    BY <1>1, TidyStart
  <1>3. /\ tx' = [op |-> op, arg |-> arg, chosen |-> games, todo |-> games,
                  work |-> f, snaps |-> <<>>, events |-> {}]
        /\ db' = db /\ undoLog' = undoLog /\ batches' = batches
    BY <1>1 DEF Begin
  <1>4. tx'.work = f /\ tx'.snaps = <<>>
    BY <1>3
  <1>5. Tidy(db') /\ Kept' = Kept /\ \A k \in Kept : AllTidy(k)
    BY <1>3 DEF TidyInv, Kept
  <1>. QED  BY <1>2, <1>4, <1>5, NothingIsTidy DEF TidyInv

LEMMA StepTidies ==
  ASSUME JournalInv, TidyInv, ~Idle, NEW g, NEW d, Tidy(d), NEW snaps, AllTidy(snaps),
         NEW events, Worked(g, d, snaps, events)
  PROVE  TidyInv'
  <1>1. PICK l : l = Over(snaps, tx.snaps)
    OBVIOUS
  <1>2. AllTidy(l)
    <2>1. PICK k : k = tx.snaps
      OBVIOUS
    <2>2. AllTidy(k)
      BY <2>1 DEF TidyInv
    <2>. QED  BY <1>1, <2>1, <2>2, TidyTogether
  <1>3. tx'.work = d /\ tx'.snaps = l
    <2>1. tx = [op |-> tx.op, arg |-> tx.arg, chosen |-> tx.chosen, todo |-> tx.todo,
                work |-> tx.work, snaps |-> tx.snaps, events |-> tx.events]
      BY DEF JournalInv, TxOK
    <2>2. tx' = [tx EXCEPT !.todo = tx.todo \ {g}, !.work = d, !.snaps = l, !.events = tx.events \cup events]
      BY <1>1 DEF Worked
    <2>. QED  BY <2>1, <2>2
  <1>4. db' = db /\ undoLog' = undoLog /\ batches' = batches
    BY DEF Worked
  <1>5. Tidy(db') /\ Kept' = Kept /\ \A k \in Kept : AllTidy(k)
    BY <1>4 DEF TidyInv, Kept
  <1>. QED  BY <1>2, <1>3, <1>5 DEF TidyInv

\* What a step of an open transaction starts from, and the one that skips.
LEMMA TidyWork ==
  ASSUME JournalInv, TidyInv, ~Idle, NEW g \in tx.todo, NEW w, w = tx.work
  PROVE  /\ g \in Games /\ Sound(w) /\ Tidy(w) /\ AllTidy(SnapshotOf(w, g))
         /\ Skip(g) => TidyInv'
  <1>1. g \in Games /\ Sound(w) /\ Tidy(w)
    BY AtWork DEF JournalInv, TxOK, TidyInv
  <1>2. ASSUME Skip(g) PROVE TidyInv'
    <2>1. PICK snaps, events : snaps = <<>> /\ Worked(g, w, snaps, events)
      BY <1>2 DEF Skip
    <2>. QED  BY <1>1, <2>1, NothingIsTidy, StepTidies
  <1>. QED  BY <1>1, <1>2, TidySnapshots

LEMMA BulkStepTidies ==
  ASSUME JournalInv, TidyInv, ~Idle, NEW g \in tx.todo, BulkStep(g)
  PROVE  TidyInv'
  <1>1. PICK w : w = tx.work
    OBVIOUS
  <1>2. /\ g \in Games /\ Sound(w) /\ Tidy(w) /\ AllTidy(SnapshotOf(w, g)) /\ (Skip(g) => TidyInv')
        /\ tx.arg \in Statuses
    BY <1>1, TidyWork DEF JournalInv, TxOK, BulkStep
  <1>3. PICK ch \in ChangeType : ch = [NoChange EXCEPT !.status = tx.arg]
    BY <1>2, PartialChanges
  <1>4. CASE g \notin Custom /\ InLibrary(w, g)
    <2>1. PICK day \in Days : Worked(g, ApplyChange(w, g, ch, day, day), SnapshotOf(w, g),
                                     {<<g, k>> : k \in Events(w, g, ch)})
      BY <1>1, <1>3, <1>4 DEF BulkStep
    <2>2. PICK d : d = ApplyChange(w, g, ch, day, day)
      OBVIOUS
    <2>3. Tidy(d)
      BY <1>2, <2>2, ChangeApplied
    <2>4. PICK snaps, events : AllTidy(snaps) /\ Worked(g, d, snaps, events)
      BY <1>2, <2>1, <2>2
    <2>. QED  BY <2>3, <2>4, StepTidies
  <1>5. CASE ~(g \notin Custom /\ InLibrary(w, g))
    BY <1>1, <1>2, <1>5 DEF BulkStep
  <1>. QED  BY <1>4, <1>5

LEMMA RemoveStepTidies ==
  ASSUME JournalInv, TidyInv, ~Idle, NEW g \in tx.todo, RemoveStep(g)
  PROVE  TidyInv'
  <1>1. PICK w : w = tx.work
    OBVIOUS
  <1>2. g \in Games /\ Sound(w) /\ Tidy(w) /\ AllTidy(SnapshotOf(w, g)) /\ (Skip(g) => TidyInv')
    BY <1>1, TidyWork
  <1>3. CASE g \notin Custom /\ InLibrary(w, g)
    <2>1. PICK d : d = DeleteRow(w, g)
      OBVIOUS
    <2>2. Tidy(d)
      BY <1>2, <2>1, RowsLeftTidy
    <2>3. PICK snaps, events : AllTidy(snaps) /\ Worked(g, d, snaps, events)
      BY <1>1, <1>2, <1>3, <2>1 DEF RemoveStep
    <2>. QED  BY <2>2, <2>3, StepTidies
  <1>4. CASE ~(g \notin Custom /\ InLibrary(w, g))
    BY <1>1, <1>2, <1>4 DEF RemoveStep
  <1>. QED  BY <1>3, <1>4

LEMMA ImportStepTidies ==
  ASSUME JournalInv, TidyInv, ~Idle, NEW g \in tx.todo, ImportStep(g)
  PROVE  TidyInv'
  <1>1. PICK w : w = tx.work
    OBVIOUS
  <1>2. /\ g \in Games /\ Sound(w) /\ Tidy(w) /\ AllTidy(SnapshotOf(w, g)) /\ (Skip(g) => TidyInv')
        /\ tx.arg[g] \in EntryType
    BY <1>1, TidyWork DEF JournalInv, TxOK, ImportStep
  <1>3. PICK e \in EntryType : e = tx.arg[g]
    BY <1>2
  <1>4. CASE ImportChange(w, g, e) = NoChange
    BY <1>1, <1>2, <1>3, <1>4 DEF ImportStep
  <1>5. CASE ImportChange(w, g, e) # NoChange
    <2>1. PICK now \in Days : Worked(g, ImportEntry(w, g, e, now), SnapshotOf(w, g), {})
      BY <1>1, <1>3, <1>5 DEF ImportStep
    <2>2. PICK d : d = ImportEntry(w, g, e, now)
      OBVIOUS
    <2>3. Tidy(d)
      BY <1>2, <2>2, EntryImported
    <2>4. PICK snaps, events : AllTidy(snaps) /\ Worked(g, d, snaps, events)
      BY <1>2, <2>1, <2>2
    <2>. QED  BY <2>3, <2>4, StepTidies
  <1>. QED  BY <1>4, <1>5

LEMMA RestoreStepTidies ==
  ASSUME JournalInv, TidyInv, ~Idle, NEW g \in tx.todo, RestoreStep(g)
  PROVE  TidyInv'
  <1>1. PICK w : w = tx.work
    OBVIOUS
  <1>2. PICK k : k = Restoring /\ k \in Kept /\ g \in DOMAIN k
    BY DEF JournalInv, TxOK, RestoreStep, Restoring, Kept
  <1>3. PICK D : D = {db, w}
    OBVIOUS
  <1>4. PICK K : K = Kept \cup {tx.snaps}
    OBVIOUS
  <1>5. Coherent(D, K, w.runSeq, w.sessSeq) /\ w \in D /\ k \in K
    BY <1>1, <1>2, <1>3, <1>4, AtWork
  <1>6. PICK d : d = RestoreItem(w, g, k[g])
    OBVIOUS
  <1>7. Tidy(w) /\ TidySnapshot(k[g])
    BY <1>1, <1>2 DEF TidyInv, AllTidy
  <1>8. Tidy(d)
    <2>1. PICK snap : snap = k[g]
      OBVIOUS
    <2>2. /\ g \in Games /\ IsSnapshot(g, snap) /\ Sound(w)
          /\ DOMAIN snap.runs \subseteq 1..w.runSeq /\ DOMAIN snap.sessions \subseteq 1..w.sessSeq
      BY <1>2, <1>5, <2>1 DEF Coherent
    <2>3. Restorable(w, g, snap) /\ d = RestoreItem(w, g, snap)
      BY <1>1, <1>2, <1>6, <2>1 DEF RestoreStep
    <2>4. Tidy(w) /\ TidySnapshot(snap) => Tidy(d)
      BY <2>2, <2>3, SnapshotRestored
    <2>. QED  BY <1>7, <2>1, <2>4
  <1>9. PICK snaps, events : snaps = <<>> /\ Worked(g, d, snaps, events)
    BY <1>1, <1>2, <1>6 DEF RestoreStep
  <1>. QED  BY <1>8, <1>9, NothingIsTidy, StepTidies

\* What was worked on is committed.
LEMMA CommitTidies ==
  ASSUME JournalInv, TidyInv, CommitBulk \/ CommitUndo \/ CommitUndoImport \/ CommitImport
  PROVE  TidyInv'
  <1>1. ~Idle /\ Idle'
    BY DEF CommitBulk, CommitUndo, CommitUndoImport, CommitImport, Idle, NoTx
  <1>2. PICK d : d = tx.work /\ Tidy(d)
    BY <1>1 DEF TidyInv
  <1>3. PICK snaps : snaps = tx.snaps /\ AllTidy(snaps)
    BY <1>1 DEF TidyInv
  <1>4. CASE CommitBulk
    <2>1. PICK events : Publish(d, snaps, events)
      BY <1>2, <1>3, <1>4 DEF CommitBulk
    <2>. QED  BY <1>1, <1>2, <1>3, <2>1, TidyPublish
  <1>5. CASE CommitUndo \/ CommitUndoImport \/ CommitImport
    <2>1. db' = d
      BY <1>2, <1>5 DEF CommitUndo, CommitUndoImport, CommitImport
    <2>2. Kept' \subseteq Kept \cup {snaps}
      <3>1. CASE CommitUndo
        BY <3>1 DEF CommitUndo, Kept, Without, Restrict
      <3>2. CASE CommitUndoImport
        BY <3>2 DEF CommitUndoImport, Kept, Without, Restrict
      <3>3. CASE CommitImport /\ DOMAIN tx.snaps = {}
        BY <3>3 DEF CommitImport, Kept
      <3>4. CASE CommitImport /\ DOMAIN tx.snaps # {}
        <4>1. undoLog' = undoLog /\ batches' = Put(batches, issued'.batch, snaps)
          BY <1>3, <3>4 DEF CommitImport
        <4>. QED  BY <4>1 DEF Kept, Put
      <3>. QED  BY <1>5, <3>1, <3>2, <3>3, <3>4
    <2>. QED  BY <1>1, <1>2, <1>3, <2>1, <2>2, TidyCommit
  <1>. QED  BY <1>4, <1>5

LEMMA LoopNextTidies ==
  ASSUME JournalInv, TidyInv, LoopNext
  PROVE  TidyInv'
  <1>1. ASSUME NEW S \in SUBSET Games, BeginRemove(S) \/ \E ch \in Changes : BeginBulk(S, ch.status)
        PROVE  TidyInv'
    <2>1. PICK op, arg : Begin(op, arg, S)
      BY <1>1 DEF BeginRemove, BeginBulk
    <2>. QED  BY <2>1, BeginTidies
  <1>2. ASSUME NEW S \in SUBSET Games, NEW f \in [S -> Entries], BeginImport(f)
        PROVE  TidyInv'
    <2>1. Begin("import", f, S)
      BY <1>2 DEF BeginImport
    <2>. QED  BY <2>1, BeginTidies
  <1>3. ASSUME NEW u \in DOMAIN undoLog, BeginUndo(u) PROVE TidyInv'
    <2>1. PICK S : Begin("undo", u, S)
      BY <1>3 DEF BeginUndo
    <2>. QED  BY <2>1, BeginTidies
  <1>4. ASSUME NEW b \in DOMAIN batches, BeginUndoImport(b) PROVE TidyInv'
    <2>1. PICK S : Begin("undoImport", b, S)
      BY <1>4 DEF BeginUndoImport
    <2>. QED  BY <2>1, BeginTidies
  <1>5. ASSUME ~Idle, NEW g \in tx.todo, BulkStep(g) \/ RemoveStep(g) \/ RestoreStep(g) \/ ImportStep(g)
        PROVE  TidyInv'
    BY <1>5, BulkStepTidies, RemoveStepTidies, RestoreStepTidies, ImportStepTidies
  <1>6. ASSUME CommitBulk \/ CommitUndo \/ CommitUndoImport \/ CommitImport PROVE TidyInv'
    BY <1>6, CommitTidies
  <1>7. ASSUME Rollback PROVE TidyInv'
    <2>1. Idle' /\ db' = db /\ undoLog' = undoLog /\ batches' = batches
      BY <1>7 DEF Rollback, Idle, NoTx
    <2>2. Tidy(db') /\ Kept' \subseteq Kept \cup {<<>>}
      BY <2>1 DEF TidyInv, Kept
    <2>. QED  BY <2>1, <2>2, NothingIsTidy, TidyCommit
  <1>. QED  BY <1>1, <1>2, <1>3, <1>4, <1>5, <1>6, <1>7 DEF LoopNext

LEMMA ExpireUndoTidies ==
  ASSUME JournalInv, TidyInv, ExpireUndo
  PROVE  TidyInv'
  <1>1. /\ Idle /\ db' = db /\ batches' = batches /\ tx' = tx
        /\ undoLog' = Without(undoLog, {Min(DOMAIN undoLog)})
    BY DEF ExpireUndo
  <1>2. Kept' \subseteq Kept \cup {<<>>}
    <2>1. \A u \in DOMAIN undoLog' : u \in DOMAIN undoLog /\ undoLog'[u] = undoLog[u]
      BY <1>1 DEF Without, Restrict
    <2>. QED  BY <1>1, <2>1 DEF Kept
  <1>3. Idle' /\ Tidy(db')
    BY <1>1 DEF TidyInv, Idle
  <1>. QED  BY <1>2, <1>3, NothingIsTidy, TidyCommit

\* As long as nobody reopens a finished run by hand, whatever else happens to a
\* library (status changes, dates cleared, imports, undos and undone imports):
\* an open run is the current one of its item, so at most one is open.
THEOREM CurrentRun ==
  ASSUME NobodyReopens
  PROVE  Spec => []OpenRunIsCurrent
  <1>1. Init => TidyInv
    BY DEF Init, EmptyDB, TidyInv, Tidy, Kept, Idle
  <1>2. JournalInv /\ TidyInv /\ [Next]_vars => TidyInv'
    <2>1. SUFFICES ASSUME JournalInv, TidyInv, [Next]_vars PROVE TidyInv'
      OBVIOUS
    <2>2. CASE UNCHANGED vars
      <3>1. db' = db /\ undoLog' = undoLog /\ batches' = batches /\ tx' = tx
        BY <2>2 DEF vars
      <3>2. Tidy(db') /\ Kept' = Kept /\ (Idle' <=> Idle)
        BY <2>1, <3>1 DEF TidyInv, Kept, Idle
      <3>. QED  BY <2>1, <3>1, <3>2 DEF TidyInv
    <2>. QED  BY <2>1, <2>2, WriteNextTidies, DiaryNextTidies, LoopNextTidies, ExpireUndoTidies DEF Next
  <1>3. TidyInv => OpenRunIsCurrent
    BY DEF TidyInv, Tidy, OpenRunIsCurrent
  <1>. QED  BY <1>1, <1>2, <1>3, JournalInvariant, PTL DEF Spec
=============================================================================

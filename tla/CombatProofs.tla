---------------------------- MODULE CombatProofs ----------------------------
(***************************************************************************)
(* Proofs about what is made of the lines of combat (parser.rs,            *)
(* update_mob_list and the handlers of its lines; state.rs; the            *)
(* froklog-debug tool): the same whatever the speed a log is read at, the  *)
(* overlays' totals those of the stream, the debug tool's those of the     *)
(* parser, and the lines of one encounter under one sighting.              *)
(***************************************************************************)
EXTENDS Trace, OrderLemmas

-----------------------------------------------------------------------------
(* Reading a log at different speeds: two parsers stay alike but for their
   clocks (parser.rs). *)

Fields == {"ts", "wall", "pace", "mobs", "next", "active", "hit", "players", "confirmed",
           "cands", "dead", "pets", "loot", "lootTs", "caster", "buff", "summon",
           "started", "ended", "classes", "tab", "out"}

MobFields == {"id", "name", "last", "wall", "parked"}

MobsAlike(m, n) ==
  /\ IsSequence(m) /\ IsSequence(n) /\ DOMAIN m = DOMAIN n
  /\ \A i \in DOMAIN m :
       /\ DOMAIN m[i] = MobFields /\ DOMAIN n[i] = MobFields
       /\ m[i].id = n[i].id /\ m[i].name = n[i].name /\ m[i].last = n[i].last
       /\ m[i].parked = n[i].parked /\ m[i].last \in Nat \ {0}

(* Two parsers that differ in their clocks only. *)
Alike(p, q) ==
  /\ DOMAIN p = Fields /\ DOMAIN q = Fields
  /\ p.ts \in Nat \ {0}
  /\ MobsAlike(p.mobs, q.mobs)
  /\ p.ts = q.ts /\ p.next = q.next /\ p.active = q.active /\ p.hit = q.hit
  /\ p.players = q.players /\ p.confirmed = q.confirmed /\ p.cands = q.cands
  /\ p.dead = q.dead /\ p.pets = q.pets /\ p.loot = q.loot /\ p.lootTs = q.lootTs
  /\ p.caster = q.caster /\ p.buff = q.buff /\ p.summon = q.summon
  /\ p.started = q.started /\ p.ended = q.ended /\ p.classes = q.classes
  /\ p.tab = q.tab /\ p.out = q.out

(* Each step of the parser keeps two parsers alike: first the small ones. *)
LEMMA EmitAlike ==
  ASSUME NEW p, NEW q, Alike(p, q), NEW e
  PROVE  Alike(Emit(p, e), Emit(q, e))
  BY DEF Alike, Emit, Fields

LEMMA OwnAlike ==
  ASSUME NEW p, NEW q, Alike(p, q), NEW pet, NEW owner
  PROVE  Alike(Own(p, pet, owner), Own(q, pet, owner))
  BY DEF Alike, Own, Emit, Fields

(* Whom a line is about: where the mobs agree but for their clocks, so do the
   sightings found, since no line and no sighting is without a time. *)
LEMMA SightedAlike ==
  ASSUME NEW p, NEW q, Alike(p, q), NEW n
  PROVE  Sighted(p, n) = Sighted(q, n)
  <1>1. \A i \in DOMAIN p.mobs : WithinGap(p, p.mobs[i]) <=> WithinGap(q, q.mobs[i])
    BY DEF Alike, MobsAlike, WithinGap
  <1>2. \A i \in DOMAIN p.mobs : p.mobs[i].name = q.mobs[i].name
    BY DEF Alike, MobsAlike
  <1>3. DOMAIN p.mobs = DOMAIN q.mobs
    BY DEF Alike, MobsAlike
  <1> QED BY <1>1, <1>2, <1>3 DEF Sighted

(* Eviction and sightings keep the lists of mobs alike. *)
LEMMA PartAlike ==
  ASSUME NEW m, NEW n, MobsAlike(m, n), NEW S \in SUBSET DOMAIN m
  PROVE  MobsAlike(Part(m, S), Part(n, S))
  <1> DEFINE u == Part(m, S)
             v == Part(n, S)
  <1>1. IsSequence(m) /\ IsSequence(n) /\ S \in SUBSET DOMAIN n
    BY DEF MobsAlike
  <1>2. /\ IsSequence(u) /\ IsSequence(v) /\ DOMAIN u = DOMAIN v
        /\ \A k \in DOMAIN u : \E i \in S : Rank(S, i) = k - 1 /\ u[k] = m[i]
        /\ \A i \in S : Rank(S, i) + 1 \in DOMAIN v /\ v[Rank(S, i) + 1] = n[i]
    BY <1>1, PartIs
  <1> HIDE DEF u, v
  <1>3. ASSUME NEW k \in DOMAIN u PROVE \E i \in DOMAIN m : u[k] = m[i] /\ v[k] = n[i]
    <2>1. PICK i \in S : Rank(S, i) = k - 1 /\ u[k] = m[i]
      BY <1>2
    <2>2. k \in Nat
      <3>1. IsSequence(u)
        BY <1>2
      <3>2. Len(u) \in Nat /\ DOMAIN u = 1 .. Len(u)
        BY <3>1, SequenceIs
      <3> QED BY <3>2
    <2>3. Rank(S, i) + 1 = k
      BY <2>1, <2>2
    <2> QED BY <1>2, <2>1, <2>3
  <1>4. ASSUME NEW k \in DOMAIN u
        PROVE  /\ DOMAIN u[k] = MobFields /\ DOMAIN v[k] = MobFields
               /\ u[k].id = v[k].id /\ u[k].name = v[k].name /\ u[k].last = v[k].last
               /\ u[k].parked = v[k].parked /\ u[k].last \in Nat \ {0}
    BY <1>3 DEF MobsAlike
  <1>5. MobsAlike(u, v)
    BY <1>2, <1>4 DEF MobsAlike
  <1> QED BY <1>5 DEF u, v

LEMMA EvictAlike ==
  ASSUME NEW p, NEW q, Alike(p, q), NEW N
  PROVE  Alike(Evict(p, N), Evict(q, N))
  <1> DEFINE S == {i \in DOMAIN p.mobs : p.mobs[i].name \notin N}
  <1>1. S = {i \in DOMAIN q.mobs : q.mobs[i].name \notin N}
    BY DEF Alike, MobsAlike
  <1>2. MobsAlike(Part(p.mobs, S), Part(q.mobs, S))
    BY PartAlike DEF Alike
  <1>3. /\ Evict(p, N) = [p EXCEPT !.mobs = Part(p.mobs, S)]
        /\ Evict(q, N) = [q EXCEPT !.mobs = Part(q.mobs, S)]
    BY <1>1 DEF Evict
  <1> HIDE DEF S
  <1> QED BY <1>2, <1>3 DEF Alike, Fields

(* The mob of a sighting, changed. *)
LEMMA ChangedAlike ==
  ASSUME NEW m, NEW n, MobsAlike(m, n), NEW i \in DOMAIN m, NEW a, NEW b,
         DOMAIN a = MobFields, DOMAIN b = MobFields,
         a.id = b.id, a.name = b.name, a.last = b.last, a.parked = b.parked,
         a.last \in Nat \ {0}
  PROVE  MobsAlike([m EXCEPT ![i] = a], [n EXCEPT ![i] = b])
  <1>1. ASSUME NEW t, IsSequence(t), i \in DOMAIN t, NEW x
        PROVE  IsSequence([t EXCEPT ![i] = x])
    <2> DEFINE u == [t EXCEPT ![i] = x]
    <2>1. Len(t) \in Nat /\ DOMAIN t = 1 .. Len(t)
      BY <1>1, SequenceIs
    <2>2. DOMAIN u = 1 .. Len(t) /\ u = [k \in 1 .. Len(t) |-> u[k]]
      BY <2>1
    <2> HIDE DEF u
    <2> QED BY <2>1, <2>2, ListIsSequence DEF u
  <1> QED BY <1>1 DEF MobsAlike

LEMMA SightAgainAlike ==
  ASSUME NEW p, NEW q, Alike(p, q), NEW n, NEW i \in DOMAIN p.mobs
  PROVE  Alike(SightAgain(p, n, i), SightAgain(q, n, i))
  <1> DEFINE New(r) == [r.mobs[i] EXCEPT !.wall = r.wall, !.parked = FALSE,
                          !.last = IF r.ts # 0 THEN r.ts ELSE r.mobs[i].last,
                          !.name = IF n \notin DOMAIN Upper THEN n ELSE r.mobs[i].name]
             Mobs(r) == [r.mobs EXCEPT ![i] = New(r)]
  <1>1. /\ DOMAIN p.mobs[i] = MobFields /\ DOMAIN q.mobs[i] = MobFields
        /\ p.mobs[i].id = q.mobs[i].id /\ p.mobs[i].name = q.mobs[i].name
        /\ p.ts = q.ts /\ p.ts \in Nat \ {0}
    BY DEF Alike, MobsAlike
  <1>2. /\ DOMAIN New(p) = MobFields /\ DOMAIN New(q) = MobFields
        /\ New(p).id = New(q).id /\ New(p).name = New(q).name
        /\ New(p).last = New(q).last /\ New(p).parked = New(q).parked
        /\ New(p).last \in Nat \ {0}
    BY <1>1 DEF MobFields
  <1> HIDE DEF New
  <1>3. MobsAlike(Mobs(p), Mobs(q))
    BY <1>2, ChangedAlike DEF Alike
  <1>4. ASSUME NEW r
        PROVE  SightAgain(r, n, i) = [r EXCEPT !.mobs = Mobs(r), !.active = New(r).id,
                                               !.hit = New(r).id]
    BY DEF SightAgain, New
  <1> HIDE DEF Mobs
  <1>5. /\ SightAgain(p, n, i) = [p EXCEPT !.mobs = Mobs(p), !.active = New(p).id,
                                           !.hit = New(p).id]
        /\ SightAgain(q, n, i) = [q EXCEPT !.mobs = Mobs(q), !.active = New(p).id,
                                           !.hit = New(p).id]
    BY <1>2, <1>4
  <1> QED BY <1>3, <1>5 DEF Alike, Fields

LEMMA SightAnewAlike ==
  ASSUME NEW p, NEW q, Alike(p, q), NEW n
  PROVE  Alike(SightAnew(p, n), SightAnew(q, n))
  <1> DEFINE New(r) == [id |-> r.next, name |-> n, last |-> r.ts,
                        wall |-> r.wall, parked |-> FALSE]
             Mobs(r) == Append(r.mobs, New(r))
  <1>1. p.next = q.next /\ p.ts = q.ts /\ p.ts \in Nat \ {0} /\ MobsAlike(p.mobs, q.mobs)
    BY DEF Alike
  <1>2. /\ DOMAIN New(p) = MobFields /\ DOMAIN New(q) = MobFields
        /\ New(p).id = New(q).id /\ New(p).name = New(q).name
        /\ New(p).last = New(q).last /\ New(p).parked = New(q).parked
        /\ New(p).last \in Nat \ {0}
    BY <1>1 DEF MobFields
  <1> HIDE DEF New
  <1>3. ASSUME NEW m, IsSequence(m), NEW x
        PROVE  /\ IsSequence(Append(m, x)) /\ DOMAIN Append(m, x) = DOMAIN m \cup {Len(m) + 1}
               /\ Append(m, x)[Len(m) + 1] = x /\ \A k \in DOMAIN m : Append(m, x)[k] = m[k]
               /\ Len(m) \in Nat /\ DOMAIN m = 1 .. Len(m)
    <2>1. m \in Seq(Range(m) \cup {x}) /\ x \in Range(m) \cup {x}
      <3>1. m \in [1 .. Len(m) -> Range(m) \cup {x}] /\ Len(m) \in Nat
        BY <1>3, SequenceIs
      <3> QED BY <3>1, IsASeq
    <2>2. IsSequence(Append(m, x))
      BY <1>3, AppendIs
    <2> QED BY <1>3, <2>1, <2>2, AppendProperties, LenProperties, SequenceIs
  <1>4. MobsAlike(Mobs(p), Mobs(q))
    <2> DEFINE a == New(p)
               b == New(q)
    <2>1. Len(p.mobs) = Len(q.mobs)
      BY <1>1, SequenceIs DEF MobsAlike
    <2> HIDE DEF a, b
    <2>2. MobsAlike(Append(p.mobs, a), Append(q.mobs, b))
      BY <1>1, <1>2, <1>3, <2>1 DEF MobsAlike, a, b
    <2> QED BY <2>2 DEF a, b
  <1>5. ASSUME NEW r
        PROVE  SightAnew(r, n) = [r EXCEPT !.mobs = Mobs(r), !.next = r.next + 1,
                                           !.active = r.next, !.hit = r.next]
    BY DEF SightAnew, New
  <1> HIDE DEF Mobs
  <1>6. /\ SightAnew(p, n) = [p EXCEPT !.mobs = Mobs(p), !.next = p.next + 1,
                                       !.active = p.next, !.hit = p.next]
        /\ SightAnew(q, n) = [q EXCEPT !.mobs = Mobs(q), !.next = p.next + 1,
                                       !.active = p.next, !.hit = p.next]
    BY <1>1, <1>5
  <1> QED BY <1>4, <1>6 DEF Alike, Fields

LEMMA UpdateMobListAlike ==
  ASSUME NEW p, NEW q, Alike(p, q), NEW n
  PROVE  Alike(UpdateMobList(p, n), UpdateMobList(q, n))
  <1> DEFINE found == Sighted(p, n)
             i == CHOOSE i \in found : \A j \in found : i <= j
             Missed(r) == [r EXCEPT !.hit = NoMob]
             Live(r) == [r EXCEPT !.dead = r.dead \ {Lower(n)}]
  <1>1. Alike(Missed(p), Missed(q)) /\ Alike(Live(p), Live(q)) /\ Live(p).mobs = p.mobs
    BY DEF Alike, Fields
  <1>2. found = Sighted(q, n) /\ p.players = q.players /\ p.dead = q.dead
    BY SightedAlike DEF Alike
  <1>3. ASSUME found # {} PROVE i \in DOMAIN p.mobs
    <2>1. found \in SUBSET Nat
      <3>1. IsSequence(p.mobs)
        BY DEF Alike, MobsAlike
      <3> QED BY <3>1, SequenceIs DEF Sighted
    <2>2. \E x \in found : \A y \in found : x <= y
      <3> HIDE DEF found
      <3> QED BY <1>3, <2>1, LeastExists
    <2>3. i \in found
      <3> HIDE DEF found
      <3> QED BY <2>2
    <2> QED BY <2>3 DEF Sighted
  <1> HIDE DEF Missed, Live, i, found
  <1>4. Alike(Evict(Missed(p), {n}), Evict(Missed(q), {n}))
    BY <1>1, EvictAlike
  <1>5. found # {} => Alike(SightAgain(Live(p), n, i), SightAgain(Live(q), n, i))
    BY <1>1, <1>3, SightAgainAlike
  <1>6. Alike(SightAnew(Live(p), n), SightAnew(Live(q), n))
    BY <1>1, SightAnewAlike
  <1>7. /\ UpdateMobList(p, n) = IF n \in Corpses THEN Missed(p)
                                 ELSE IF n \in p.players THEN Evict(Missed(p), {n})
                                 ELSE IF Lower(n) \notin p.dead /\ found # {}
                                 THEN SightAgain(Live(p), n, i) ELSE SightAnew(Live(p), n)
        /\ UpdateMobList(q, n) = IF n \in Corpses THEN Missed(q)
                                 ELSE IF n \in q.players THEN Evict(Missed(q), {n})
                                 ELSE IF Lower(n) \notin q.dead /\ Sighted(q, n) # {}
                                 THEN SightAgain(Live(q), n, CHOOSE x \in Sighted(q, n) : \A j \in Sighted(q, n) : x <= j)
                                 ELSE SightAnew(Live(q), n)
    BY DEF UpdateMobList, Missed, Live, i, found
  <1>8. i = CHOOSE x \in Sighted(q, n) : \A j \in Sighted(q, n) : x <= j
    BY <1>2 DEF i
  <1> QED BY <1>1, <1>2, <1>4, <1>5, <1>6, <1>7, <1>8

LEMMA RegisterAlike ==
  ASSUME NEW p, NEW q, Alike(p, q), NEW n
  PROVE  /\ Alike(RegisterQuietly(p, n), RegisterQuietly(q, n))
         /\ Alike(RegisterWarder(p, n), RegisterWarder(q, n))
         /\ Alike(AssociateSummoned(p, n), AssociateSummoned(q, n))
  <1>1. Alike(RegisterQuietly(p, n), RegisterQuietly(q, n))
    BY DEF Alike, Fields, RegisterQuietly
  <1>2. Alike(RegisterWarder(p, n), RegisterWarder(q, n))
    <2>1. Alike([p EXCEPT !.players = p.players \cup {n}], [q EXCEPT !.players = q.players \cup {n}])
      BY DEF Alike, Fields
    <2>2. Alike(Own(p, n, Warders[n]), Own(q, n, Warders[n])) /\ p.pets = q.pets
      BY OwnAlike DEF Alike
    <2> QED BY <2>1, <2>2 DEF RegisterWarder
  <1>3. Alike(AssociateSummoned(p, n), AssociateSummoned(q, n))
    <2>1. p.ts = q.ts /\ p.summon = q.summon /\ p.pets = q.pets
      BY DEF Alike
    <2>2. Alike(Own(p, n, p.summon.who), Own(q, n, q.summon.who))
      BY <2>1, OwnAlike
    <2>3. ASSUME NEW a, NEW b, Alike(a, b)
          PROVE  Alike([a EXCEPT !.summon = NoCast], [b EXCEPT !.summon = NoCast])
      BY <2>3 DEF Alike, Fields
    <2> QED BY <2>1, <2>2, <2>3 DEF AssociateSummoned
  <1> QED BY <1>1, <1>2, <1>3

(* Blows, from the sighting of the mob to the event and the totals. *)
LEMMA FoughtAlike ==
  ASSUME NEW p, NEW q, Alike(p, q)
  PROVE  Alike(UpdateMobName(p), UpdateMobName(q)) /\ Alike(Fought(p), Fought(q))
  <1>1. ASSUME NEW a, NEW b, Alike(a, b) PROVE Alike(UpdateMobName(a), UpdateMobName(b))
    <2> DEFINE New(r) == [r EXCEPT !.confirmed = (r.confirmed \cup r.cands) \ (r.cands \cap r.players)]
    <2>1. Alike(New(a), New(b)) /\ a.cands = b.cands /\ a.players = b.players
      BY <1>1 DEF Alike, Fields
    <2>2. ASSUME NEW r PROVE UpdateMobName(r) = Evict(New(r), r.cands \cap r.players)
      BY DEF UpdateMobName
    <2> HIDE DEF New
    <2> QED BY <2>1, <2>2, EvictAlike
  <1>2. Alike([p EXCEPT !.started = TRUE], [q EXCEPT !.started = TRUE])
    BY DEF Alike, Fields
  <1> QED BY <1>1, <1>2 DEF Fought

LEMMA HitAlike ==
  ASSUME NEW p, NEW q, Alike(p, q), NEW l, NEW tank
  PROVE  Alike(Hit(p, l, tank), Hit(q, l, tank))
  <1>1. p.hit = q.hit
    BY DEF Alike
  <1> QED BY <1>1, EmitAlike DEF Hit

LEMMA TankAlike ==
  ASSUME NEW p, NEW q, Alike(p, q), NEW l
  PROVE  Alike(Tank(p, l), Tank(q, l))
  <1> DEFINE New(r) == [r EXCEPT !.confirmed = r.confirmed \cup {l.src}]
             Sight(r) == UpdateMobList(New(r), l.src)
             Book(r) == [r EXCEPT !.tab = IF r.hit = NoMob THEN r.tab
                                          ELSE Plus(r.tab, {<<"tank", r.hit, l.tgt>>})]
  <1>1. Alike(New(p), New(q))
    BY DEF Alike, Fields
  <1> HIDE DEF New
  <1>2. Alike(Sight(p), Sight(q))
    BY <1>1, UpdateMobListAlike
  <1>3. ASSUME NEW a, NEW b, Alike(a, b) PROVE Alike(Book(a), Book(b))
    BY <1>3 DEF Alike, Fields
  <1>4. ASSUME NEW r PROVE Tank(r, l) = Hit(Book(Sight(r)), l, TRUE)
    BY DEF Tank, New
  <1> HIDE DEF Sight, Book
  <1> QED BY <1>2, <1>3, <1>4, HitAlike

LEMMA StrikeAlike ==
  ASSUME NEW p, NEW q, Alike(p, q), NEW l
  PROVE  Alike(Strike(p, l), Strike(q, l))
  <1> DEFINE New(r) == [r EXCEPT !.players = r.players \cup {l.src},
                                 !.cands = r.cands \cup ({l.tgt} \ Corpses)]
             Sight(r) == UpdateMobList(New(r), l.tgt)
             all == {<<"damage", l.src>>}
             Book(r) == [r EXCEPT !.tab =
                           Plus(r.tab, IF r.hit = NoMob THEN all
                                       ELSE all \cup {<<"damage", r.hit, l.src>>})]
  <1>1. Alike(New(p), New(q))
    BY DEF Alike, Fields
  <1> HIDE DEF New
  <1>2. Alike(Sight(p), Sight(q))
    BY <1>1, UpdateMobListAlike
  <1>3. ASSUME NEW a, NEW b, Alike(a, b) PROVE Alike(Book(a), Book(b))
    BY <1>3 DEF Alike, Fields
  <1>4. ASSUME NEW r PROVE Strike(r, l) = Hit(Book(Sight(r)), l, FALSE)
    BY DEF Strike, New
  <1> HIDE DEF Sight, Book
  <1> QED BY <1>2, <1>3, <1>4, HitAlike

LEMMA EitherAlike ==
  ASSUME NEW p, NEW q, Alike(p, q), NEW l
  PROVE  /\ SrcIsMob(p, l) <=> SrcIsMob(q, l)
         /\ Alike(Either(p, l), Either(q, l))
  <1>1. SrcIsMob(p, l) <=> SrcIsMob(q, l)
    BY DEF Alike, SrcIsMob
  <1> QED BY <1>1, TankAlike, StrikeAlike DEF Either

(* The lines of a fight. *)
LEMMA BlowsAlike ==
  ASSUME NEW p, NEW q, Alike(p, q), NEW l
  PROVE  /\ Alike(MeleeLine(p, l), MeleeLine(q, l))
         /\ Alike(SpellLine(p, l), SpellLine(q, l))
         /\ Alike(RiposteLine(p, l), RiposteLine(q, l))
         /\ Alike(DamageShieldLine(p, l), DamageShieldLine(q, l))
         /\ Alike(TakenLine(p, l), TakenLine(q, l))
         /\ Alike(DotLine(p, l), DotLine(q, l))
         /\ Alike(ThornsLine(p, l), ThornsLine(q, l))
         /\ Alike(ExtraLine(p, l), ExtraLine(q, l))
         /\ Alike(BurnLine(p, l), BurnLine(q, l))
         /\ Alike(PossessiveLine(p, l), PossessiveLine(q, l))
         /\ Alike(BareSpellLine(p, l), BareSpellLine(q, l))
  <1>1. Alike(MeleeLine(p, l), MeleeLine(q, l))
    BY RegisterAlike, EitherAlike, FoughtAlike DEF MeleeLine
  <1>2. /\ Alike(SpellLine(p, l), SpellLine(q, l))
        /\ Alike(RiposteLine(p, l), RiposteLine(q, l))
        /\ Alike(DamageShieldLine(p, l), DamageShieldLine(q, l))
    BY RegisterAlike, EitherAlike, FoughtAlike DEF SpellLine, RiposteLine, DamageShieldLine
  <1>3. Alike(TakenLine(p, l), TakenLine(q, l))
    BY RegisterAlike, StrikeAlike, EitherAlike, FoughtAlike DEF TakenLine
  <1>4. /\ Alike(DotLine(p, l), DotLine(q, l))
        /\ Alike(ThornsLine(p, l), ThornsLine(q, l))
        /\ Alike(ExtraLine(p, l), ExtraLine(q, l))
    BY StrikeAlike, FoughtAlike DEF DotLine, ThornsLine, ExtraLine
  <1>5. Alike(BurnLine(p, l), BurnLine(q, l))
    BY TankAlike, FoughtAlike DEF BurnLine
  <1>6. p.caster = q.caster /\ p.players = q.players /\ p.confirmed = q.confirmed
    BY DEF Alike
  <1>7. Alike(PossessiveLine(p, l), PossessiveLine(q, l))
    BY <1>6, StrikeAlike, FoughtAlike DEF PossessiveLine
  <1>8. Alike(BareSpellLine(p, l), BareSpellLine(q, l))
    <2> DEFINE c == p.caster[l.sp]
    <2>1. Alike([p EXCEPT !.confirmed = p.confirmed \cup {c}], [q EXCEPT !.confirmed = q.confirmed \cup {c}])
      BY DEF Alike, Fields
    <2>2. Alike(Strike(p, [l EXCEPT !.src = c]), Strike(q, [l EXCEPT !.src = c]))
      BY StrikeAlike
    <2>3. /\ Alike(Fought([p EXCEPT !.confirmed = p.confirmed \cup {c}]),
                   Fought([q EXCEPT !.confirmed = q.confirmed \cup {c}]))
          /\ Alike(Fought(Strike(p, [l EXCEPT !.src = c])), Fought(Strike(q, [l EXCEPT !.src = c])))
      BY <2>1, <2>2, FoughtAlike
    <2> QED BY <1>6, <2>3 DEF BareSpellLine
  <1> QED BY <1>1, <1>2, <1>3, <1>4, <1>5, <1>7, <1>8

LEMMA NamedAlike ==
  ASSUME NEW p, NEW q, Alike(p, q), NEW n
  PROVE  FirstNamed(p, n) = FirstNamed(q, n)
  <1> DEFINE all == {i \in DOMAIN p.mobs : SameName(p.mobs[i].name, n)}
             first == CHOOSE i \in all : \A j \in all : i <= j
  <1>1. all = {i \in DOMAIN q.mobs : SameName(q.mobs[i].name, n)}
    BY DEF Alike, MobsAlike
  <1>2. ASSUME all # {} PROVE first \in DOMAIN p.mobs /\ p.mobs[first].id = q.mobs[first].id
    <2>1. all \in SUBSET Nat
      <3>1. IsSequence(p.mobs)
        BY DEF Alike, MobsAlike
      <3> QED BY <3>1, SequenceIs
    <2>2. \E x \in all : \A y \in all : x <= y
      <3> HIDE DEF all
      <3> QED BY <1>2, <2>1, LeastExists
    <2>3. first \in all
      <3> HIDE DEF all
      <3> QED BY <2>2
    <2>4. first \in DOMAIN p.mobs
      BY <2>3
    <2> HIDE DEF first
    <2> QED BY <2>4 DEF Alike, MobsAlike
  <1> DEFINE same == {i \in DOMAIN q.mobs : SameName(q.mobs[i].name, n)}
  <1>3. /\ FirstNamed(p, n) = IF all = {} THEN 0 ELSE p.mobs[first].id
        /\ FirstNamed(q, n) = IF same = {} THEN 0
                              ELSE q.mobs[CHOOSE i \in same : \A j \in same : i <= j].id
    BY DEF FirstNamed
  <1>4. all = same
    BY <1>1
  <1> HIDE DEF all, same
  <1>5. first = CHOOSE i \in same : \A j \in same : i <= j
    BY <1>4
  <1> HIDE DEF first
  <1>6. FirstNamed(q, n) = IF all = {} THEN 0 ELSE q.mobs[first].id
    BY <1>3, <1>4, <1>5
  <1> QED BY <1>2, <1>3, <1>6

LEMMA ControlAlike ==
  ASSUME NEW p, NEW q, Alike(p, q), NEW l
  PROVE  /\ Alike(ParkLine(p, l), ParkLine(q, l))
         /\ Alike(WakeLine(p, l), WakeLine(q, l))
  <1> DEFINE a == UpdateMobList(p, l.tgt)
             b == UpdateMobList(q, l.tgt)
             Event(r) == [k |-> "cc", src |-> l.tgt, tgt |-> l.tgt, mob |-> r.hit]
             Parked(r) == [i \in DOMAIN r.mobs |->
                             [r.mobs[i] EXCEPT !.parked = @ \/ r.mobs[i].id = r.hit]]
             Park(r) == [r EXCEPT !.mobs = Parked(r)]
  <1>1. Alike(a, b) /\ a.hit = b.hit
    BY UpdateMobListAlike DEF Alike
  <1> HIDE DEF a, b
  <1>2. MobsAlike(Parked(a), Parked(b))
    <2>0. MobsAlike(a.mobs, b.mobs)
      BY <1>1 DEF Alike
    <2>1. DOMAIN Parked(a) = DOMAIN a.mobs /\ DOMAIN Parked(b) = DOMAIN a.mobs
      BY <2>0 DEF MobsAlike
    <2>2. ASSUME NEW i \in DOMAIN a.mobs
          PROVE  /\ DOMAIN Parked(a)[i] = MobFields /\ DOMAIN Parked(b)[i] = MobFields
                 /\ Parked(a)[i].id = Parked(b)[i].id /\ Parked(a)[i].name = Parked(b)[i].name
                 /\ Parked(a)[i].last = Parked(b)[i].last /\ Parked(a)[i].last \in Nat \ {0}
                 /\ Parked(a)[i].parked = Parked(b)[i].parked
      <3> DEFINE x == a.mobs[i]
                 y == b.mobs[i]
      <3>1. /\ DOMAIN x = MobFields /\ DOMAIN y = MobFields
            /\ x.id = y.id /\ x.name = y.name /\ x.last = y.last /\ x.parked = y.parked
            /\ x.last \in Nat \ {0}
        BY <2>0 DEF MobsAlike
      <3>2. /\ Parked(a)[i] = [x EXCEPT !.parked = x.parked \/ x.id = a.hit]
            /\ Parked(b)[i] = [y EXCEPT !.parked = y.parked \/ y.id = b.hit]
        BY <2>0 DEF MobsAlike
      <3>3. (x.parked \/ x.id = a.hit) = (y.parked \/ y.id = b.hit)
        BY <1>1, <3>1
      <3> DEFINE u == x.parked \/ x.id = a.hit
      <3> HIDE DEF x, y, Parked, u
      <3>4. /\ Parked(a)[i] = [x EXCEPT !.parked = u]
            /\ Parked(b)[i] = [y EXCEPT !.parked = u]
        BY <3>2, <3>3 DEF u
      <3> QED BY <3>1, <3>4 DEF MobFields
    <2>3. ASSUME NEW r, IsSequence(r.mobs) PROVE IsSequence(Parked(r))
      <3>1. Len(r.mobs) \in Nat /\ DOMAIN r.mobs = 1 .. Len(r.mobs)
        BY <2>3, SequenceIs
      <3>2. DOMAIN Parked(r) = 1 .. Len(r.mobs) /\ Parked(r) = [k \in 1 .. Len(r.mobs) |-> Parked(r)[k]]
        BY <3>1
      <3> HIDE DEF Parked
      <3> QED BY <3>1, <3>2, ListIsSequence
    <2>4. IsSequence(Parked(a)) /\ IsSequence(Parked(b))
      <3> HIDE DEF Parked
      <3> QED BY <1>1, <2>3 DEF Alike, MobsAlike
    <2> HIDE DEF Parked
    <2> QED BY <2>1, <2>2, <2>4 DEF MobsAlike
  <1> HIDE DEF Parked
  <1>3. Alike(Park(a), Park(b))
    BY <1>1, <1>2 DEF Alike, Fields
  <1> HIDE DEF Park
  <1>4. Alike(Emit(Park(a), Event(a)), Emit(Park(b), Event(b)))
    BY <1>1, <1>3, EmitAlike
  <1>5. Alike(Emit(a, Event(a)), Emit(b, Event(b)))
    BY <1>1, EmitAlike
  <1>6. /\ ParkLine(p, l) = UpdateMobName(IF a.hit = NoMob THEN a ELSE Emit(Park(a), Event(a)))
        /\ ParkLine(q, l) = UpdateMobName(IF b.hit = NoMob THEN b ELSE Emit(Park(b), Event(b)))
    BY DEF ParkLine, a, b, Park, Parked
  <1>7. /\ WakeLine(p, l) = UpdateMobName(IF a.hit = NoMob THEN a ELSE Emit(a, Event(a)))
        /\ WakeLine(q, l) = UpdateMobName(IF b.hit = NoMob THEN b ELSE Emit(b, Event(b)))
    BY DEF WakeLine, a, b
  <1> HIDE DEF Event
  <1> QED BY <1>1, <1>4, <1>5, <1>6, <1>7, FoughtAlike

LEMMA SpoilsAlike ==
  ASSUME NEW p, NEW q, Alike(p, q), NEW l
  PROVE  /\ Alike(SlayLine(p, l), SlayLine(q, l))
         /\ Alike(LootLine(p, l), LootLine(q, l))
         /\ Alike(MoneyLine(p, l), MoneyLine(q, l))
         /\ Alike(AbsorbLine(p, l), AbsorbLine(q, l))
  <1>1. Alike(SlayLine(p, l), SlayLine(q, l))
    <2> DEFINE Dead(r) == r.dead \cup {Lower(l.tgt)}
               Over(r) == /\ r.mobs # <<>>
                          /\ \A i \in {j \in DOMAIN r.mobs : r.mobs[j].name \in r.confirmed} :
                               Lower(r.mobs[i].name) \in Dead(r)
               New(r) == [r EXCEPT !.dead = Dead(r), !.ended = @ \/ Over(r),
                                   !.loot = FirstNamed(r, l.tgt), !.lootTs = r.ts]
    <2>1. Dead(p) = Dead(q)
      BY DEF Alike
    <2> HIDE DEF Dead
    <2>2. p.mobs = <<>> <=> q.mobs = <<>>
      <3>1. IsSequence(p.mobs) /\ IsSequence(q.mobs) /\ DOMAIN p.mobs = DOMAIN q.mobs
        BY DEF Alike, MobsAlike
      <3>2. \A m : IsSequence(m) /\ DOMAIN m = {} => m = <<>>
        <4> SUFFICES ASSUME NEW m, IsSequence(m), DOMAIN m = {} PROVE m = <<>>
          OBVIOUS
        <4>1. m \in Seq(Range(m)) /\ Len(m) \in Nat /\ DOMAIN m = 1 .. Len(m)
          BY SequenceIs DEF IsSequence
        <4>2. Len(m) = 0
          BY <4>1
        <4> QED BY <4>1, <4>2, EmptySeq
      <3> QED BY <3>1, <3>2
    <2>3. Over(p) <=> Over(q)
      BY <2>1, <2>2 DEF Alike, MobsAlike
    <2>4. FirstNamed(p, l.tgt) = FirstNamed(q, l.tgt)
      BY NamedAlike
    <2> HIDE DEF Over
    <2>5. Alike(New(p), New(q))
      BY <2>1, <2>3, <2>4 DEF Alike, Fields
    <2>6. ASSUME NEW r
          PROVE  SlayLine(r, l) = Emit(New(r), [k |-> "slay", src |-> l.src, tgt |-> l.tgt,
                                                mob |-> FirstNamed(r, l.tgt)])
      BY DEF SlayLine, Over, Dead
    <2> HIDE DEF New
    <2> QED BY <2>4, <2>5, <2>6, EmitAlike
  <1>2. Alike(LootLine(p, l), LootLine(q, l))
    <2> DEFINE New(r) == [r EXCEPT !.loot = IF r.ts # 0 /\ r.ts - r.lootTs > 120 THEN NoMob ELSE @]
               Named(r) == {i \in DOMAIN r.mobs : SameName(r.mobs[i].name, l.tgt)}
               Newest(r) == CHOOSE i \in Named(r) : \A j \in Named(r) : j <= i
               Mob(r) == IF Named(r) = {} THEN OrZero(New(r).loot) ELSE r.mobs[Newest(r)].id
    <2>1. Alike(New(p), New(q)) /\ New(p).loot = New(q).loot
      BY DEF Alike, Fields
    <2>2. Named(p) = Named(q) /\ IsSequence(p.mobs)
      BY DEF Alike, MobsAlike
    <2>3. Newest(p) = Newest(q)
      BY <2>2
    <2>4. ASSUME Named(p) # {} PROVE p.mobs[Newest(p)].id = q.mobs[Newest(q)].id
      <3> DEFINE N == Named(p)
      <3>1. Len(p.mobs) \in Nat /\ N \in SUBSET Nat /\ \A i \in N : i <= Len(p.mobs)
        BY <2>2, SequenceIs
      <3>2. \E x \in N : \A y \in N : y <= x
        <4> HIDE DEF N
        <4> QED BY <2>4, <3>1, GreatestExists DEF N
      <3>3. Newest(p) \in N
        <4> HIDE DEF N
        <4>1. Newest(p) = CHOOSE i \in N : \A j \in N : j <= i
          BY DEF N
        <4> HIDE DEF Newest
        <4> QED BY <3>2, <4>1
      <3>4. Newest(p) \in DOMAIN p.mobs
        BY <3>3
      <3> HIDE DEF Newest
      <3> QED BY <2>3, <3>4 DEF Alike, MobsAlike
    <2> HIDE DEF Named, Newest, New
    <2>5. Mob(p) = Mob(q)
      BY <2>1, <2>2, <2>4
    <2>6. ASSUME NEW r
          PROVE  LootLine(r, l) = Emit(New(r), [k |-> "loot", src |-> Me, tgt |-> l.tgt, mob |-> Mob(r)])
      BY DEF LootLine, New, Named, Newest
    <2> HIDE DEF Mob
    <2> QED BY <2>1, <2>5, <2>6, EmitAlike
  <1>3. p.active = q.active
    BY DEF Alike
  <1>4. Alike(MoneyLine(p, l), MoneyLine(q, l)) /\ Alike(AbsorbLine(p, l), AbsorbLine(q, l))
    BY <1>3, EmitAlike DEF MoneyLine, AbsorbLine
  <1> QED BY <1>1, <1>2, <1>4

LEMMA OthersAlike ==
  ASSUME NEW p, NEW q, Alike(p, q), NEW l
  PROVE  /\ Alike(MissLine(p, l), MissLine(q, l))
         /\ Alike(HealLine(p, l), HealLine(q, l))
         /\ Alike(WhoLine(p, l), WhoLine(q, l))
         /\ Alike(ResistLine(p, l), ResistLine(q, l))
         /\ Alike(Cast(p, l), Cast(q, l))
         /\ Alike(Berserk(p, l), Berserk(q, l))
  <1>1. Alike(MissLine(p, l), MissLine(q, l))
    <2> DEFINE Book(r) == [r EXCEPT !.tab = Plus(r.tab, {<<"avoid", l.tgt>>})]
               Believe(r) == [r EXCEPT !.confirmed = r.confirmed \cup {l.src}]
               Aware(r) == RegisterWarder(Book(AssociateSummoned(r, l.src)), l.src)
               Sight(r) == UpdateMobList(Believe(Aware(r)), l.src)
               Event(n) == [k |-> "miss", src |-> l.src, tgt |-> l.tgt, mob |-> OrZero(n)]
    <2>1. ASSUME NEW a, NEW b, Alike(a, b) PROVE Alike(Book(a), Book(b)) /\ Alike(Believe(a), Believe(b))
      BY <2>1 DEF Alike, Fields
    <2>2. ASSUME NEW r
          PROVE  MissLine(r, l) = IF SrcIsMob(Aware(r), l) THEN Emit(Sight(r), Event(Sight(r).hit))
                                  ELSE Emit(Aware(r), Event(Aware(r).active))
      BY DEF MissLine
    <2> HIDE DEF Book, Believe
    <2>3. Alike(Aware(p), Aware(q))
      BY <2>1, RegisterAlike
    <2> HIDE DEF Aware
    <2>4. Alike(Sight(p), Sight(q))
      BY <2>1, <2>3, UpdateMobListAlike
    <2> HIDE DEF Sight
    <2>5. Sight(p).hit = Sight(q).hit /\ Aware(p).active = Aware(q).active
      BY <2>3, <2>4 DEF Alike
    <2>6. /\ Alike(Emit(Sight(p), Event(Sight(p).hit)), Emit(Sight(q), Event(Sight(q).hit)))
          /\ Alike(Emit(Aware(p), Event(Aware(p).active)), Emit(Aware(q), Event(Aware(q).active)))
      BY <2>3, <2>4, <2>5, EmitAlike
    <2>7. SrcIsMob(Aware(p), l) <=> SrcIsMob(Aware(q), l)
      BY <2>3, EitherAlike
    <2> HIDE DEF Event
    <2> QED BY <2>2, <2>6, <2>7
  <1>2. Alike(HealLine(p, l), HealLine(q, l))
    <2> DEFINE Book(r) == [r EXCEPT !.tab =
                             Plus(r.tab, IF r.active = NoMob THEN {<<"heal", l.src>>}
                                         ELSE {<<"heal", l.src>>, <<"heal", r.active, l.src>>})]
               Event(r) == [k |-> "heal", src |-> l.src, tgt |-> l.tgt, mob |-> OrZero(r.active)]
    <2>1. Alike(Book(p), Book(q))
      BY DEF Alike, Fields
    <2>2. /\ Event(p) = Event(q) /\ p.players = q.players /\ p.confirmed = q.confirmed
          /\ p.active = q.active
      BY DEF Alike
    <2>3. ASSUME NEW r
          PROVE  HealLine(r, l) = IF /\ l.src \notin r.players
                                     /\ l.src \in r.confirmed \/ (l.src \in Spaced /\ l.tgt = l.src)
                                  THEN UpdateMobList(r, l.src) ELSE Emit(Book(r), Event(r))
      BY DEF HealLine
    <2> HIDE DEF Book, Event
    <2>4. Alike(Emit(Book(p), Event(p)), Emit(Book(q), Event(q)))
      BY <2>1, <2>2, EmitAlike
    <2>5. Alike(UpdateMobList(p, l.src), UpdateMobList(q, l.src))
      BY UpdateMobListAlike
    <2> QED BY <2>2, <2>3, <2>4, <2>5
  <1>3. Alike(WhoLine(p, l), WhoLine(q, l)) /\ Alike(ResistLine(p, l), ResistLine(q, l))
    BY DEF Alike, Fields, WhoLine, ResistLine, Emit
  <1>4. Alike(Cast(p, l), Cast(q, l))
    BY DEF Alike, Fields, Cast, Emit
  <1>5. Alike(Berserk(p, l), Berserk(q, l))
    <2>1. p.ts = q.ts /\ p.buff = q.buff
      BY DEF Alike
    <2>2. Alike(Own(p, l.src, p.buff.who), Own(q, l.src, p.buff.who))
      BY OwnAlike
    <2>3. ASSUME NEW a, NEW b, Alike(a, b)
          PROVE  Alike([a EXCEPT !.buff = NoCast], [b EXCEPT !.buff = NoCast])
      BY <2>3 DEF Alike, Fields
    <2> QED BY <2>1, <2>2, <2>3 DEF Berserk
  <1> QED BY <1>1, <1>2, <1>3, <1>4, <1>5

(* Any line, then a line with its time stamps. *)
LEMMA HandleAlike ==
  ASSUME NEW p, NEW q, Alike(p, q), NEW l, l.op \in Ops
  PROVE  Alike(Handle(p, l), Handle(q, l))
  BY BlowsAlike, ControlAlike, SpoilsAlike, OthersAlike DEF Ops, Handle, Swings

LEMMA ReadAlike ==
  ASSUME NEW p, NEW q, Alike(p, q), NEW l, l.op \in Ops, NEW jump \in Nat
  PROVE  Alike(Read(p, l, jump), Read(q, l, jump))
  <1> DEFINE New(r) == [r EXCEPT !.ts = @ + jump, !.out = <<>>, !.hit = NoMob,
                                 !.wall = @ + IF r.pace = -1 THEN jump ELSE r.pace]
  <1>1. Alike(New(p), New(q))
    BY DEF Alike, Fields
  <1>2. ASSUME NEW r PROVE Read(r, l, jump) = Handle(New(r), l)
    BY DEF Read
  <1> HIDE DEF New
  <1> QED BY <1>1, <1>2, HandleAlike

LEMMA FreshAlike ==
  ASSUME NEW a, NEW b
  PROVE  Alike(Fresh(a), Fresh(b))
  <1>1. MobsAlike(<<>>, <<>>)
    <2>1. DOMAIN <<>> = 1 .. 0 /\ <<>> = [k \in 1 .. 0 |-> <<>>[k]]
      OBVIOUS
    <2>2. IsSequence(<<>>)
      BY <2>1, ListIsSequence
    <2> QED BY <2>1, <2>2 DEF MobsAlike
  <1> QED BY <1>1 DEF Alike, Fresh, Fields

LEMMA ResetAlike ==
  ASSUME NEW p, NEW q, Alike(p, q)
  PROVE  Alike(Reset(p), Reset(q))
  <1>1. Alike(Fresh(p.pace), Fresh(q.pace))
    BY FreshAlike
  <1> QED BY <1>1 DEF Alike, Fields, Reset

(* Whatever time-stamped lines are read, however long the waits between them and
   whatever the speeds: live play, imports and replays make the same events and
   the same totals (update_mob_list goes by the log's time, parser.rs). *)
THEOREM SpeedDoesNotMatter == CombatSpec => []ReplaysAlike
  <1> DEFINE Inv == scene \in DOMAIN Script /\ Alike(s, twin)
  <1>1. CombatInit => Inv
    BY FreshAlike DEF CombatInit
  <1>2. Inv /\ [CombatNext]_combatVars => Inv'
    <2> SUFFICES ASSUME Inv, [CombatNext]_combatVars PROVE Inv'
      OBVIOUS
    <2>1. CASE ReadLine
      <3>1. PICK l \in Script[scene], jump \in Jumps[scene] : Line(l, jump)
        BY <2>1 DEF ReadLine
      <3>2. l.op \in Ops /\ jump \in Nat
        BY ScriptAssumption
      <3> QED BY <3>1, <3>2, ReadAlike DEF Line
    <2>2. CASE PressReset
      BY <2>2, ResetAlike DEF PressReset
    <2>3. CASE UNCHANGED combatVars
      BY <2>3 DEF combatVars
    <2> QED BY <2>1, <2>2, <2>3 DEF CombatNext
  <1>3. Inv => ReplaysAlike
    BY DEF Alike, ReplaysAlike
  <1> QED BY <1>1, <1>2, <1>3, PTL DEF CombatSpec

-----------------------------------------------------------------------------
(* The overlays' totals and the stream's *)

Clear(k) == Len(k) = 2 \/ k[2] # 0

Amounts(tab) == \A k \in DOMAIN tab : tab[k] \in Nat

(* A table with one more under some keys. *)
Grown(old, new, K) ==
  \A k : /\ k \in DOMAIN new <=> k \in DOMAIN old \cup K
         /\ k \in DOMAIN new =>
              new[k] = (IF k \in DOMAIN old THEN old[k] ELSE 0) + (IF k \in K THEN 1 ELSE 0)

(* So far the line has booked nothing and told nothing that counts; or it has
   booked what it told. *)
Silent(p, tab) ==
  /\ DOMAIN p = Fields /\ p.tab = tab
  /\ IsSequence(p.out) /\ \A e \in Range(p.out) : Counted(e) = {}

Booked(p, tab) ==
  /\ DOMAIN p = Fields
  /\ \E K : /\ Grown(tab, p.tab, K)
            /\ \A k : Clear(k) => (k \in K <=> \E e \in Range(p.out) : k \in Counted(e))

(* A step that books and tells nothing. *)
Mute(p, q) == DOMAIN p = Fields => DOMAIN q = Fields /\ q.tab = p.tab /\ q.out = p.out

LEMMA PlusGrows ==
  ASSUME NEW f, NEW K
  PROVE  Grown(f, Plus(f, K), K)
  BY DEF Grown, Plus

LEMMA MuteKeeps ==
  ASSUME NEW p, NEW q, Mute(p, q), NEW tab
  PROVE  (Silent(p, tab) => Silent(q, tab)) /\ (Booked(p, tab) => Booked(q, tab))
  BY DEF Mute, Silent, Booked

LEMMA SilentIsBooked ==
  ASSUME NEW p, NEW tab, Silent(p, tab), Amounts(tab)
  PROVE  Booked(p, tab)
  <1>1. Grown(tab, p.tab, {})
    BY DEF Grown, Silent, Amounts
  <1>2. \A k : k \in {} <=> \E e \in Range(p.out) : k \in Counted(e)
    BY DEF Silent
  <1> QED BY <1>1, <1>2 DEF Booked, Silent

LEMMA EmitKeepsSilent ==
  ASSUME NEW p, NEW tab, Silent(p, tab), NEW e, Counted(e) = {}
  PROVE  Silent(Emit(p, e), tab)
  <1>1. IsSequence(Append(p.out, e)) /\ Range(Append(p.out, e)) = Range(p.out) \cup {e}
    BY AppendIs DEF Silent
  <1> QED BY <1>1 DEF Silent, Emit, Fields

(* What is booked and then told. *)
LEMMA EmitBooks ==
  ASSUME NEW p, NEW tab, Silent(p, tab), NEW q, DOMAIN q = Fields, q.out = p.out,
         NEW K, Grown(tab, q.tab, K), NEW e, \A k : Clear(k) => (k \in K <=> k \in Counted(e))
  PROVE  Booked(Emit(q, e), tab)
  <1>1. Range(Append(p.out, e)) = Range(p.out) \cup {e}
    BY AppendIs DEF Silent
  <1>2. \A k : (\E x \in Range(p.out) \cup {e} : k \in Counted(x)) <=> k \in Counted(e)
    BY DEF Silent
  <1>3. /\ DOMAIN Emit(q, e) = Fields /\ Emit(q, e).tab = q.tab
        /\ Emit(q, e).out = Append(p.out, e)
    BY DEF Emit, Fields
  <1> QED BY <1>1, <1>2, <1>3 DEF Booked

(* Sightings, evictions and the naming of mobs book and tell nothing. *)
LEMMA MuteSteps ==
  ASSUME NEW p
  PROVE  /\ \A N : Mute(p, Evict(p, N))
         /\ \A n : Mute(p, UpdateMobList(p, n))
         /\ \A n : Mute(p, RegisterQuietly(p, n))
         /\ Mute(p, UpdateMobName(p))
         /\ Mute(p, Fought(p))
  <1>1. ASSUME NEW r, NEW N PROVE Mute(r, Evict(r, N))
    BY DEF Mute, Evict, Fields
  <1>2. ASSUME NEW n PROVE Mute(p, UpdateMobList(p, n))
    <2>1. Mute([p EXCEPT !.hit = NoMob], Evict([p EXCEPT !.hit = NoMob], {n}))
      BY <1>1
    <2>2. ASSUME NEW r, NEW i PROVE Mute(r, SightAgain(r, n, i)) /\ Mute(r, SightAnew(r, n))
      BY DEF Mute, SightAgain, SightAnew, Fields
    <2>3. /\ Mute(p, [p EXCEPT !.hit = NoMob])
          /\ Mute(p, [p EXCEPT !.dead = p.dead \ {Lower(n)}])
      BY DEF Mute, Fields
    <2>4. \A q, r : Mute(p, q) /\ Mute(q, r) => Mute(p, r)
      BY DEF Mute
    <2> QED BY <2>1, <2>2, <2>3, <2>4 DEF UpdateMobList
  <1>3. ASSUME NEW n PROVE Mute(p, RegisterQuietly(p, n))
    BY DEF Mute, RegisterQuietly, Fields
  <1>4. ASSUME NEW r PROVE Mute(r, UpdateMobName(r))
    <2> DEFINE New == [r EXCEPT !.confirmed = (r.confirmed \cup r.cands) \ (r.cands \cap r.players)]
    <2>1. Mute(r, New)
      BY DEF Mute, Fields
    <2>2. UpdateMobName(r) = Evict(New, r.cands \cap r.players)
      BY DEF UpdateMobName
    <2> HIDE DEF New
    <2>3. Mute(New, UpdateMobName(r))
      BY <2>2, <1>1
    <2> QED BY <2>1, <2>3 DEF Mute
  <1>5. Mute(p, Fought(p))
    <2>1. Mute(p, [p EXCEPT !.started = TRUE])
      BY DEF Mute, Fields
    <2>2. Mute([p EXCEPT !.started = TRUE], Fought(p))
      BY <1>4 DEF Fought
    <2> QED BY <2>1, <2>2 DEF Mute
  <1> QED BY <1>1, <1>2, <1>3, <1>4, <1>5

(* Pets and warders are told, but nothing that is counted. *)
LEMMA RegisterSilent ==
  ASSUME NEW p, NEW tab, Silent(p, tab)
  PROVE  /\ \A n, o : Silent(Own(p, n, o), tab)
         /\ \A n : /\ Silent(RegisterQuietly(p, n), tab)
                   /\ Silent(RegisterWarder(p, n), tab)
                   /\ Silent(AssociateSummoned(p, n), tab)
  <1>1. ASSUME NEW n, NEW o PROVE Silent(Own(p, n, o), tab)
    <2> DEFINE New == [p EXCEPT !.pets = Put(p.pets, n, o), !.players = p.players \cup {n}]
               e == [k |-> "pet", src |-> n, tgt |-> o, mob |-> 0]
    <2>1. Silent(New, tab)
      BY DEF Silent, Fields
    <2>2. Counted(e) = {}
      BY DEF Counted
    <2>3. Own(p, n, o) = Emit(New, e)
      BY DEF Own
    <2> HIDE DEF New, e
    <2> QED BY <2>1, <2>2, <2>3, EmitKeepsSilent
  <1>2. ASSUME NEW n PROVE Silent(RegisterQuietly(p, n), tab)
    BY MuteSteps, MuteKeeps
  <1>3. ASSUME NEW n PROVE Silent(RegisterWarder(p, n), tab)
    <2>1. Silent([p EXCEPT !.players = p.players \cup {n}], tab)
      BY DEF Silent, Fields
    <2> QED BY <1>1, <2>1 DEF RegisterWarder
  <1>4. ASSUME NEW n PROVE Silent(AssociateSummoned(p, n), tab)
    <2>1. ASSUME NEW q, Silent(q, tab) PROVE Silent([q EXCEPT !.summon = NoCast], tab)
      BY <2>1 DEF Silent, Fields
    <2> QED BY <1>1, <2>1 DEF AssociateSummoned
  <1> QED BY <1>1, <1>2, <1>3, <1>4

LEMMA UnclearZero ==
  ASSUME NEW a, NEW b
  PROVE  ~Clear(<<a, 0, b>>)
  BY DEF Clear

(* A blow is booked under the keys it is told under, number 0 apart. *)
LEMMA EitherBooks ==
  ASSUME NEW p, NEW tab, Silent(p, tab), Amounts(tab), NEW l
  PROVE  Booked(Tank(p, l), tab) /\ Booked(Strike(p, l), tab) /\ Booked(Either(p, l), tab)
  <1>1. Booked(Tank(p, l), tab)
    <2> DEFINE New == [p EXCEPT !.confirmed = p.confirmed \cup {l.src}]
               Sight == UpdateMobList(New, l.src)
               Book == [Sight EXCEPT !.tab = IF Sight.hit = NoMob THEN Sight.tab
                                             ELSE Plus(Sight.tab, {<<"tank", Sight.hit, l.tgt>>})]
               K == IF Sight.hit = NoMob THEN {} ELSE {<<"tank", Sight.hit, l.tgt>>}
               e == [k |-> "tank", src |-> l.src, tgt |-> l.tgt, mob |-> OrZero(Sight.hit)]
    <2>1. Silent(New, tab)
      BY DEF Silent, Fields
    <2>2. Tank(p, l) = Emit(Book, e)
      <3>1. Book.hit = Sight.hit
        <4>1. DOMAIN Sight = Fields
          BY <2>1, MuteSteps DEF Mute, Silent
        <4> HIDE DEF Sight
        <4> QED BY <4>1 DEF Fields
      <3>2. Tank(p, l) = Hit(Book, l, TRUE)
        BY DEF Tank
      <3> HIDE DEF Book, Sight
      <3> QED BY <3>1, <3>2 DEF Hit
    <2> HIDE DEF New
    <2>3. Silent(Sight, tab)
      BY <2>1, MuteSteps, MuteKeeps
    <2> HIDE DEF Sight
    <2>4. DOMAIN Book = Fields /\ Book.out = Sight.out
      BY <2>3 DEF Silent, Fields
    <2>5. Grown(tab, Book.tab, K)
      <3>1. Grown(tab, Plus(tab, {<<"tank", Sight.hit, l.tgt>>}), {<<"tank", Sight.hit, l.tgt>>})
        BY PlusGrows
      <3>2. Grown(tab, tab, {})
        BY DEF Grown, Amounts
      <3> QED BY <2>3, <3>1, <3>2 DEF Silent, Fields
    <2>6. Counted(e) = {<<"tank", OrZero(Sight.hit), l.tgt>>}
      BY DEF Counted
    <2>7. \A k : Clear(k) => (k \in K <=> k \in Counted(e))
      BY <2>6, UnclearZero DEF OrZero
    <2> HIDE DEF Book, K, e
    <2> QED BY <2>2, <2>3, <2>4, <2>5, <2>7, EmitBooks
  <1>2. Booked(Strike(p, l), tab)
    <2> DEFINE New == [p EXCEPT !.players = p.players \cup {l.src},
                                !.cands = p.cands \cup ({l.tgt} \ Corpses)]
               Sight == UpdateMobList(New, l.tgt)
               K == IF Sight.hit = NoMob THEN {<<"damage", l.src>>}
                    ELSE {<<"damage", l.src>>} \cup {<<"damage", Sight.hit, l.src>>}
               Book == [Sight EXCEPT !.tab = Plus(Sight.tab, K)]
               e == [k |-> "damage", src |-> l.src, tgt |-> l.tgt, mob |-> OrZero(Sight.hit)]
    <2>1. Silent(New, tab)
      BY DEF Silent, Fields
    <2>2. Strike(p, l) = Emit(Book, e)
      <3>1. Book.hit = Sight.hit
        <4>1. DOMAIN Sight = Fields
          BY <2>1, MuteSteps DEF Mute, Silent
        <4> HIDE DEF Sight, K
        <4> QED BY <4>1 DEF Fields
      <3>2. Strike(p, l) = Hit(Book, l, FALSE)
        BY DEF Strike
      <3> HIDE DEF Book, Sight
      <3> QED BY <3>1, <3>2 DEF Hit
    <2> HIDE DEF New
    <2>3. Silent(Sight, tab)
      BY <2>1, MuteSteps, MuteKeeps
    <2> HIDE DEF Sight
    <2>6. Counted(e) = {<<"damage", l.src>>, <<"damage", OrZero(Sight.hit), l.src>>}
      BY DEF Counted
    <2>7. \A k : Clear(k) => (k \in K <=> k \in Counted(e))
      BY <2>6, UnclearZero DEF OrZero
    <2> HIDE DEF K
    <2>4. DOMAIN Book = Fields /\ Book.out = Sight.out
      BY <2>3 DEF Silent, Fields
    <2>5. Grown(tab, Book.tab, K)
      BY <2>3, PlusGrows DEF Silent, Fields
    <2> HIDE DEF Book, e
    <2> QED BY <2>2, <2>3, <2>4, <2>5, <2>7, EmitBooks
  <1> QED BY <1>1, <1>2 DEF Either

LEMMA FoughtBooks ==
  ASSUME NEW p, NEW tab, Booked(p, tab)
  PROVE  Booked(Fought(p), tab)
  BY MuteSteps, MuteKeeps

(* The lines of a fight. *)
LEMMA BlowsBook ==
  ASSUME NEW p, NEW tab, Silent(p, tab), Amounts(tab), NEW l
  PROVE  /\ Booked(MeleeLine(p, l), tab) /\ Booked(SpellLine(p, l), tab)
         /\ Booked(RiposteLine(p, l), tab) /\ Booked(DamageShieldLine(p, l), tab)
         /\ Booked(TakenLine(p, l), tab) /\ Booked(DotLine(p, l), tab)
         /\ Booked(ThornsLine(p, l), tab) /\ Booked(ExtraLine(p, l), tab)
         /\ Booked(BurnLine(p, l), tab) /\ Booked(PossessiveLine(p, l), tab)
         /\ Booked(BareSpellLine(p, l), tab)
  <1>1. Booked(p, tab)
    BY SilentIsBooked
  <1>2. Booked(MeleeLine(p, l), tab)
    BY RegisterSilent, EitherBooks, FoughtBooks DEF MeleeLine
  <1>3. Booked(SpellLine(p, l), tab) /\ Booked(RiposteLine(p, l), tab)
        /\ Booked(DamageShieldLine(p, l), tab)
    BY RegisterSilent, EitherBooks, FoughtBooks DEF SpellLine, RiposteLine, DamageShieldLine
  <1>4. Booked(TakenLine(p, l), tab)
    BY RegisterSilent, EitherBooks, FoughtBooks DEF TakenLine
  <1>5. /\ Booked(DotLine(p, l), tab) /\ Booked(ThornsLine(p, l), tab)
        /\ Booked(ExtraLine(p, l), tab) /\ Booked(BurnLine(p, l), tab)
    BY EitherBooks, FoughtBooks DEF DotLine, ThornsLine, ExtraLine, BurnLine
  <1>6. Booked(PossessiveLine(p, l), tab)
    <2>1. Booked(Fought(p), tab) /\ \A c : Booked(Fought(Strike(p, c)), tab)
      BY <1>1, EitherBooks, FoughtBooks
    <2> QED BY <2>1 DEF PossessiveLine
  <1>7. Booked(BareSpellLine(p, l), tab)
    <2>1. ASSUME NEW c PROVE Booked(Fought([p EXCEPT !.confirmed = p.confirmed \cup {c}]), tab)
      <3>1. Silent([p EXCEPT !.confirmed = p.confirmed \cup {c}], tab)
        BY DEF Silent, Fields
      <3> QED BY <3>1, SilentIsBooked, FoughtBooks
    <2>2. \A c : Booked(Fought(Strike(p, c)), tab)
      BY EitherBooks, FoughtBooks
    <2> QED BY <1>1, <2>1, <2>2 DEF BareSpellLine
  <1> QED BY <1>2, <1>3, <1>4, <1>5, <1>6, <1>7

(* Crowd control, deaths, loot, casts and the like are told and not booked. *)
LEMMA OthersBook ==
  ASSUME NEW p, NEW tab, Silent(p, tab), Amounts(tab), NEW l
  PROVE  /\ Booked(ParkLine(p, l), tab) /\ Booked(WakeLine(p, l), tab)
         /\ Booked(SlayLine(p, l), tab) /\ Booked(LootLine(p, l), tab)
         /\ Booked(MoneyLine(p, l), tab) /\ Booked(AbsorbLine(p, l), tab)
         /\ Booked(WhoLine(p, l), tab) /\ Booked(Cast(p, l), tab)
         /\ Booked(Berserk(p, l), tab)
  <1>1. ASSUME NEW q, Silent(q, tab), NEW e, e.k \in {"cc", "slay", "loot", "money", "absorb", "who", "cast"}
        PROVE  Silent(Emit(q, e), tab) /\ Booked(Emit(q, e), tab)
    <2>1. Counted(e) = {}
      BY <1>1 DEF Counted
    <2> QED BY <1>1, <2>1, EmitKeepsSilent, SilentIsBooked
  <1>2. Booked(ParkLine(p, l), tab) /\ Booked(WakeLine(p, l), tab)
    <2> DEFINE q == UpdateMobList(p, l.tgt)
               e == [k |-> "cc", src |-> l.tgt, tgt |-> l.tgt, mob |-> q.hit]
    <2>1. Silent(q, tab)
      BY MuteSteps, MuteKeeps
    <2>2. e.k = "cc"
      OBVIOUS
    <2>3. ASSUME NEW m PROVE Silent([q EXCEPT !.mobs = m], tab)
      <3> HIDE DEF q
      <3> QED BY <2>1 DEF Silent, Fields
    <2>4. ASSUME NEW r, Booked(r, tab) PROVE Booked(UpdateMobName(r), tab)
      BY <2>4, MuteSteps, MuteKeeps
    <2> HIDE DEF e, q
    <2>5. Booked(q, tab) /\ Booked(Emit(q, e), tab) /\ \A m : Booked(Emit([q EXCEPT !.mobs = m], e), tab)
      BY <1>1, <2>1, <2>2, <2>3, SilentIsBooked
    <2>6. ParkLine(p, l) = UpdateMobName(IF q.hit = NoMob THEN q
             ELSE Emit([q EXCEPT !.mobs = [i \in DOMAIN q.mobs |->
                          [q.mobs[i] EXCEPT !.parked = @ \/ q.mobs[i].id = q.hit]]], e))
      BY DEF ParkLine, q, e
    <2>7. WakeLine(p, l) = UpdateMobName(IF q.hit = NoMob THEN q ELSE Emit(q, e))
      BY DEF WakeLine, q, e
    <2> QED BY <2>4, <2>5, <2>6, <2>7
  <1>3. Booked(SlayLine(p, l), tab)
    <2> DEFINE e == [k |-> "slay", src |-> l.src, tgt |-> l.tgt, mob |-> FirstNamed(p, l.tgt)]
    <2>1. PICK a, b, c, t :
            SlayLine(p, l) = Emit([p EXCEPT !.dead = a, !.ended = b, !.loot = c, !.lootTs = t], e)
      BY DEF SlayLine
    <2>2. Silent([p EXCEPT !.dead = a, !.ended = b, !.loot = c, !.lootTs = t], tab)
      BY DEF Silent, Fields
    <2>3. e.k = "slay"
      OBVIOUS
    <2> HIDE DEF e
    <2> QED BY <1>1, <2>1, <2>2, <2>3
  <1>4. Booked(LootLine(p, l), tab)
    <2> DEFINE e(m) == [k |-> "loot", src |-> Me, tgt |-> l.tgt, mob |-> m]
    <2>1. PICK a, m : LootLine(p, l) = Emit([p EXCEPT !.loot = a], e(m))
      BY DEF LootLine
    <2>2. Silent([p EXCEPT !.loot = a], tab)
      BY DEF Silent, Fields
    <2>3. e(m).k = "loot"
      OBVIOUS
    <2> HIDE DEF e
    <2> QED BY <1>1, <2>1, <2>2, <2>3
  <1>5. Booked(MoneyLine(p, l), tab) /\ Booked(AbsorbLine(p, l), tab)
    BY <1>1 DEF MoneyLine, AbsorbLine
  <1>6. Booked(WhoLine(p, l), tab) /\ Booked(Cast(p, l), tab)
    <2> DEFINE e(k) == [k |-> k, src |-> l.src, tgt |-> l.src, mob |-> 0]
    <2>1. PICK a : WhoLine(p, l) = Emit([p EXCEPT !.classes = a], e("who"))
      BY DEF WhoLine
    <2>2. PICK b, c, t : Cast(p, l) = Emit([p EXCEPT !.caster = b, !.buff = c, !.summon = t], e("cast"))
      BY DEF Cast
    <2>3. Silent([p EXCEPT !.classes = a], tab)
      BY DEF Silent, Fields
    <2>4. Silent([p EXCEPT !.caster = b, !.buff = c, !.summon = t], tab)
      BY DEF Silent, Fields
    <2>5. e("who").k = "who" /\ e("cast").k = "cast"
      OBVIOUS
    <2> HIDE DEF e
    <2>6. Booked(WhoLine(p, l), tab)
      BY <1>1, <2>1, <2>3, <2>5
    <2>7. Booked(Cast(p, l), tab)
      BY <1>1, <2>2, <2>4, <2>5
    <2> QED BY <2>6, <2>7
  <1>7. Booked(Berserk(p, l), tab)
    <2>1. ASSUME NEW q, Silent(q, tab) PROVE Silent([q EXCEPT !.buff = NoCast], tab)
      BY <2>1 DEF Silent, Fields
    <2>2. Silent(Berserk(p, l), tab)
      BY <2>1, RegisterSilent DEF Berserk
    <2> QED BY <2>2, SilentIsBooked
  <1> QED BY <1>2, <1>3, <1>4, <1>5, <1>6, <1>7

(* An avoided blow, a heal and a resist are booked once. *)
LEMMA MissAndHealBook ==
  ASSUME NEW p, NEW tab, Silent(p, tab), Amounts(tab), NEW l
  PROVE  /\ Booked(MissLine(p, l), tab) /\ Booked(HealLine(p, l), tab)
         /\ Booked(ResistLine(p, l), tab)
  <1>1. Booked(ResistLine(p, l), tab)
    <2> DEFINE K == {<<"resist", l.src>>}
               q == [p EXCEPT !.tab = Plus(p.tab, K)]
               e == [k |-> "resist", src |-> l.src, tgt |-> l.tgt, mob |-> 0]
    <2>1. Counted(e) = K
      BY DEF Counted
    <2>2. ResistLine(p, l) = Emit(q, e)
      BY DEF ResistLine
    <2> HIDE DEF K, e
    <2>3. DOMAIN q = Fields /\ q.out = p.out /\ Grown(tab, q.tab, K)
      BY PlusGrows DEF Silent, Fields
    <2> HIDE DEF q
    <2> QED BY <2>1, <2>2, <2>3, EmitBooks
  <1>2. Booked(HealLine(p, l), tab)
    <2> DEFINE K == IF p.active = NoMob THEN {<<"heal", l.src>>}
                    ELSE {<<"heal", l.src>>, <<"heal", p.active, l.src>>}
               q == [p EXCEPT !.tab = Plus(p.tab, K)]
               e == [k |-> "heal", src |-> l.src, tgt |-> l.tgt, mob |-> OrZero(p.active)]
    <2>1. Counted(e) = {<<"heal", l.src>>, <<"heal", OrZero(p.active), l.src>>}
      BY DEF Counted
    <2>2. \A k : Clear(k) => (k \in K <=> k \in Counted(e))
      BY <2>1, UnclearZero DEF OrZero
    <2>3. HealLine(p, l) = UpdateMobList(p, l.src) \/ HealLine(p, l) = Emit(q, e)
      BY DEF HealLine
    <2> HIDE DEF K, e
    <2>4. DOMAIN q = Fields /\ q.out = p.out /\ Grown(tab, q.tab, K)
      BY PlusGrows DEF Silent, Fields
    <2> HIDE DEF q
    <2>5. Booked(Emit(q, e), tab)
      BY <2>2, <2>4, EmitBooks
    <2>6. Booked(UpdateMobList(p, l.src), tab)
      BY MuteSteps, MuteKeeps, SilentIsBooked
    <2> QED BY <2>3, <2>5, <2>6
  <1>3. Booked(MissLine(p, l), tab)
    <2> DEFINE K == {<<"avoid", l.tgt>>}
               a == AssociateSummoned(p, l.src)
               b == [a EXCEPT !.tab = Plus(a.tab, K)]
               q == RegisterWarder(b, l.src)
               c == [q EXCEPT !.confirmed = q.confirmed \cup {l.src}]
               r == UpdateMobList(c, l.src)
               Event(n) == [k |-> "miss", src |-> l.src, tgt |-> l.tgt, mob |-> OrZero(n)]
    <2>1. Silent(a, tab)
      BY RegisterSilent
    <2> HIDE DEF a
    <2>2. \A n : Counted(Event(n)) = K
      BY DEF Counted
    <2> HIDE DEF K
    <2>3. DOMAIN b = Fields /\ b.out = a.out /\ Grown(tab, b.tab, K) /\ Silent(b, b.tab)
      BY <2>1, PlusGrows DEF Silent, Fields
    <2>4. ASSUME NEW x, Silent(x, b.tab), NEW n PROVE Booked(Emit(x, Event(n)), tab)
      <3>1. IsSequence(Append(x.out, Event(n))) /\ Range(Append(x.out, Event(n))) = Range(x.out) \cup {Event(n)}
        BY <2>4, AppendIs DEF Silent
      <3>2. /\ DOMAIN Emit(x, Event(n)) = Fields /\ Emit(x, Event(n)).tab = b.tab
            /\ Emit(x, Event(n)).out = Append(x.out, Event(n))
        <4> HIDE DEF Event
        <4> QED BY <2>4 DEF Emit, Fields, Silent
      <3>3. \A k : (\E y \in Range(x.out) \cup {Event(n)} : k \in Counted(y)) <=> k \in K
        <4> HIDE DEF Event
        <4> QED BY <2>2, <2>4 DEF Silent
      <3> HIDE DEF Event
      <3> QED BY <2>3, <3>1, <3>2, <3>3 DEF Booked
    <2>5. MissLine(p, l) = IF SrcIsMob(q, l) THEN Emit(r, Event(r.hit)) ELSE Emit(q, Event(q.active))
      BY DEF MissLine, a, K
    <2> HIDE DEF Event
    <2>6. Silent(q, b.tab)
      <3> HIDE DEF b
      <3> QED BY <2>3, RegisterSilent
    <2> HIDE DEF q, b
    <2>7. Silent(r, b.tab)
      <3>1. Silent(c, b.tab)
        BY <2>6 DEF Silent, Fields
      <3> HIDE DEF c
      <3>2. Mute(c, r)
        BY MuteSteps
      <3> QED BY <3>1, <3>2, MuteKeeps
    <2> HIDE DEF r, c
    <2> QED BY <2>4, <2>5, <2>6, <2>7
  <1> QED BY <1>1, <1>2, <1>3

LEMMA HandleBooks ==
  ASSUME NEW p, NEW tab, Silent(p, tab), Amounts(tab), NEW l, l.op \in Ops
  PROVE  Booked(Handle(p, l), tab)
  BY BlowsBook, OthersBook, MissAndHealBook DEF Ops, Handle, Swings

LEMMA ReadBooks ==
  ASSUME NEW p, DOMAIN p = Fields, Amounts(p.tab), NEW l, l.op \in Ops, NEW jump
  PROVE  Booked(Read(p, l, jump), p.tab)
  <1> DEFINE New == [p EXCEPT !.ts = @ + jump, !.out = <<>>, !.hit = NoMob,
                              !.wall = @ + IF p.pace = -1 THEN jump ELSE p.pace]
  <1>1. Silent(New, p.tab)
    <2>1. DOMAIN <<>> = 1 .. 0 /\ <<>> = [k \in 1 .. 0 |-> <<>>[k]] /\ Range(<<>>) = {}
      BY DEF Range
    <2>2. IsSequence(<<>>)
      BY <2>1, ListIsSequence
    <2>3. DOMAIN New = Fields /\ New.tab = p.tab /\ New.out = <<>>
      BY DEF Fields
    <2> QED BY <2>1, <2>2, <2>3 DEF Silent
  <1>2. Read(p, l, jump) = Handle(New, l)
    BY DEF Read
  <1> HIDE DEF New
  <1> QED BY <1>1, <1>2, HandleBooks

(* Two tables that agree where that is clear still do, each grown by what the
   other is grown by. *)
AgreeOn(tab, tale) ==
  \A k \in DOMAIN tab \cup DOMAIN tale : Clear(k) =>
    k \in DOMAIN tab \cap DOMAIN tale /\ tab[k] = tale[k]

LEMMA GrownAgree ==
  ASSUME NEW tab, NEW tale, AgreeOn(tab, tale), NEW tab2, NEW tale2, NEW K, NEW L,
         Grown(tab, tab2, K), Grown(tale, tale2, L), \A k : Clear(k) => (k \in K <=> k \in L)
  PROVE  AgreeOn(tab2, tale2)
  BY DEF AgreeOn, Grown

(* What the overlays add up (state.rs) and what a reader of the parser's events
   adds up are the same, whatever lines are read and in any order, resets
   included. *)
THEOREM TotalsAgree == CombatSpec => []LedgersAgree
  <1> DEFINE Inv == /\ scene \in DOMAIN Script /\ DOMAIN s = Fields
                    /\ Amounts(s.tab) /\ AgreeOn(s.tab, told)
  <1>1. CombatInit => Inv
    BY DEF CombatInit, Fresh, Fields, Amounts, Zero, AgreeOn
  <1>2. Inv /\ [CombatNext]_combatVars => Inv'
    <2> SUFFICES ASSUME Inv, [CombatNext]_combatVars PROVE Inv'
      OBVIOUS
    <2>1. CASE ReadLine
      <3>1. PICK l \in Script[scene], jump \in Jumps[scene] : Line(l, jump)
        BY <2>1 DEF ReadLine
      <3>2. l.op \in Ops
        BY ScriptAssumption
      <3>3. Booked(s', s.tab)
        BY <3>1, <3>2, ReadBooks DEF Line
      <3>4. PICK K : /\ Grown(s.tab, s'.tab, K)
                     /\ \A k : Clear(k) => (k \in K <=> \E e \in Range(s'.out) : k \in Counted(e))
        BY <3>3 DEF Booked
      <3> DEFINE L == UNION {Counted(s'.out[i]) : i \in DOMAIN s'.out}
      <3>5. \A k : k \in L <=> \E e \in Range(s'.out) : k \in Counted(e)
        BY DEF Range
      <3>6. Grown(told, told', L)
        BY <3>1, PlusGrows DEF Line, Tell
      <3> HIDE DEF L
      <3>7. AgreeOn(s'.tab, told')
        BY <3>4, <3>5, <3>6, GrownAgree
      <3>8. Amounts(s'.tab)
        BY <3>4 DEF Grown, Amounts
      <3> QED BY <3>1, <3>3, <3>7, <3>8 DEF Line, Booked
    <2>2. CASE PressReset
      BY <2>2 DEF PressReset, Reset, Fresh, Fields, Amounts, Zero, AgreeOn
    <2>3. CASE UNCHANGED combatVars
      BY <2>3 DEF combatVars
    <2> QED BY <2>1, <2>2, <2>3 DEF CombatNext
  <1>3. Inv => LedgersAgree
    BY DEF AgreeOn, Clear, LedgersAgree
  <1> QED BY <1>1, <1>2, <1>3, PTL DEF CombatSpec

-----------------------------------------------------------------------------
(* The debug tool's totals and the parser's (froklog-debug/main.rs) *)

(* The fields of the debug tool's state. *)
TraceFields == {"wall", "pace", "mobs", "next", "active", "hit", "said", "players",
                "confirmed", "cands", "dead", "pets", "loot", "caster", "started",
                "classes", "tab"}

(* A step that changes neither whose side a name is on nor the totals. *)
Quiet(p, q) ==
  DOMAIN p \in {Fields, TraceFields} =>
    /\ DOMAIN q = DOMAIN p
    /\ q.players = p.players /\ q.confirmed = p.confirmed /\ q.cands = p.cands
    /\ q.caster = p.caster /\ q.pets = p.pets /\ q.tab = p.tab

(* The totals the debug tool prints, but for what some names healed. *)
Printed(k, M) == Len(k) = 2 /\ k[1] \in {"damage", "heal", "avoid", "resist"} /\ (k[1] = "heal" => k[2] \notin M)

SameTotals(t, u, M) ==
  \A k : Printed(k, M) => /\ k \in DOMAIN t <=> k \in DOMAIN u
                          /\ k \in DOMAIN t => t[k] = u[k] /\ t[k] \in Nat

(* The parser and the tool tell mobs from players alike, names with a space
   apart, which are mobs to both. *)
InStep(p, q, M) ==
  /\ DOMAIN p = Fields /\ DOMAIN q = TraceFields
  /\ p.players = q.players /\ p.caster = q.caster
  /\ p.cands \ Spaced = q.cands \ Spaced /\ p.confirmed \ Spaced = q.confirmed \ Spaced
  /\ SameTotals(p.tab, q.tab, M)

(* Between lines every name attacked counts as a mob, or as a player and then
   not as a mob, names with a space apart. *)
Settled(p) ==
  /\ (p.cands \ p.players) \ Spaced \subseteq p.confirmed
  /\ p.confirmed \cap p.cands \cap p.players \subseteq Spaced

(* Totals the tool prints, grown alike; grown by what it does not print. *)
LEMMA PlusSame ==
  ASSUME NEW t, NEW u, NEW M, SameTotals(t, u, M), NEW K, NEW L,
         \A k : Printed(k, M) => (k \in K <=> k \in L)
  PROVE  SameTotals(Plus(t, K), Plus(u, L), M)
  BY DEF SameTotals, Plus

LEMMA UnprintedSame ==
  ASSUME NEW t, NEW u, NEW M, SameTotals(t, u, M), NEW K, \A k \in K : ~Printed(k, M)
  PROVE  SameTotals(Plus(t, K), u, M) /\ SameTotals(t, Plus(u, K), M)
  BY DEF SameTotals, Plus

LEMMA TankUnprinted ==
  ASSUME NEW id, NEW n, NEW M
  PROVE  ~Printed(<<"tank", id, n>>, M)
  BY DEF Printed

(* Such steps keep the two in step, one after another: sightings, evictions,
   what is told. *)
LEMMA QuietInStep ==
  ASSUME NEW p, NEW q, NEW M, InStep(p, q, M), NEW r, NEW v, Quiet(p, r), Quiet(q, v)
  PROVE  InStep(r, v, M) /\ InStep(r, q, M) /\ InStep(p, v, M)
  BY DEF InStep, Quiet

LEMMA QuietTwice ==
  ASSUME NEW p, NEW q, NEW r, Quiet(p, q), Quiet(q, r)
  PROVE  Quiet(p, r)
  BY DEF Quiet

LEMMA QuietSteps ==
  ASSUME NEW p
  PROVE  /\ \A N : Quiet(p, Evict(p, N))
         /\ \A n : Quiet(p, UpdateMobList(p, n))
         /\ \A e : DOMAIN p = Fields => Quiet(p, Emit(p, e))
         /\ \A N : Quiet(p, TraceEvict(p, N))
         /\ \A n : Quiet(p, TraceMobList(p, n))
  <1>1. ASSUME NEW r, NEW N PROVE Quiet(r, Evict(r, N)) /\ Quiet(r, TraceEvict(r, N))
    BY DEF Quiet, Evict, TraceEvict, Fields, TraceFields
  <1>2. ASSUME NEW r, NEW a, NEW b, NEW c, NEW x, NEW y, NEW z
        PROVE  /\ Quiet(r, [r EXCEPT !.hit = a])
               /\ Quiet(r, [r EXCEPT !.dead = a])
               /\ Quiet(r, [r EXCEPT !.mobs = a, !.active = b, !.hit = c])
               /\ Quiet(r, [r EXCEPT !.mobs = a, !.next = x, !.active = b, !.hit = c])
               /\ DOMAIN r = Fields => Quiet(r, [r EXCEPT !.out = a])
    BY DEF Quiet, Fields, TraceFields
  <1>3. ASSUME NEW n PROVE Quiet(p, UpdateMobList(p, n))
    <2>1. Quiet(p, Evict([p EXCEPT !.hit = NoMob], {n}))
      BY <1>1, <1>2, QuietTwice
    <2>2. ASSUME NEW r, NEW i PROVE Quiet(r, SightAgain(r, n, i)) /\ Quiet(r, SightAnew(r, n))
      BY <1>2 DEF SightAgain, SightAnew
    <2>3. Quiet(p, [p EXCEPT !.hit = NoMob]) /\ Quiet(p, [p EXCEPT !.dead = p.dead \ {Lower(n)}])
      BY <1>2
    <2>4. /\ \A i : Quiet(p, SightAgain([p EXCEPT !.dead = p.dead \ {Lower(n)}], n, i))
          /\ Quiet(p, SightAnew([p EXCEPT !.dead = p.dead \ {Lower(n)}], n))
      BY <2>2, <2>3, QuietTwice
    <2> QED BY <2>1, <2>3, <2>4 DEF UpdateMobList
  <1>4. ASSUME NEW e, DOMAIN p = Fields PROVE Quiet(p, Emit(p, e))
    BY <1>2, <1>4 DEF Emit
  <1>5. ASSUME NEW n PROVE Quiet(p, TraceMobList(p, n))
    <2>1. Quiet(p, TraceEvict([p EXCEPT !.hit = NoMob], {n}))
      BY <1>1, <1>2, QuietTwice
    <2> DEFINE r == [p EXCEPT !.dead = p.dead \ {n}]
               found == TraceSighted(p, n)
               i == CHOOSE i \in found : \A j \in found : i <= j
               again == [r EXCEPT !.mobs[i].wall = p.wall, !.active = p.mobs[i].id, !.hit = p.mobs[i].id]
               anew == [r EXCEPT !.mobs = Append(r.mobs, [id |-> p.next, name |-> n, wall |-> p.wall]),
                                 !.next = r.next + 1, !.active = p.next, !.hit = p.next]
    <2>2. Quiet(p, r) /\ Quiet(p, [p EXCEPT !.hit = NoMob])
      BY <1>2
    <2>3. TraceMobList(p, n) \in {[p EXCEPT !.hit = NoMob], TraceEvict([p EXCEPT !.hit = NoMob], {n}), again, anew}
      BY DEF TraceMobList
    <2> HIDE DEF r, i
    <2>4. Quiet(r, again) /\ Quiet(r, anew)
      <3>1. again = [r EXCEPT !.mobs = [r.mobs EXCEPT ![i] = [r.mobs[i] EXCEPT !.wall = p.wall]],
                              !.active = p.mobs[i].id, !.hit = p.mobs[i].id]
        OBVIOUS
      <3> QED BY <3>1, <1>2
    <2> HIDE DEF again, anew
    <2> QED BY <2>1, <2>2, <2>3, <2>4, QuietTwice
  <1> QED BY <1>1, <1>3, <1>4, <1>5

LEMMA QuietFits ==
  ASSUME NEW p, NEW q, NEW M, InStep(p, q, M)
  PROVE  /\ \A e : InStep(Emit(p, e), q, M)
         /\ \A n, m : InStep(UpdateMobList(p, n), TraceMobList(q, m), M)
         /\ \A n : InStep(UpdateMobList(p, n), q, M)
         /\ \A l : SrcIsMob(p, l) <=> SrcIsMob(q, l)
  <1>1. DOMAIN p = Fields
    BY DEF InStep
  <1>2. \A e : InStep(Emit(p, e), q, M)
    BY <1>1, QuietSteps, QuietInStep
  <1>3. \A n, m : InStep(UpdateMobList(p, n), TraceMobList(q, m), M)
    BY QuietSteps, QuietInStep
  <1>4. \A n : InStep(UpdateMobList(p, n), q, M)
    BY QuietSteps, QuietInStep
  <1>5. ASSUME NEW l PROVE SrcIsMob(p, l) <=> SrcIsMob(q, l)
    BY DEF InStep, SrcIsMob
  <1> QED BY <1>2, <1>3, <1>4, <1>5

(* Warders, whether they are told or not. *)
LEMMA WardersFit ==
  ASSUME NEW p, NEW q, NEW M, InStep(p, q, M), NEW n
  PROVE  InStep(RegisterWarder(p, n), TraceWarder(q, n), M) /\ InStep(RegisterQuietly(p, n), TraceWarder(q, n), M)
  <1>1. ASSUME n \in DOMAIN Warders
        PROVE  InStep(RegisterQuietly(p, n), TraceWarder(q, n), M)
    BY <1>1 DEF RegisterQuietly, TraceWarder, InStep, Fields, TraceFields
  <1>2. ASSUME n \in DOMAIN Warders, NEW a
        PROVE  /\ InStep([p EXCEPT !.players = p.players \cup {n}], TraceWarder(q, n), M)
               /\ InStep([p EXCEPT !.pets = a, !.players = p.players \cup {n}], TraceWarder(q, n), M)
    BY <1>2 DEF TraceWarder, InStep, Fields, TraceFields
  <1>3. ASSUME n \in DOMAIN Warders
        PROVE  InStep(Own(p, n, Warders[n]), TraceWarder(q, n), M)
    <2> DEFINE r == [p EXCEPT !.pets = Put(p.pets, n, Warders[n]), !.players = p.players \cup {n}]
               e == [k |-> "pet", src |-> n, tgt |-> Warders[n], mob |-> 0]
    <2>1. InStep(r, TraceWarder(q, n), M)
      BY <1>2, <1>3
    <2>2. Own(p, n, Warders[n]) = Emit(r, e)
      BY DEF Own
    <2> HIDE DEF r, e
    <2> QED BY <2>1, <2>2, QuietFits
  <1> QED BY <1>1, <1>2, <1>3 DEF RegisterWarder, RegisterQuietly, TraceWarder

(* Whom a blow makes a mob or a player, and what is booked for it. *)
LEMMA TankFits ==
  ASSUME NEW p, NEW q, NEW M, InStep(p, q, M), NEW l
  PROVE  /\ InStep(Tank(p, l), TraceTank(q, l), M)
         /\ l.src \in Spaced => InStep(Tank(p, l), q, M)
  <1> DEFINE a == [p EXCEPT !.confirmed = p.confirmed \cup {l.src}]
             b == [q EXCEPT !.confirmed = q.confirmed \cup {l.src}]
             m == UpdateMobList(a, l.src)
             v == TraceMobList(b, l.src)
             Book(K) == [m EXCEPT !.tab = K]
             K == IF m.hit = NoMob THEN m.tab ELSE Plus(m.tab, {<<"tank", m.hit, l.tgt>>})
             L == Plus(v.tab, {<<"tank", OrZero(v.hit), l.tgt>>})
  <1>1. InStep(a, b, M)
    BY DEF InStep, Fields, TraceFields
  <1>2. l.src \in Spaced => InStep(a, q, M)
    BY DEF InStep, Fields, TraceFields
  <1>3. PICK e : Tank(p, l) = Emit(Book(K), e)
    BY DEF Tank, Hit
  <1>4. TraceTank(q, l) = [v EXCEPT !.tab = L, !.said = OrZero(v.hit)]
    BY DEF TraceTank
  <1> HIDE DEF a, b
  <1>5. InStep(m, v, M) /\ (l.src \in Spaced => InStep(m, q, M))
    BY <1>1, <1>2, QuietFits
  <1> HIDE DEF m, v
  <1>6. ASSUME NEW t, NEW u, SameTotals(t, u, M), NEW x, NEW y
        PROVE  /\ SameTotals(Plus(t, {<<"tank", x, l.tgt>>}), u, M)
               /\ SameTotals(t, Plus(u, {<<"tank", y, l.tgt>>}), M)
    BY <1>6, TankUnprinted, UnprintedSame
  <1>7. ASSUME NEW c, InStep(m, c, M), NEW x PROVE InStep(Book(K), [c EXCEPT !.tab = c.tab, !.said = x], M)
    <2>1. SameTotals(K, c.tab, M)
      BY <1>6, <1>7 DEF InStep
    <2> HIDE DEF K
    <2> QED BY <1>7, <2>1 DEF InStep, Fields, TraceFields
  <1>8. ASSUME NEW c, InStep(m, c, M) PROVE InStep(Book(K), c, M)
    <2>1. SameTotals(K, c.tab, M)
      BY <1>6, <1>8 DEF InStep
    <2> HIDE DEF K
    <2> QED BY <1>8, <2>1 DEF InStep, Fields, TraceFields
  <1>9. ASSUME NEW c, InStep(c, v, M) PROVE InStep(c, [v EXCEPT !.tab = L, !.said = OrZero(v.hit)], M)
    <2>1. SameTotals(c.tab, L, M)
      BY <1>6, <1>9 DEF InStep
    <2> HIDE DEF L
    <2> QED BY <1>9, <2>1 DEF InStep, Fields, TraceFields
  <1> HIDE DEF Book, K, L
  <1> QED BY <1>3, <1>4, <1>5, <1>8, <1>9, QuietFits

LEMMA StrikeFits ==
  ASSUME NEW p, NEW q, NEW M, InStep(p, q, M), NEW l
  PROVE  /\ InStep(Strike(p, l), TraceStrike(q, l), M)
         /\ l.tgt \in Spaced => InStep(Strike(p, l), TraceDamage(q, l), M)
  <1> DEFINE a == [p EXCEPT !.players = p.players \cup {l.src}, !.cands = p.cands \cup ({l.tgt} \ Corpses)]
             b == [q EXCEPT !.cands = q.cands \cup {l.tgt}]
             m == UpdateMobList(a, l.tgt)
             Out(c) == [c EXCEPT !.players = c.players \cup {l.src}]
             V(c) == TraceMobList(Out(c), l.tgt)
             all == {<<"damage", l.src>>}
             K == IF m.hit = NoMob THEN all ELSE all \cup {<<"damage", m.hit, l.src>>}
             L(c) == {<<"damage", l.src>>, <<"damage", OrZero(V(c).hit), l.src>>}
  <1>1. InStep(a, Out(b), M)
    BY NamesAssumption DEF InStep, Fields, TraceFields
  <1>2. l.tgt \in Spaced => InStep(a, Out(q), M)
    BY DEF InStep, Fields, TraceFields
  <1>3. PICK e : Strike(p, l) = Emit([m EXCEPT !.tab = Plus(m.tab, K)], e)
    BY DEF Strike, Hit
  <1>4. ASSUME NEW c
        PROVE TraceDamage(c, l) = [V(c) EXCEPT !.tab = Plus(V(c).tab, L(c)), !.said = OrZero(V(c).hit)]
    BY DEF TraceDamage
  <1>5. TraceStrike(q, l) = TraceDamage(b, l)
    BY DEF TraceStrike
  <1> HIDE DEF a, b
  <1>6. ASSUME NEW c, InStep(a, Out(c), M) PROVE InStep(Strike(p, l), TraceDamage(c, l), M)
    <2> DEFINE v == V(c)
               T == Plus(m.tab, K)
               U == Plus(v.tab, L(c))
    <2>1. InStep(m, v, M)
      BY <1>6, QuietFits
    <2>2. \A k : Printed(k, M) => (k \in K <=> k \in L(c))
      BY DEF Printed
    <2> HIDE DEF m, V, K, L
    <2>3. SameTotals(T, U, M)
      BY <2>1, <2>2, PlusSame DEF InStep
    <2> HIDE DEF T, U, v
    <2>4. InStep([m EXCEPT !.tab = T], [v EXCEPT !.tab = U, !.said = OrZero(v.hit)], M)
      BY <2>1, <2>3 DEF InStep, Fields, TraceFields
    <2>5. TraceDamage(c, l) = [v EXCEPT !.tab = U, !.said = OrZero(v.hit)]
      BY <1>4 DEF U, v
    <2>6. Strike(p, l) = Emit([m EXCEPT !.tab = T], e)
      BY <1>3 DEF T
    <2> QED BY <2>4, <2>5, <2>6, QuietFits
  <1> HIDE DEF Out
  <1> QED BY <1>1, <1>2, <1>5, <1>6

(* After a fight both take what was attacked for mobs, players apart. *)
LEMMA FoughtFits ==
  ASSUME NEW p, NEW q, NEW M, InStep(p, q, M)
  PROVE  InStep(Fought(p), TraceFought(q), M) /\ (Settled(p) => InStep(Fought(p), q, M))
  <1> DEFINE S(c) == (c.confirmed \cup c.cands) \ (c.cands \cap c.players)
             a == [p EXCEPT !.started = TRUE]
             b == [a EXCEPT !.confirmed = S(a)]
             v == [q EXCEPT !.started = TRUE, !.confirmed = S(q)]
  <1>1. Fought(p) = Evict(b, p.cands \cap p.players)
    BY DEF Fought, UpdateMobName, InStep, Fields
  <1>2. TraceFought(q) = TraceEvict(v, q.cands \cap q.players)
    BY DEF TraceFought
  <1>3. a.confirmed = p.confirmed /\ a.cands = p.cands /\ a.players = p.players
    BY DEF InStep, Fields
  <1>4. S(p) \ Spaced = S(q) \ Spaced
    BY DEF InStep
  <1>5. Settled(p) => S(p) \ Spaced = p.confirmed \ Spaced
    BY DEF Settled
  <1>6. InStep(b, v, M)
    BY <1>3, <1>4 DEF InStep, Fields, TraceFields
  <1>7. Settled(p) => InStep(b, q, M)
    BY <1>3, <1>5 DEF InStep, Fields, TraceFields
  <1> HIDE DEF b, v
  <1> QED BY <1>1, <1>2, <1>6, <1>7, QuietSteps, QuietInStep

(* No line takes a pet from its owner. *)
PetsStay(p, q) == DOMAIN p = Fields => DOMAIN q = Fields /\ DOMAIN p.pets \subseteq DOMAIN q.pets

LEMMA PetsStayTwice ==
  ASSUME NEW p, NEW q, NEW r, PetsStay(p, q), PetsStay(q, r)
  PROVE  PetsStay(p, r)
  BY DEF PetsStay

(* Each of the parser's steps, then each of its lines. *)
LEMMA PetsStaySteps ==
  ASSUME NEW p
  PROVE  /\ \A e : PetsStay(p, Emit(p, e))
         /\ \A n : PetsStay(p, UpdateMobList(p, n))
         /\ PetsStay(p, UpdateMobName(p)) /\ PetsStay(p, Fought(p))
         /\ \A n : /\ PetsStay(p, AssociateSummoned(p, n))
                   /\ PetsStay(p, RegisterWarder(p, n))
                   /\ PetsStay(p, RegisterQuietly(p, n))
         /\ \A l : PetsStay(p, Tank(p, l)) /\ PetsStay(p, Strike(p, l)) /\ PetsStay(p, Either(p, l))
         /\ \A l : PetsStay(p, Berserk(p, l))
  <1>1. ASSUME NEW r, NEW q, Quiet(r, q) PROVE PetsStay(r, q)
    BY <1>1 DEF Quiet, PetsStay
  <1>2. ASSUME NEW r, NEW a, NEW b, NEW c, NEW n, NEW o
        PROVE  /\ PetsStay(r, [r EXCEPT !.tab = a])
               /\ PetsStay(r, [r EXCEPT !.confirmed = a])
               /\ PetsStay(r, [r EXCEPT !.players = a])
               /\ PetsStay(r, [r EXCEPT !.players = a, !.cands = b])
               /\ PetsStay(r, [r EXCEPT !.started = a])
               /\ PetsStay(r, [r EXCEPT !.summon = a])
               /\ PetsStay(r, [r EXCEPT !.buff = a])
               /\ PetsStay(r, r)
               /\ PetsStay(r, [r EXCEPT !.pets = Put(r.pets, n, o), !.players = a])
    BY DEF PetsStay, Fields, Put
  <1>3. ASSUME NEW r, NEW e PROVE PetsStay(r, Emit(r, e))
    BY DEF PetsStay, Emit, Fields
  <1>4. ASSUME NEW r, NEW n PROVE PetsStay(r, UpdateMobList(r, n))
    BY <1>1, QuietSteps
  <1>5. ASSUME NEW r PROVE PetsStay(r, UpdateMobName(r))
    <2> DEFINE New == [r EXCEPT !.confirmed = (r.confirmed \cup r.cands) \ (r.cands \cap r.players)]
    <2>1. UpdateMobName(r) = Evict(New, r.cands \cap r.players)
      BY DEF UpdateMobName
    <2>2. PetsStay(r, New)
      BY <1>2
    <2> HIDE DEF New
    <2>3. PetsStay(New, Evict(New, r.cands \cap r.players))
      BY <1>1, QuietSteps
    <2> QED BY <2>1, <2>2, <2>3, PetsStayTwice
  <1>6. PetsStay(p, Fought(p))
    BY <1>2, <1>5, PetsStayTwice DEF Fought
  <1>7. ASSUME NEW r, NEW n, NEW o PROVE PetsStay(r, Own(r, n, o))
    <2> DEFINE New == [r EXCEPT !.pets = Put(r.pets, n, o), !.players = r.players \cup {n}]
    <2>1. PICK e : Own(r, n, o) = Emit(New, e)
      BY DEF Own
    <2>2. PetsStay(r, New)
      BY <1>2
    <2> HIDE DEF New
    <2> QED BY <2>1, <2>2, <1>3, PetsStayTwice
  <1>8. ASSUME NEW n PROVE PetsStay(p, AssociateSummoned(p, n))
    BY <1>2, <1>7, PetsStayTwice DEF AssociateSummoned
  <1>9. ASSUME NEW n PROVE PetsStay(p, RegisterWarder(p, n))
    BY <1>2, <1>7 DEF RegisterWarder
  <1>10. ASSUME NEW n PROVE PetsStay(p, RegisterQuietly(p, n))
    BY DEF RegisterQuietly, PetsStay, Fields, Put
  <1>11. ASSUME NEW l PROVE PetsStay(p, Tank(p, l))
    <2> DEFINE a == [p EXCEPT !.confirmed = p.confirmed \cup {l.src}]
               m == UpdateMobList(a, l.src)
    <2>1. PICK e, t : Tank(p, l) = Emit([m EXCEPT !.tab = t], e)
      BY DEF Tank, Hit
    <2>2. PetsStay(p, a)
      BY <1>2
    <2>3. PetsStay(a, m)
      BY <1>4
    <2> HIDE DEF a, m
    <2>4. PetsStay(m, [m EXCEPT !.tab = t])
      BY <1>2
    <2> QED BY <2>1, <2>2, <2>3, <2>4, <1>3, PetsStayTwice
  <1>12. ASSUME NEW l PROVE PetsStay(p, Strike(p, l))
    <2> DEFINE a == [p EXCEPT !.players = p.players \cup {l.src}, !.cands = p.cands \cup ({l.tgt} \ Corpses)]
               m == UpdateMobList(a, l.tgt)
    <2>1. PICK e, t : Strike(p, l) = Emit([m EXCEPT !.tab = t], e)
      BY DEF Strike, Hit
    <2>2. PetsStay(p, a)
      BY <1>2
    <2>3. PetsStay(a, m)
      BY <1>4
    <2> HIDE DEF a, m
    <2>4. PetsStay(m, [m EXCEPT !.tab = t])
      BY <1>2
    <2> QED BY <2>1, <2>2, <2>3, <2>4, <1>3, PetsStayTwice
  <1>13. ASSUME NEW l PROVE PetsStay(p, Berserk(p, l))
    BY <1>2, <1>7, PetsStayTwice DEF Berserk
  <1> QED BY <1>3, <1>4, <1>5, <1>6, <1>8, <1>9, <1>10, <1>11, <1>12, <1>13 DEF Either

LEMMA HandleKeepsPets ==
  ASSUME NEW p, NEW l, l.op \in Ops
  PROVE  PetsStay(p, Handle(p, l))
  <1> USE PetsStayTwice, PetsStaySteps
  <1>1. ASSUME NEW r, NEW a, NEW b, NEW c
        PROVE  /\ PetsStay(r, r)
               /\ PetsStay(r, [r EXCEPT !.tab = a])
               /\ PetsStay(r, [r EXCEPT !.confirmed = a])
               /\ PetsStay(r, [r EXCEPT !.mobs = a])
               /\ PetsStay(r, [r EXCEPT !.loot = a])
               /\ PetsStay(r, [r EXCEPT !.classes = a])
               /\ PetsStay(r, [r EXCEPT !.caster = a, !.buff = b, !.summon = c])
    BY DEF PetsStay, Fields
  <1>2. ASSUME NEW r, NEW a, NEW b, NEW c, NEW e
        PROVE  PetsStay(r, [r EXCEPT !.dead = a, !.ended = b, !.loot = c, !.lootTs = e])
    BY DEF PetsStay, Fields
  <1>3. PetsStay(p, MeleeLine(p, l))
    BY DEF MeleeLine
  <1>4. PetsStay(p, SpellLine(p, l)) /\ PetsStay(p, RiposteLine(p, l)) /\ PetsStay(p, DamageShieldLine(p, l))
    BY DEF SpellLine, RiposteLine, DamageShieldLine
  <1>5. PetsStay(p, TakenLine(p, l))
    BY DEF TakenLine
  <1>6. /\ PetsStay(p, DotLine(p, l)) /\ PetsStay(p, ThornsLine(p, l))
        /\ PetsStay(p, ExtraLine(p, l)) /\ PetsStay(p, BurnLine(p, l))
    BY DEF DotLine, ThornsLine, ExtraLine, BurnLine
  <1>7. PetsStay(p, PossessiveLine(p, l))
    BY <1>1 DEF PossessiveLine
  <1>8. PetsStay(p, BareSpellLine(p, l))
    BY <1>1 DEF BareSpellLine
  <1>9. PetsStay(p, ParkLine(p, l))
    <2> DEFINE q == UpdateMobList(p, l.tgt)
    <2>1. PICK m, e : ParkLine(p, l) = UpdateMobName(IF q.hit = NoMob THEN q ELSE Emit([q EXCEPT !.mobs = m], e))
      BY DEF ParkLine
    <2>2. PetsStay(p, q)
      OBVIOUS
    <2> HIDE DEF q
    <2>3. PetsStay(p, [q EXCEPT !.mobs = m])
      BY <2>2, <1>1
    <2>4. PetsStay(p, Emit([q EXCEPT !.mobs = m], e))
      BY <2>3
    <2> QED BY <2>1, <2>2, <2>4
  <1>10. PetsStay(p, WakeLine(p, l))
    BY DEF WakeLine
  <1>11. PetsStay(p, Cast(p, l))
    BY <1>1 DEF Cast
  <1>12. PetsStay(p, SlayLine(p, l))
    BY <1>2 DEF SlayLine
  <1>13. PetsStay(p, LootLine(p, l))
    BY <1>1 DEF LootLine
  <1>14. /\ PetsStay(p, MoneyLine(p, l)) /\ PetsStay(p, AbsorbLine(p, l))
         /\ PetsStay(p, WhoLine(p, l)) /\ PetsStay(p, ResistLine(p, l))
    BY <1>1 DEF MoneyLine, AbsorbLine, WhoLine, ResistLine
  <1>15. PetsStay(p, MissLine(p, l))
    <2> DEFINE a == AssociateSummoned(p, l.src)
               b == [a EXCEPT !.tab = Plus(a.tab, {<<"avoid", l.tgt>>})]
               q == RegisterWarder(b, l.src)
               c == [q EXCEPT !.confirmed = q.confirmed \cup {l.src}]
    <2>1. PICK e, f : MissLine(p, l) = IF SrcIsMob(q, l) THEN Emit(UpdateMobList(c, l.src), e) ELSE Emit(q, f)
      BY DEF MissLine
    <2>2. PetsStay(p, a)
      OBVIOUS
    <2> HIDE DEF a
    <2>3. PetsStay(a, b)
      BY <1>1
    <2> HIDE DEF b
    <2>4. PetsStay(b, q)
      OBVIOUS
    <2> HIDE DEF q
    <2>5. PetsStay(q, c)
      BY <1>1
    <2> HIDE DEF c
    <2>6. PetsStay(p, q) /\ PetsStay(p, c)
      BY <2>2, <2>3, <2>4, <2>5
    <2>7. PetsStay(p, UpdateMobList(c, l.src))
      BY <2>6
    <2>8. PetsStay(p, Emit(UpdateMobList(c, l.src), e)) /\ PetsStay(p, Emit(q, f))
      BY <2>6, <2>7
    <2> QED BY <2>1, <2>8
  <1>16. PetsStay(p, HealLine(p, l))
    BY <1>1 DEF HealLine
  <1> QED
    BY <1>3, <1>4, <1>5, <1>6, <1>7, <1>8, <1>9, <1>10, <1>11, <1>12, <1>13, <1>14, <1>15, <1>16
    DEF Ops, Handle, Swings

(* After a fight, and where mobs are named, names are settled. *)
LEMMA SettledSteps ==
  ASSUME NEW p, DOMAIN p = Fields
  PROVE  /\ Settled(UpdateMobName(p)) /\ Settled(Fought(p))
         /\ \A q : Quiet(p, q) /\ Settled(p) => Settled(q)
         /\ \A n : Settled(p) => Settled(RegisterWarder(p, n))
  <1>1. ASSUME NEW r, DOMAIN r = Fields PROVE Settled(UpdateMobName(r))
    <2> DEFINE b == [r EXCEPT !.confirmed = (r.confirmed \cup r.cands) \ (r.cands \cap r.players)]
    <2>1. UpdateMobName(r) = Evict(b, r.cands \cap r.players)
      BY DEF UpdateMobName
    <2>2. DOMAIN b = Fields /\ Settled(b)
      BY <1>1 DEF Settled, Fields
    <2> HIDE DEF b
    <2> QED BY <2>1, <2>2, QuietSteps DEF Quiet, Settled
  <1>2. Settled(Fought(p))
    <2>1. DOMAIN [p EXCEPT !.started = TRUE] = Fields
      OBVIOUS
    <2> QED BY <2>1, <1>1 DEF Fought
  <1>3. ASSUME NEW q, Quiet(p, q), Settled(p) PROVE Settled(q)
    BY <1>3 DEF Quiet, Settled
  <1>4. ASSUME NEW n, Settled(p) PROVE Settled(RegisterWarder(p, n))
    <2>1. CASE n \notin DOMAIN Warders
      BY <2>1, <1>4 DEF RegisterWarder
    <2>2. CASE n \in DOMAIN Warders
      <3>1. n \in Spaced
        BY <2>2, NamesAssumption
      <3>2. Settled([p EXCEPT !.players = p.players \cup {n}])
        BY <3>1, <1>4 DEF Settled, Fields
      <3>3. ASSUME NEW o PROVE Settled(Own(p, n, o))
        BY <3>1, <1>4 DEF Settled, Fields, Own, Emit
      <3> QED BY <2>2, <3>2, <3>3 DEF RegisterWarder
    <2> QED BY <2>1, <2>2
  <1> QED BY <1>1, <1>2, <1>3, <1>4

(* A pet that is summoned carries a generated name, which no warder does. *)
LEMMA NoSummoned ==
  ASSUME NEW p, DOMAIN p = Fields, NEW n
  PROVE  /\ DOMAIN AssociateSummoned(p, n).pets \subseteq DOMAIN Warders => AssociateSummoned(p, n) = p
         /\ \A l : DOMAIN Berserk(p, l).pets \subseteq DOMAIN Warders => Berserk(p, l) = p
  <1>1. ASSUME NEW x, x \in Generated PROVE x \notin DOMAIN Warders
    BY <1>1, NamesAssumption
  <1>2. ASSUME NEW x, NEW o PROVE x \in DOMAIN Own(p, x, o).pets
    BY DEF Own, Emit, Put, Fields
  <1>3. ASSUME NEW x, NEW o
        PROVE  /\ x \in DOMAIN [Own(p, x, o) EXCEPT !.summon = NoCast].pets
               /\ x \in DOMAIN [Own(p, x, o) EXCEPT !.buff = NoCast].pets
    <2>1. DOMAIN Own(p, x, o) = Fields
      BY DEF Own, Emit, Fields
    <2> QED BY <2>1, <1>2 DEF Fields
  <1> QED BY <1>1, <1>3 DEF AssociateSummoned, Berserk

(* A blow by a mob, or else by a player. *)
LEMMA EitherFits ==
  ASSUME NEW p, NEW q, NEW M, InStep(p, q, M), NEW l
  PROVE  /\ InStep(Either(p, l), IF SrcIsMob(q, l) THEN TraceTank(q, l) ELSE TraceStrike(q, l), M)
         /\ l.tgt \in Spaced => InStep(Either(p, l), IF SrcIsMob(q, l) THEN TraceTank(q, l) ELSE TraceDamage(q, l), M)
  BY QuietFits, TankFits, StrikeFits DEF Either

(* The more names are set apart, the less is asked. *)
LEMMA WiderFits ==
  ASSUME NEW p, NEW q, NEW M, InStep(p, q, M), NEW N, M \subseteq N
  PROVE  InStep(p, q, N)
  BY DEF InStep, SameTotals, Printed

(* The lines that book a blow that lands. *)
Blows == Swings \cup {"spell", "riposte", "shield", "taken", "dot", "thorns", "extra",
                      "possessive", "bare"}

(* Blows: the tool's branches follow the parser's. *)
LEMMA BlowsFit ==
  ASSUME NEW p, NEW q, NEW M, InStep(p, q, M), Settled(p), NEW l, l.op \in Blows,
         l.op = "riposte" => l.tgt \in Spaced, DOMAIN Handle(p, l).pets \subseteq DOMAIN Warders
  PROVE  InStep(Handle(p, l), TraceHandle(q, l), M) /\ Settled(Handle(p, l))
  <1> DEFINE a == RegisterWarder(p, l.src)
             t == RegisterQuietly(p, l.src)
             b == TraceWarder(q, l.src)
  <1>1. InStep(a, b, M) /\ InStep(t, b, M)
    BY WardersFit
  <1>2. ASSUME NEW r, NEW v, InStep(r, v, M) PROVE InStep(Fought(r), TraceFought(v), M) /\ Settled(Fought(r))
    BY <1>2, FoughtFits, SettledSteps DEF InStep
  <1>3. p.caster = q.caster /\ p.players = q.players /\ DOMAIN p = Fields
    BY DEF InStep
  <1>4. \A x : InStep(Strike(p, x), TraceStrike(q, x), M)
    BY StrikeFits
  <1>5. CASE l.op \in Swings
    <2>1. Handle(p, l) = MeleeLine(p, l) /\ TraceHandle(q, l) = TraceMelee(q, l)
      BY <1>5 DEF Handle, TraceHandle, Swings
    <2>2. AssociateSummoned(p, l.src) = p
      <3> DEFINE x == AssociateSummoned(p, l.src)
                 y == RegisterWarder(x, l.src)
                 z == Either(y, l)
      <3>1. MeleeLine(p, l) = Fought(z)
        BY DEF MeleeLine
      <3>2. PetsStay(p, x) /\ PetsStay(x, y) /\ PetsStay(y, z) /\ PetsStay(z, Fought(z))
        BY PetsStaySteps
      <3>3. DOMAIN x.pets \subseteq DOMAIN Fought(z).pets
        BY <3>2, <1>3 DEF PetsStay
      <3>4. DOMAIN x.pets \subseteq DOMAIN Warders
        BY <2>1, <3>1, <3>3
      <3> QED BY <3>4, <1>3, NoSummoned
    <2>3. MeleeLine(p, l) = Fought(Either(a, l))
      BY <2>2 DEF MeleeLine
    <2>4. TraceMelee(q, l) = TraceFought(IF SrcIsMob(b, l) THEN TraceTank(b, l) ELSE TraceStrike(b, l))
      BY DEF TraceMelee
    <2> HIDE DEF a, b
    <2> QED BY <2>1, <2>3, <2>4, <1>1, <1>2, EitherFits
  <1>6. CASE l.op = "spell"
    <2>1. Handle(p, l) = Fought(Either(a, l))
      BY <1>6 DEF Handle, Swings, SpellLine
    <2>2. TraceHandle(q, l) = TraceFought(IF SrcIsMob(b, l) THEN TraceTank(b, l) ELSE TraceStrike(b, l))
      BY <1>6 DEF TraceHandle, Swings, TraceSpell
    <2> HIDE DEF a, b
    <2> QED BY <2>1, <2>2, <1>1, <1>2, EitherFits
  <1>7. CASE l.op = "shield"
    <2>1. Handle(p, l) = Fought(Either(a, l))
      BY <1>7 DEF Handle, Swings, DamageShieldLine
    <2>2. TraceHandle(q, l) = TraceFought(IF SrcIsMob(b, l) THEN TraceTank(b, l) ELSE TraceStrike(b, l))
      BY <1>7 DEF TraceHandle, Swings, TraceShield
    <2> HIDE DEF a, b
    <2> QED BY <2>1, <2>2, <1>1, <1>2, EitherFits
  <1>8. CASE l.op = "riposte"
    <2>1. Handle(p, l) = Fought(Either(a, l))
      BY <1>8 DEF Handle, Swings, RiposteLine
    <2>2. TraceHandle(q, l) = TraceFought(IF SrcIsMob(b, l) THEN TraceTank(b, l) ELSE TraceDamage(b, l))
      BY <1>8 DEF TraceHandle, Swings, TraceRiposte
    <2> HIDE DEF a, b
    <2> QED BY <2>1, <2>2, <1>1, <1>2, <1>8, EitherFits
  <1>9. CASE l.op = "taken"
    <2>1. Handle(p, l) = Fought(IF l.src = Me THEN Strike(t, l) ELSE Either(t, l))
      BY <1>9 DEF Handle, Swings, TakenLine
    <2>2. TraceHandle(q, l) = TraceFought(IF SrcIsMob(b, l) /\ l.src # Me THEN TraceTank(b, l) ELSE TraceStrike(b, l))
      BY <1>9 DEF TraceHandle, Swings, TraceTaken
    <2> HIDE DEF t, b
    <2> QED BY <2>1, <2>2, <1>1, <1>2, EitherFits, StrikeFits
  <1>10. CASE l.op \in {"dot", "thorns", "extra"}
    <2>1. Handle(p, l) = Fought(Strike(p, l))
      BY <1>10 DEF Handle, Swings, DotLine, ThornsLine, ExtraLine
    <2>2. TraceHandle(q, l) = TraceFought(TraceStrike(q, l))
      BY <1>10 DEF TraceHandle, Swings, TraceDot, TraceThorns, TraceExtra
    <2> QED BY <2>1, <2>2, <1>2, <1>4
  <1>11. CASE l.op = "possessive"
    <2> DEFINE r == IF l.sp \in DOMAIN p.caster THEN Strike(p, [l EXCEPT !.src = p.caster[l.sp]])
                    ELSE IF l.src \in p.players THEN Strike(p, l) ELSE p
               v == IF l.sp \in DOMAIN p.caster THEN TraceStrike(q, [l EXCEPT !.src = p.caster[l.sp]])
                    ELSE IF l.src \in p.players THEN TraceStrike(q, l) ELSE q
    <2>1. Handle(p, l) = Fought(r)
      BY <1>11 DEF Handle, Swings, PossessiveLine
    <2>2. TraceHandle(q, l) = TraceFought(v)
      BY <1>11, <1>3 DEF TraceHandle, Swings, TracePossessive
    <2>3. InStep(r, v, M)
      BY <1>4
    <2> HIDE DEF r, v
    <2> QED BY <2>1, <2>2, <2>3, <1>2
  <1>12. CASE l.op = "bare"
    <2>1. Handle(p, l) = BareSpellLine(p, l) /\ TraceHandle(q, l) = TraceBareSpell(q, l)
      BY <1>12 DEF Handle, TraceHandle, Swings
    <2>2. CASE l.sp \notin DOMAIN p.caster
      BY <2>1, <2>2, <1>3 DEF BareSpellLine, TraceBareSpell
    <2>3. CASE l.sp \in DOMAIN p.caster
      <3> DEFINE c == p.caster[l.sp]
                 x == c \notin p.players /\ c \in Spaced \cup p.confirmed
                 r == IF x THEN [p EXCEPT !.confirmed = p.confirmed \cup {c}] ELSE Strike(p, [l EXCEPT !.src = c])
                 v == IF x THEN [q EXCEPT !.confirmed = q.confirmed \cup {c}] ELSE TraceStrike(q, [l EXCEPT !.src = c])
      <3>1. BareSpellLine(p, l) = Fought(r)
        BY <2>3 DEF BareSpellLine
      <3>2. x <=> c \notin q.players /\ c \in Spaced \cup q.confirmed
        BY DEF InStep
      <3>3. TraceBareSpell(q, l) = TraceFought(v)
        BY <2>3, <3>2, <1>3 DEF TraceBareSpell
      <3>4. InStep([p EXCEPT !.confirmed = p.confirmed \cup {c}], [q EXCEPT !.confirmed = q.confirmed \cup {c}], M)
        BY DEF InStep, Fields, TraceFields
      <3>5. InStep(r, v, M)
        BY <3>4, <1>4
      <3> HIDE DEF r, v
      <3> QED BY <2>1, <3>1, <3>3, <3>5, <1>2
    <2> QED BY <2>2, <2>3
  <1> QED BY <1>5, <1>6, <1>7, <1>8, <1>9, <1>10, <1>11, <1>12 DEF Blows

(* Naming mobs adds none the tool does not know of, once they are settled. *)
LEMMA NamedFits ==
  ASSUME NEW p, NEW q, NEW M, InStep(p, q, M), Settled(p)
  PROVE  InStep(UpdateMobName(p), q, M) /\ Settled(UpdateMobName(p))
  <1> DEFINE b == [p EXCEPT !.confirmed = (p.confirmed \cup p.cands) \ (p.cands \cap p.players)]
  <1>1. UpdateMobName(p) = Evict(b, p.cands \cap p.players)
    BY DEF UpdateMobName
  <1>2. b.confirmed \ Spaced = p.confirmed \ Spaced
    BY DEF Settled, InStep, Fields
  <1>3. InStep(b, q, M)
    BY <1>2 DEF InStep, Fields
  <1>4. Settled(UpdateMobName(p))
    BY SettledSteps DEF InStep
  <1> HIDE DEF b
  <1> QED BY <1>1, <1>3, <1>4, QuietSteps, QuietInStep

(* Lines that only see a mob. *)
LEMMA SightingFits ==
  ASSUME NEW p, NEW q, NEW M, InStep(p, q, M), Settled(p), NEW r, Quiet(p, r)
  PROVE  /\ InStep(r, q, M) /\ Settled(r)
         /\ InStep(UpdateMobName(r), q, M) /\ Settled(UpdateMobName(r))
  <1>1. InStep(r, q, M)
    BY QuietInStep, QuietTwice DEF Quiet
  <1>2. Settled(r)
    BY SettledSteps DEF InStep
  <1> QED BY <1>1, <1>2, NamedFits

(* Burns, mezzes and wakings, which the tool only prints. *)
LEMMA PrintedFits ==
  ASSUME NEW p, NEW q, NEW M, InStep(p, q, M), Settled(p), NEW l,
         l.op \in {"burn", "park", "wake", "berserk", "absorb"},
         l.op = "burn" => l.src \in Spaced, DOMAIN Handle(p, l).pets \subseteq DOMAIN Warders
  PROVE  InStep(Handle(p, l), TraceHandle(q, l), M) /\ Settled(Handle(p, l))
  <1>1. TraceHandle(q, l) = q
    BY DEF TraceHandle, TracePrinted, Swings
  <1>2. DOMAIN p = Fields
    BY DEF InStep
  <1>3. Quiet(p, p) /\ \A m : Quiet(p, [p EXCEPT !.mobs = m])
    BY DEF Quiet, Fields, TraceFields
  <1>4. CASE l.op = "burn"
    <2>1. Handle(p, l) = Fought(Tank(p, l))
      BY <1>4 DEF Handle, Swings, BurnLine
    <2>2. InStep(Tank(p, l), q, M)
      BY <1>4, TankFits
    <2>3. Settled(Tank(p, l))
      <3> DEFINE a == [p EXCEPT !.confirmed = p.confirmed \cup {l.src}]
                 m == UpdateMobList(a, l.src)
      <3>1. PICK e, t : Tank(p, l) = Emit([m EXCEPT !.tab = t], e)
        BY DEF Tank, Hit
      <3>2. DOMAIN a = Fields /\ Settled(a)
        BY <1>2, <1>4 DEF Settled, Fields
      <3>3. Quiet(a, m)
        BY QuietSteps
      <3> HIDE DEF a
      <3>4. DOMAIN m = Fields /\ Settled(m)
        BY <3>2, <3>3, SettledSteps DEF Quiet
      <3> HIDE DEF m
      <3>5. Settled(Emit([m EXCEPT !.tab = t], e))
        BY <3>4 DEF Settled, Emit, Fields
      <3> QED BY <3>1, <3>5
    <2>4. InStep(Fought(Tank(p, l)), q, M)
      BY <2>2, <2>3, FoughtFits
    <2>5. Settled(Fought(Tank(p, l)))
      <3>1. DOMAIN Tank(p, l) = Fields
        BY <2>2 DEF InStep
      <3> QED BY <3>1, SettledSteps
    <2> QED BY <1>1, <2>1, <2>4, <2>5
  <1>5. CASE l.op = "park"
    <2> DEFINE u == UpdateMobList(p, l.tgt)
    <2>1. PICK m, e : ParkLine(p, l) = UpdateMobName(IF u.hit = NoMob THEN u ELSE Emit([u EXCEPT !.mobs = m], e))
      BY DEF ParkLine
    <2>2. Quiet(p, u)
      BY QuietSteps
    <2>3. DOMAIN u = Fields
      BY <2>2, <1>2 DEF Quiet
    <2> HIDE DEF u
    <2> DEFINE v == [u EXCEPT !.mobs = m]
    <2>4. Quiet(u, v) /\ DOMAIN v = Fields
      BY <2>3 DEF Quiet, Fields, TraceFields
    <2> HIDE DEF v
    <2>5. Quiet(v, Emit(v, e))
      BY <2>4, QuietSteps
    <2>6. Quiet(p, Emit(v, e))
      BY <2>2, <2>4, <2>5, QuietTwice
    <2>7. \E r : Quiet(p, r) /\ ParkLine(p, l) = UpdateMobName(r)
      BY <2>1, <2>2, <2>6 DEF v
    <2> QED BY <1>1, <1>5, <2>7, SightingFits DEF Handle, Swings
  <1>6. CASE l.op = "wake"
    <2> DEFINE u == UpdateMobList(p, l.tgt)
    <2>1. PICK e : WakeLine(p, l) = UpdateMobName(IF u.hit = NoMob THEN u ELSE Emit(u, e))
      BY DEF WakeLine
    <2>2. Quiet(p, u)
      BY QuietSteps
    <2>3. DOMAIN u = Fields
      BY <2>2, <1>2 DEF Quiet
    <2> HIDE DEF u
    <2>4. Quiet(p, Emit(u, e))
      BY <2>2, <2>3, QuietSteps, QuietTwice
    <2> QED BY <1>1, <1>6, <2>1, <2>2, <2>4, SightingFits DEF Handle, Swings
  <1>7. CASE l.op = "berserk"
    <2>1. Handle(p, l) = Berserk(p, l)
      BY <1>7 DEF Handle, Swings
    <2>2. Berserk(p, l) = p
      BY <2>1, <1>2, NoSummoned
    <2> QED BY <1>1, <2>1, <2>2
  <1>8. CASE l.op = "absorb"
    <2>1. PICK e : Handle(p, l) = Emit(p, e)
      BY <1>8 DEF Handle, Swings, AbsorbLine
    <2>2. Quiet(p, Emit(p, e))
      BY <1>2, QuietSteps
    <2> QED BY <1>1, <2>1, <2>2, SightingFits
  <1> QED BY <1>4, <1>5, <1>6, <1>7, <1>8

(* Casts, deaths, spoils, who and resists. *)
LEMMA TellingsFit ==
  ASSUME NEW p, NEW q, NEW M, InStep(p, q, M), Settled(p), NEW l,
         l.op \in {"cast", "slay", "loot", "money", "who", "resist"}
  PROVE  InStep(Handle(p, l), TraceHandle(q, l), M) /\ Settled(Handle(p, l))
  <1>1. DOMAIN p = Fields
    BY DEF InStep
  <1>2. ASSUME NEW r, InStep(r, TraceHandle(q, l), M), Settled(r), NEW e, Handle(p, l) = Emit(r, e)
        PROVE  InStep(Handle(p, l), TraceHandle(q, l), M) /\ Settled(Handle(p, l))
    <2>1. InStep(Emit(r, e), TraceHandle(q, l), M)
      BY <1>2, QuietFits
    <2>2. DOMAIN r = Fields
      BY <1>2 DEF InStep
    <2>3. Settled(Emit(r, e))
      BY <1>2, <2>2, QuietSteps, SettledSteps
    <2> QED BY <1>2, <2>1, <2>3
  <1>3. CASE l.op = "cast"
    <2> DEFINE r(b, c) == [p EXCEPT !.caster = Put(p.caster, l.sp, l.src), !.buff = b, !.summon = c]
    <2>1. PICK b, c, e : Handle(p, l) = Emit(r(b, c), e)
      BY <1>3 DEF Handle, Swings, Cast
    <2>2. TraceHandle(q, l) = [q EXCEPT !.caster = Put(q.caster, l.sp, l.src)]
      BY <1>3 DEF TraceHandle, Swings, TraceCast
    <2>3. InStep(r(b, c), TraceHandle(q, l), M) /\ Settled(r(b, c))
      BY <2>2 DEF InStep, Settled, Fields, TraceFields
    <2> HIDE DEF r
    <2> QED BY <2>1, <2>3, <1>2
  <1>4. CASE l.op = "slay"
    <2> DEFINE r(a, b, c, x) == [p EXCEPT !.dead = a, !.ended = b, !.loot = c, !.lootTs = x]
    <2>1. PICK a, b, c, x, e : Handle(p, l) = Emit(r(a, b, c, x), e)
      BY <1>4 DEF Handle, Swings, SlayLine
    <2>2. Quiet(p, r(a, b, c, x))
      BY DEF Quiet, Fields, TraceFields
    <2>3. Quiet(q, TraceHandle(q, l))
      BY <1>4 DEF TraceHandle, Swings, TraceSlay, Quiet, Fields, TraceFields
    <2> HIDE DEF r
    <2>4. InStep(r(a, b, c, x), TraceHandle(q, l), M) /\ Settled(r(a, b, c, x))
      BY <2>2, <2>3, <1>1, QuietInStep, SettledSteps
    <2> QED BY <2>1, <2>4, <1>2
  <1>5. CASE l.op = "loot"
    <2> DEFINE r(a) == [p EXCEPT !.loot = a]
    <2>1. PICK a, e : Handle(p, l) = Emit(r(a), e)
      BY <1>5 DEF Handle, Swings, LootLine
    <2>2. Quiet(p, r(a))
      BY DEF Quiet, Fields, TraceFields
    <2>3. Quiet(q, TraceHandle(q, l))
      BY <1>5 DEF TraceHandle, Swings, TraceLoot, Quiet, Fields, TraceFields
    <2> HIDE DEF r
    <2>4. InStep(r(a), TraceHandle(q, l), M) /\ Settled(r(a))
      BY <2>2, <2>3, <1>1, QuietInStep, SettledSteps
    <2> QED BY <2>1, <2>4, <1>2
  <1>6. CASE l.op = "money"
    <2>1. PICK e : Handle(p, l) = Emit(p, e)
      BY <1>6 DEF Handle, Swings, MoneyLine
    <2>2. Quiet(p, p)
      BY DEF Quiet
    <2>3. Quiet(q, TraceHandle(q, l))
      BY <1>6 DEF TraceHandle, Swings, TraceMoney, Quiet, Fields, TraceFields
    <2> QED BY <2>1, <2>2, <2>3, <1>2, QuietInStep
  <1>7. CASE l.op = "who"
    <2> DEFINE r(a) == [p EXCEPT !.classes = a]
    <2>1. PICK a, e : Handle(p, l) = Emit(r(a), e)
      BY <1>7 DEF Handle, Swings, WhoLine
    <2>2. Quiet(p, r(a))
      BY DEF Quiet, Fields, TraceFields
    <2>3. Quiet(q, TraceHandle(q, l))
      BY <1>7 DEF TraceHandle, Swings, TraceWho, Quiet, Fields, TraceFields
    <2> HIDE DEF r
    <2>4. InStep(r(a), TraceHandle(q, l), M) /\ Settled(r(a))
      BY <2>2, <2>3, <1>1, QuietInStep, SettledSteps
    <2> QED BY <2>1, <2>4, <1>2
  <1>8. CASE l.op = "resist"
    <2> DEFINE T == Plus(p.tab, {<<"resist", l.src>>})
               U == Plus(q.tab, {<<"resist", l.src>>})
    <2>1. PICK e : Handle(p, l) = Emit([p EXCEPT !.tab = T], e)
      BY <1>8 DEF Handle, Swings, ResistLine
    <2>2. TraceHandle(q, l) = [q EXCEPT !.tab = U]
      BY <1>8 DEF TraceHandle, Swings, TraceResist
    <2>3. SameTotals(T, U, M)
      BY PlusSame DEF InStep
    <2> HIDE DEF T, U
    <2>4. InStep([p EXCEPT !.tab = T], TraceHandle(q, l), M) /\ Settled([p EXCEPT !.tab = T])
      BY <2>2, <2>3 DEF InStep, Settled, Fields, TraceFields
    <2> QED BY <2>1, <2>4, <1>2
  <1> QED BY <1>3, <1>4, <1>5, <1>6, <1>7, <1>8

(* An avoided blow. *)
LEMMA MissFits ==
  ASSUME NEW p, NEW q, NEW M, InStep(p, q, M), Settled(p), NEW l, l.op = "miss",
         DOMAIN Handle(p, l).pets \subseteq DOMAIN Warders
  PROVE  InStep(Handle(p, l), TraceHandle(q, l), M) /\ Settled(Handle(p, l))
  <1> DEFINE Avoid(t) == Plus(t, {<<"avoid", l.tgt>>})
             A(c) == [c EXCEPT !.tab = Avoid(c.tab)]
             W(c) == RegisterWarder(c, l.src)
             V(c) == TraceWarder(c, l.src)
             Mark(c) == [c EXCEPT !.confirmed = c.confirmed \cup {l.src}]
  <1>1. DOMAIN p = Fields /\ DOMAIN q = TraceFields
    BY DEF InStep
  <1>2. Handle(p, l) = MissLine(p, l) /\ TraceHandle(q, l) = TraceMiss(q, l)
    BY DEF Handle, TraceHandle, Swings
  <1>4. PetsStay(AssociateSummoned(p, l.src), MissLine(p, l))
    <2> DEFINE a == AssociateSummoned(p, l.src)
    <2>1. PICK e, f : MissLine(p, l) = IF SrcIsMob(W(A(a)), l)
                                       THEN Emit(UpdateMobList(Mark(W(A(a))), l.src), e) ELSE Emit(W(A(a)), f)
      BY DEF MissLine
    <2> HIDE DEF a
    <2>2. PetsStay(a, A(a))
      BY DEF PetsStay, Fields
    <2> HIDE DEF A
    <2>3. PetsStay(A(a), W(A(a)))
      BY PetsStaySteps
    <2>4. PetsStay(W(A(a)), Mark(W(A(a))))
      BY DEF PetsStay, Fields
    <2> HIDE DEF W, Mark
    <2> DEFINE w == W(A(a))
               m == Mark(W(A(a)))
    <2>5. PetsStay(a, w) /\ PetsStay(a, m)
      BY <2>2, <2>3, <2>4, PetsStayTwice
    <2> HIDE DEF w, m
    <2>6. PetsStay(a, UpdateMobList(m, l.src))
      BY <2>5, PetsStaySteps, PetsStayTwice
    <2>7. PetsStay(a, Emit(UpdateMobList(m, l.src), e)) /\ PetsStay(a, Emit(w, f))
      BY <2>5, <2>6, PetsStaySteps, PetsStayTwice
    <2> QED BY <2>1, <2>7 DEF w, m, a
  <1>5. AssociateSummoned(p, l.src) = p
    <2>1. PetsStay(p, AssociateSummoned(p, l.src))
      BY PetsStaySteps
    <2>2. DOMAIN AssociateSummoned(p, l.src).pets \subseteq DOMAIN Warders
      BY <2>1, <1>1, <1>2, <1>4 DEF PetsStay
    <2> QED BY <2>2, <1>1, NoSummoned
  <1>6. PICK e, f : MissLine(p, l) = IF SrcIsMob(W(A(p)), l)
                                     THEN Emit(UpdateMobList(Mark(W(A(p))), l.src), e) ELSE Emit(W(A(p)), f)
    BY <1>5 DEF MissLine
  <1>7. TraceMiss(q, l) =
          LET m == TraceMobList(Mark(V(A(q))), l.src)
          IN IF ~SrcIsMob(V(A(q)), l) THEN V(A(q))
             ELSE [m EXCEPT !.tab = Plus(m.tab, {<<"avoid", OrZero(m.hit), l.tgt>>}), !.said = OrZero(m.hit)]
    BY DEF TraceMiss
  <1>8. InStep(A(p), A(q), M) /\ Settled(A(p))
    <2>1. SameTotals(Avoid(p.tab), Avoid(q.tab), M)
      BY PlusSame DEF InStep
    <2> HIDE DEF Avoid
    <2> QED BY <2>1 DEF InStep, Settled, Fields, TraceFields
  <1> HIDE DEF A
  <1> DEFINE w == W(A(p))
             v == V(A(q))
             r == UpdateMobList(Mark(w), l.src)
             x == TraceMobList(Mark(v), l.src)
             T == Plus(x.tab, {<<"avoid", OrZero(x.hit), l.tgt>>})
  <1>9. InStep(w, v, M)
    BY <1>8, WardersFit
  <1>10. Settled(w)
    BY <1>8, SettledSteps DEF InStep
  <1> HIDE DEF w, v
  <1>11. SrcIsMob(w, l) <=> SrcIsMob(v, l)
    BY <1>9, QuietFits
  <1>12. CASE ~SrcIsMob(w, l)
    <2>1. Handle(p, l) = Emit(w, f) /\ TraceHandle(q, l) = v
      BY <1>2, <1>6, <1>7, <1>11, <1>12 DEF w, v
    <2>2. Settled(Emit(w, f))
      BY <1>9, <1>10, QuietSteps, SettledSteps DEF InStep
    <2> QED BY <2>1, <2>2, <1>9, QuietFits
  <1>13. CASE SrcIsMob(w, l)
    <2>1. Handle(p, l) = Emit(r, e) /\ TraceHandle(q, l) = [x EXCEPT !.tab = T, !.said = OrZero(x.hit)]
      BY <1>2, <1>6, <1>7, <1>11, <1>13 DEF w, v
    <2>2. InStep(Mark(w), Mark(v), M)
      BY <1>9 DEF InStep, Fields, TraceFields
    <2>3. Settled(Mark(w))
      BY <1>9, <1>10, <1>13 DEF InStep, Fields, Settled, SrcIsMob
    <2> HIDE DEF Mark
    <2>4. InStep(r, x, M)
      BY <2>2, QuietFits
    <2>5. Settled(r)
      BY <2>2, <2>3, QuietSteps, SettledSteps DEF InStep
    <2> HIDE DEF r, x
    <2>6. ~Printed(<<"avoid", OrZero(x.hit), l.tgt>>, M)
      BY DEF Printed
    <2>7. SameTotals(r.tab, T, M)
      BY <2>4, <2>6, UnprintedSame DEF InStep
    <2> HIDE DEF T
    <2>8. InStep(r, [x EXCEPT !.tab = T, !.said = OrZero(x.hit)], M)
      BY <2>4, <2>7 DEF InStep, TraceFields
    <2>9. Settled(Emit(r, e))
      BY <2>4, <2>5, QuietSteps, SettledSteps DEF InStep
    <2> QED BY <2>1, <2>8, <2>9, QuietFits
  <1> QED BY <1>12, <1>13

(* Who the parser takes for a mob when it heals is credited by the tool only;
   such a line tells the stream nothing. *)
LEMMA HealFits ==
  ASSUME NEW p, NEW q, NEW M, InStep(p, q, M), Settled(p), p.out = <<>>, NEW l, l.op = "heal"
  PROVE  /\ InStep(Handle(p, l), TraceHandle(q, l), IF Handle(p, l).out = <<>> THEN M \cup {l.src} ELSE M)
         /\ Settled(Handle(p, l))
  <1> DEFINE K == IF p.active = NoMob THEN {<<"heal", l.src>>}
                  ELSE {<<"heal", l.src>>, <<"heal", p.active, l.src>>}
             L == IF q.active = NoMob THEN {<<"heal", l.src>>, <<"healed", l.tgt>>}
                  ELSE {<<"heal", l.src>>, <<"healed", l.tgt>>}
                       \cup {<<"heal", q.active, l.src>>, <<"healed", q.active, l.tgt>>}
             N == M \cup {l.src}
             mob == /\ l.src \notin p.players
                    /\ l.src \in p.confirmed \/ (l.src \in Spaced /\ l.tgt = l.src)
             u == UpdateMobList(p, l.src)
             b == [p EXCEPT !.tab = Plus(p.tab, K)]
             v == [q EXCEPT !.tab = Plus(q.tab, L)]
  <1>1. TraceHandle(q, l) = v
    BY DEF TraceHandle, Swings, TraceHeal
  <1>2. DOMAIN p = Fields
    BY DEF InStep
  <1>3. PICK e : Handle(p, l) = IF mob THEN u ELSE Emit(b, e)
    BY DEF Handle, Swings, HealLine
  <1>4. CASE mob
    <2>1. Handle(p, l) = u
      BY <1>3, <1>4
    <2>2. u.out = <<>>
      BY <1>2, MuteSteps DEF Mute
    <2>3. InStep(u, q, N) /\ Settled(u)
      BY <1>2, QuietFits, WiderFits, QuietSteps, SettledSteps
    <2>4. \A k \in L : ~Printed(k, N)
      BY DEF Printed
    <2> HIDE DEF u, L, N
    <2>5. SameTotals(u.tab, Plus(q.tab, L), N)
      BY <2>3, <2>4, UnprintedSame DEF InStep
    <2>6. InStep(u, v, N)
      BY <2>3, <2>5 DEF InStep, TraceFields
    <2> QED BY <2>1, <2>2, <2>3, <2>6, <1>1 DEF N
  <1>5. CASE ~mob
    <2>1. Handle(p, l) = Emit(b, e)
      BY <1>3, <1>5
    <2>2. \A k : Printed(k, M) => (k \in K <=> k \in L)
      BY DEF Printed
    <2> HIDE DEF K, L
    <2>3. SameTotals(Plus(p.tab, K), Plus(q.tab, L), M)
      BY <2>2, PlusSame DEF InStep
    <2>4. InStep(b, v, M) /\ Settled(b)
      BY <2>3 DEF InStep, Settled, Fields, TraceFields
    <2> HIDE DEF b, v
    <2>5. InStep(Emit(b, e), v, M)
      BY <2>4, QuietFits
    <2>6. Settled(Emit(b, e))
      BY <2>4, QuietSteps, SettledSteps DEF InStep
    <2>7. InStep(Emit(b, e), v, M \cup {l.src})
      BY <2>5, WiderFits
    <2> QED BY <2>1, <2>5, <2>6, <2>7, <1>1
  <1> QED BY <1>4, <1>5

(* Every line, where no pet is known but warders. *)
LEMMA HandleFits ==
  ASSUME NEW p, NEW q, NEW M, InStep(p, q, M), Settled(p), p.out = <<>>, NEW l, l.op \in Ops,
         l.op = "burn" => l.src \in Spaced, l.op = "riposte" => l.tgt \in Spaced,
         DOMAIN Handle(p, l).pets \subseteq DOMAIN Warders
  PROVE  /\ InStep(Handle(p, l), TraceHandle(q, l),
                   IF l.op = "heal" /\ Handle(p, l).out = <<>> THEN M \cup {l.src} ELSE M)
         /\ Settled(Handle(p, l))
  <1>1. CASE l.op \in Blows
    BY <1>1, BlowsFit DEF Blows, Swings
  <1>2. CASE l.op \in {"burn", "park", "wake", "berserk", "absorb"}
    BY <1>2, PrintedFits
  <1>3. CASE l.op \in {"cast", "slay", "loot", "money", "who", "resist"}
    BY <1>3, TellingsFit
  <1>4. CASE l.op = "miss"
    BY <1>4, MissFits
  <1>5. CASE l.op = "heal"
    BY <1>5, HealFits
  <1> QED BY <1>1, <1>2, <1>3, <1>4, <1>5 DEF Ops, Blows, Swings

(* One line read by each, with its time stamp. *)
LEMMA ReadFits ==
  ASSUME NEW p, NEW q, NEW M, InStep(p, q, M), Settled(p), NEW l, l.op \in Ops, NEW jump,
         l.op = "burn" => l.src \in Spaced, l.op = "riposte" => l.tgt \in Spaced,
         DOMAIN Read(p, l, jump).pets \subseteq DOMAIN Warders
  PROVE  /\ InStep(Read(p, l, jump), TraceRead(q, l),
                   IF l.op = "heal" /\ Read(p, l, jump).out = <<>> THEN M \cup {l.src} ELSE M)
         /\ Settled(Read(p, l, jump))
  <1> DEFINE a == [p EXCEPT !.ts = @ + jump, !.out = <<>>, !.hit = NoMob,
                            !.wall = @ + IF p.pace = -1 THEN jump ELSE p.pace]
             b == [q EXCEPT !.hit = NoMob, !.said = NoMob]
             r == TraceHandle(b, l)
             v == [r EXCEPT !.wall = r.wall + b.pace]
             N == IF l.op = "heal" /\ Handle(a, l).out = <<>> THEN M \cup {l.src} ELSE M
  <1>1. InStep(a, b, M) /\ Settled(a) /\ a.out = <<>>
    BY DEF InStep, Settled, Fields, TraceFields
  <1>2. Read(p, l, jump) = Handle(a, l)
    BY DEF Read
  <1>3. TraceRead(q, l) = [r EXCEPT !.wall = r.wall + q.pace]
    BY DEF TraceRead
  <1> HIDE DEF a, b
  <1>4. InStep(Handle(a, l), r, N) /\ Settled(Handle(a, l))
    BY <1>1, <1>2, HandleFits
  <1> HIDE DEF r, N
  <1>5. InStep(Handle(a, l), TraceRead(q, l), N)
    BY <1>3, <1>4 DEF InStep, TraceFields
  <1> QED BY <1>2, <1>4, <1>5 DEF N

(* The debug tool "processes it exactly as the production parser does": what it
   prints of players is the parser's, whatever the delay and whatever is read,
   within the scope TraceAgrees states (froklog-debug/main.rs). *)
THEOREM DebugToolAgrees == TraceSpec => []TraceAgrees
  <1> DEFINE In == scene # "reset" /\ ToldAlike(scene) /\ DOMAIN s.pets \subseteq DOMAIN Warders
             Inv == /\ scene \in DOMAIN Script /\ Alike(s, s)
                    /\ In => InStep(s, d, mended) /\ Settled(s)
  <1>1. TraceInit => Inv
    <2> SUFFICES ASSUME TraceInit PROVE Inv
      OBVIOUS
    <2>1. scene \in DOMAIN Script /\ s = Fresh(-1) /\ d = TraceFresh(twin.pace)
      BY DEF TraceInit, CombatInit
    <2>2. Alike(s, s)
      BY <2>1, FreshAlike
    <2>3. InStep(s, d, mended) /\ Settled(s)
      BY <2>1 DEF InStep, Settled, Fresh, TraceFresh, Fields, TraceFields, SameTotals, Zero
    <2> QED BY <2>1, <2>2, <2>3
  <1>2. Inv /\ [TraceNext]_traceVars => Inv'
    <2> SUFFICES ASSUME Inv, [TraceNext]_traceVars PROVE Inv'
      OBVIOUS
    <2>1. ASSUME NEW l \in Script[scene], NEW jump \in Jumps[scene], TraceLine(l, jump) PROVE Inv'
      <3>1. /\ s' = Read(s, l, jump) /\ d' = TraceRead(d, l) /\ scene' = scene
            /\ mended' = IF l.op = "heal" /\ s'.out = <<>> THEN mended \cup {l.src} ELSE mended
        BY <2>1 DEF TraceLine, Line
      <3>2. l.op \in Ops /\ jump \in Nat
        BY ScriptAssumption
      <3>3. Alike(s', s')
        BY <3>1, <3>2, ReadAlike
      <3>4. DOMAIN s.pets \subseteq DOMAIN s'.pets
        <4> DEFINE a == [s EXCEPT !.ts = @ + jump, !.out = <<>>, !.hit = NoMob,
                                  !.wall = @ + IF s.pace = -1 THEN jump ELSE s.pace]
        <4>1. DOMAIN a = Fields /\ a.pets = s.pets
          BY DEF Alike, Fields
        <4>2. s' = Handle(a, l)
          BY <3>1 DEF Read
        <4> HIDE DEF a
        <4> QED BY <4>1, <4>2, <3>2, HandleKeepsPets DEF PetsStay
      <3>5. ASSUME In' PROVE InStep(s', d', mended') /\ Settled(s')
        <4>1. InStep(s, d, mended) /\ Settled(s)
          BY <3>1, <3>4, <3>5
        <4>2. (l.op = "burn" => l.src \in Spaced) /\ (l.op = "riposte" => l.tgt \in Spaced)
          BY <3>1, <3>5 DEF ToldAlike
        <4> QED BY <3>1, <3>2, <3>5, <4>1, <4>2, ReadFits
      <3> QED BY <3>1, <3>3, <3>5
    <2>2. CASE PressReset /\ UNCHANGED <<d, mended>>
      BY <2>2, ResetAlike DEF PressReset
    <2>3. CASE UNCHANGED traceVars
      BY <2>3 DEF traceVars, combatVars
    <2> QED BY <2>1, <2>2, <2>3 DEF TraceNext
  <1>3. Inv => TraceAgrees
    <2> SUFFICES ASSUME Inv, In PROVE d.players = s.players /\
                   \A k \in TraceSummary(s) \cup TraceSummary(d) : k[1] # "heal" \/ k[2] \notin mended =>
                     k \in DOMAIN s.tab \cap DOMAIN d.tab /\ s.tab[k] = d.tab[k]
      BY DEF TraceAgrees
    <2> QED BY DEF InStep, SameTotals, Printed, TraceSummary
  <1> QED BY <1>1, <1>2, <1>3, PTL DEF TraceSpec

-----------------------------------------------------------------------------
(* The sightings of a mob and the lines given to them (update_mob_list,
   parser.rs) *)

(* The list of mobs: every sighting has a number of its own, below the next. *)
Distinct(mobs) == \A i, j \in DOMAIN mobs : mobs[i].id = mobs[j].id => i = j

(* A sighting in a list whose next number is next, at time ts. *)
Known(m, next, ts) ==
  /\ DOMAIN m = MobFields /\ m = [x \in MobFields |-> m[x]] /\ m.parked \in BOOLEAN
  /\ m.id \in Nat /\ m.id < next /\ m.last \in Nat \ {0} /\ m.last <= ts

(* What is true of the list between any two steps of the parser. *)
Listed(p) ==
  /\ DOMAIN p = Fields /\ p.ts \in Nat \ {0} /\ p.next \in Nat
  /\ IsSequence(p.mobs) /\ Distinct(p.mobs)
  /\ \A m \in Range(p.mobs) : Known(m, p.next, p.ts)

(* A step that leaves the list alone, and one that only takes players off it. *)
Aside(p, r) ==
  Listed(p) =>
    /\ DOMAIN r = Fields /\ r.mobs = p.mobs
    /\ r.ts = p.ts /\ r.next = p.next /\ r.dead = p.dead /\ r.hit = p.hit
    /\ p.players \subseteq r.players

Thinned(p, r) ==
  Listed(p) =>
    /\ Listed(r)
    /\ r.ts = p.ts /\ r.next = p.next /\ r.dead = p.dead /\ r.hit = p.hit
    /\ p.players \subseteq r.players
    /\ Range(r.mobs) \subseteq Range(p.mobs)
    /\ \A m \in Range(p.mobs) : m \in Range(r.mobs) \/ m.name \in r.players

(* A step in which a line about n is given a sighting: that of a mob of that
   name, alive and not out of sight for long, or else a new one. *)
Becomes(p, v, n, parked) == Lower(v.name) = Lower(n) /\ v.last = p.ts /\ v.parked = parked

Resumes(p, r, m, n, parked) ==
  /\ Listed(r) /\ r.ts = p.ts /\ r.players = p.players
  /\ r.next = p.next /\ r.hit = m.id
  /\ \E v \in Range(r.mobs) : /\ v.id = m.id /\ Becomes(p, v, n, parked)
                              /\ Range(r.mobs) = (Range(p.mobs) \ {m}) \cup {v}

Opens(p, r, n, parked) ==
  /\ Listed(r) /\ r.ts = p.ts /\ r.players = p.players
  /\ r.next = p.next + 1 /\ r.hit = p.next
  /\ \E v \in Range(r.mobs) : /\ v.id = p.next /\ Becomes(p, v, n, parked)
                              /\ Range(r.mobs) = Range(p.mobs) \cup {v}

Seen(p, r, n, parked) ==
  Listed(p) =>
    /\ r.dead = p.dead \ {Lower(n)}
    /\ \/ /\ Lower(n) \notin p.dead
          /\ \E m \in Range(p.mobs) : /\ Lower(m.name) = Lower(n) /\ (m.parked \/ p.ts - m.last < 15)
                                      /\ Resumes(p, r, m, n, parked)
       \/ /\ \/ Lower(n) \in p.dead
             \/ \A m \in Range(p.mobs) : Lower(m.name) = Lower(n) => ~m.parked /\ p.ts - m.last >= 15
          /\ Opens(p, r, n, parked)

(* Such steps one after another. *)
LEMMA ThinnedTwice ==
  ASSUME NEW p, NEW q, NEW r
  PROVE  /\ Thinned(p, q) /\ Thinned(q, r) => Thinned(p, r)
         /\ Aside(p, q) /\ Aside(q, r) => Aside(p, r)
         /\ Aside(p, q) => Thinned(p, q)
  <1>1. Listed(p) /\ Aside(p, q) => Listed(q)
    BY DEF Listed, Aside
  <1>2. Aside(p, q) /\ Aside(q, r) => Aside(p, r)
    BY <1>1 DEF Aside
  <1>3. Aside(p, q) => Thinned(p, q)
    BY <1>1 DEF Aside, Thinned
  <1>4. Thinned(p, q) /\ Thinned(q, r) => Thinned(p, r)
    BY DEF Thinned
  <1> QED BY <1>2, <1>3, <1>4

(* evict_player_from_mob_list takes the names off the list, nothing else. *)
LEMMA EvictThins ==
  ASSUME NEW p, NEW N, Listed(p)
  PROVE  /\ Listed(Evict(p, N))
         /\ Range(Evict(p, N).mobs) = {m \in Range(p.mobs) : m.name \notin N}
  <1> DEFINE S == {i \in DOMAIN p.mobs : p.mobs[i].name \notin N}
             u == Part(p.mobs, S)
             r == Evict(p, N)
  <1>1. IsSequence(p.mobs) /\ S \in SUBSET DOMAIN p.mobs
    BY DEF Listed
  <1>2. /\ IsSequence(u)
        /\ \A k \in DOMAIN u : \E i \in S : Rank(S, i) = k - 1 /\ u[k] = p.mobs[i]
        /\ \A i \in S : Rank(S, i) + 1 \in DOMAIN u /\ u[Rank(S, i) + 1] = p.mobs[i]
    BY <1>1, PartIs
  <1>3. DOMAIN u \subseteq Nat
    BY <1>2, SequenceIs
  <1>4. DOMAIN r = DOMAIN p /\ r.mobs = u /\ r.ts = p.ts /\ r.next = p.next
    BY DEF Evict, Listed, Fields
  <1> HIDE DEF u, r
  <1>5. Distinct(u)
    <2> SUFFICES ASSUME NEW k \in DOMAIN u, NEW h \in DOMAIN u, u[k].id = u[h].id PROVE k = h
      BY DEF Distinct
    <2>1. PICK i \in S : Rank(S, i) = k - 1 /\ u[k] = p.mobs[i]
      BY <1>2
    <2>2. PICK j \in S : Rank(S, j) = h - 1 /\ u[h] = p.mobs[j]
      BY <1>2
    <2>3. i = j
      BY <2>1, <2>2 DEF Listed, Distinct
    <2> HIDE DEF S
    <2> QED BY <2>1, <2>2, <2>3, <1>3
  <1>6. Range(u) = {m \in Range(p.mobs) : m.name \notin N}
    <2>1. ASSUME NEW x \in Range(u) PROVE x \in Range(p.mobs) /\ x.name \notin N
      <3>1. PICK k \in DOMAIN u : x = u[k]
        BY DEF Range
      <3>2. PICK i \in S : u[k] = p.mobs[i]
        BY <1>2
      <3> QED BY <3>1, <3>2 DEF Range
    <2>2. ASSUME NEW x \in Range(p.mobs), x.name \notin N PROVE x \in Range(u)
      <3>1. PICK i \in DOMAIN p.mobs : x = p.mobs[i]
        BY DEF Range
      <3>2. i \in S
        BY <3>1, <2>2
      <3> QED BY <3>1, <3>2, <1>2 DEF Range
    <2> QED BY <2>1, <2>2
  <1>7. Listed(r)
    BY <1>2, <1>4, <1>5, <1>6 DEF Listed
  <1> QED BY <1>4, <1>6, <1>7 DEF r

(* The two ways a name is seen: again, or as a sighting of its own. *)
LEMMA AgainSees ==
  ASSUME NEW p, Listed(p), NEW n, NEW i \in DOMAIN p.mobs, Lower(p.mobs[i].name) = Lower(n)
  PROVE  /\ Resumes(p, SightAgain(p, n, i), p.mobs[i], n, FALSE)
         /\ SightAgain(p, n, i).dead = p.dead
  <1> DEFINE m == p.mobs[i]
             v == [m EXCEPT !.wall = p.wall, !.parked = FALSE,
                            !.last = IF p.ts # 0 THEN p.ts ELSE m.last,
                            !.name = IF n \notin DOMAIN Upper THEN n ELSE m.name]
             u == [p.mobs EXCEPT ![i] = v]
             r == SightAgain(p, n, i)
  <1>1. r = [p EXCEPT !.mobs = u, !.active = v.id, !.hit = v.id]
    BY DEF SightAgain
  <1>2. IsSequence(p.mobs) /\ p.ts \in Nat \ {0} /\ m \in Range(p.mobs) /\ Known(m, p.next, p.ts)
    BY DEF Listed, Range
  <1>3. /\ DOMAIN v = MobFields /\ v = [x \in MobFields |-> v[x]] /\ v.id = m.id /\ v.last = p.ts /\ v.parked = FALSE
        /\ v.name = IF n \notin DOMAIN Upper THEN n ELSE m.name
    BY <1>2 DEF MobFields, Known
  <1>4. Becomes(p, v, n, FALSE)
    BY <1>3 DEF Becomes
  <1> HIDE DEF v
  <1>5. DOMAIN u = DOMAIN p.mobs /\ u[i] = v /\ \A j \in DOMAIN u : j # i => u[j] = p.mobs[j]
    OBVIOUS
  <1>6. IsSequence(u)
    <2>1. Len(p.mobs) \in Nat /\ DOMAIN p.mobs = 1 .. Len(p.mobs)
      BY <1>2, SequenceIs
    <2>2. DOMAIN u = 1 .. Len(p.mobs) /\ u = [k \in 1 .. Len(p.mobs) |-> u[k]]
      BY <2>1
    <2> HIDE DEF u
    <2> QED BY <2>1, <2>2, ListIsSequence
  <1> HIDE DEF u
  <1>7. \A j \in DOMAIN p.mobs : p.mobs[j] = m => j = i
    BY DEF Listed, Distinct
  <1>8. Range(u) = (Range(p.mobs) \ {m}) \cup {v} /\ v \in Range(u)
    <2> HIDE DEF m
    <2> QED BY <1>5, <1>7 DEF Range, m
  <1>9. Distinct(u)
    BY <1>3, <1>5 DEF Listed, Distinct
  <1>10. /\ DOMAIN r = Fields /\ r.mobs = u /\ r.hit = m.id /\ r.ts = p.ts /\ r.next = p.next
         /\ r.players = p.players /\ r.dead = p.dead
    BY <1>1, <1>3 DEF Listed, Fields
  <1> HIDE DEF r
  <1>11. Listed(r)
    <2>1. Known(v, p.next, p.ts)
      <3>1. v.parked \in BOOLEAN
        BY <1>3
      <3>2. v.id \in Nat /\ v.id < p.next
        <4> HIDE DEF m
        <4> QED BY <1>2, <1>3 DEF Known
      <3> QED BY <1>2, <1>3, <3>1, <3>2 DEF Known
    <2>2. \A x \in Range(u) : Known(x, p.next, p.ts)
      BY <1>8, <2>1 DEF Listed
    <2> QED BY <2>2, <1>6, <1>9, <1>10 DEF Listed
  <1> QED BY <1>4, <1>3, <1>8, <1>10, <1>11 DEF r, Resumes

LEMMA AnewSees ==
  ASSUME NEW p, Listed(p), NEW n
  PROVE  Opens(p, SightAnew(p, n), n, FALSE) /\ SightAnew(p, n).dead = p.dead
  <1> DEFINE v == [id |-> p.next, name |-> n, last |-> p.ts, wall |-> p.wall, parked |-> FALSE]
             u == Append(p.mobs, v)
             r == SightAnew(p, n)
  <1>1. r = [p EXCEPT !.mobs = u, !.next = p.next + 1, !.active = p.next, !.hit = p.next]
    BY DEF SightAnew
  <1>2. IsSequence(p.mobs) /\ p.ts \in Nat \ {0} /\ p.next \in Nat
    BY DEF Listed
  <1>3. /\ DOMAIN v = MobFields /\ v = [x \in MobFields |-> v[x]]
        /\ v.id = p.next /\ v.last = p.ts /\ v.parked = FALSE /\ Becomes(p, v, n, FALSE)
    BY DEF MobFields, Becomes
  <1> HIDE DEF v
  <1>4. IsSequence(u) /\ Range(u) = Range(p.mobs) \cup {v}
    BY <1>2, AppendIs
  <1>5. /\ Len(p.mobs) \in Nat /\ DOMAIN p.mobs = 1 .. Len(p.mobs)
        /\ DOMAIN u = 1 .. Len(p.mobs) + 1 /\ u[Len(p.mobs) + 1] = v
        /\ \A k \in DOMAIN p.mobs : u[k] = p.mobs[k]
    <2>1. p.mobs \in Seq(Range(p.mobs) \cup {v}) /\ v \in Range(p.mobs) \cup {v}
      <3>1. p.mobs \in [1 .. Len(p.mobs) -> Range(p.mobs) \cup {v}] /\ Len(p.mobs) \in Nat
        BY <1>2, SequenceIs
      <3> QED BY <3>1, IsASeq
    <2> QED BY <1>2, <1>4, <2>1, AppendProperties, LenProperties, SequenceIs
  <1> HIDE DEF u
  <1>6. \A k \in DOMAIN p.mobs : p.mobs[k].id # p.next
    <2>1. \A k \in DOMAIN p.mobs : p.mobs[k] \in Range(p.mobs)
      BY DEF Range
    <2> QED BY <2>1 DEF Listed, Known
  <1>7. Distinct(u)
    <2> SUFFICES ASSUME NEW k \in DOMAIN u, NEW h \in DOMAIN u, u[k].id = u[h].id PROVE k = h
      BY DEF Distinct
    <2>1. \A x \in DOMAIN u : x = Len(p.mobs) + 1 \/ x \in DOMAIN p.mobs
      BY <1>5
    <2>2. Distinct(p.mobs)
      BY DEF Listed
    <2> QED BY <1>3, <1>5, <1>6, <2>1, <2>2 DEF Distinct
  <1>8. /\ DOMAIN r = Fields /\ r.mobs = u /\ r.hit = p.next /\ r.ts = p.ts /\ r.next = p.next + 1
        /\ r.players = p.players /\ r.dead = p.dead
    BY <1>1 DEF Listed, Fields
  <1> HIDE DEF r
  <1>9. Listed(r)
    <2>1. Known(v, p.next + 1, p.ts)
      <3>1. v.parked \in BOOLEAN
        BY <1>3
      <3> QED BY <1>2, <1>3, <3>1 DEF Known
    <2>2. \A x \in Range(p.mobs) : Known(x, p.next + 1, p.ts)
      BY <1>2 DEF Listed, Known
    <2>3. \A x \in Range(u) : Known(x, p.next + 1, p.ts)
      BY <1>4, <2>1, <2>2
    <2> QED BY <2>3, <1>2, <1>4, <1>7, <1>8 DEF Listed
  <1> QED BY <1>3, <1>4, <1>8, <1>9 DEF r, Opens

(* update_mob_list gives the line a sighting, or takes a player off the list. *)
LEMMA MobListSees ==
  ASSUME NEW p, NEW n, p.hit = NoMob
  PROVE  Seen(p, UpdateMobList(p, n), n, FALSE) \/ Thinned(p, UpdateMobList(p, n))
  <1> SUFFICES ASSUME Listed(p) PROVE Seen(p, UpdateMobList(p, n), n, FALSE) \/ Thinned(p, UpdateMobList(p, n))
    BY DEF Seen
  <1> DEFINE found == Sighted(p, n)
             i == CHOOSE i \in found : \A j \in found : i <= j
             missed == [p EXCEPT !.hit = NoMob]
             q == [p EXCEPT !.dead = p.dead \ {Lower(n)}]
  <1>1. Aside(p, missed) /\ Listed(missed) /\ missed.mobs = p.mobs /\ missed.players = p.players
    BY DEF Aside, Listed, Fields
  <1>2. /\ Listed(q) /\ q.mobs = p.mobs /\ q.ts = p.ts /\ q.next = p.next /\ q.players = p.players
        /\ q.dead = p.dead \ {Lower(n)}
    BY DEF Listed, Fields
  <1>3. \A m \in Range(p.mobs) : WithinGap(p, m) <=> m.parked \/ p.ts - m.last < 15
    BY DEF Listed, Known, WithinGap
  <1>4. UpdateMobList(p, n) = IF n \in Corpses THEN missed
                              ELSE IF n \in p.players THEN Evict(missed, {n})
                              ELSE IF Lower(n) \notin p.dead /\ found # {} THEN SightAgain(q, n, i)
                              ELSE SightAnew(q, n)
    BY DEF UpdateMobList
  <1> HIDE DEF missed, q
  <1>5. CASE n \in Corpses
    BY <1>1, <1>4, <1>5, ThinnedTwice
  <1>6. CASE n \notin Corpses /\ n \in p.players
    <2> DEFINE r == Evict(missed, {n})
    <2>1. Listed(r) /\ Range(r.mobs) = {m \in Range(p.mobs) : m.name # n}
      BY <1>1, EvictThins
    <2>2. /\ r.ts = p.ts /\ r.next = p.next /\ r.dead = p.dead /\ r.hit = p.hit /\ r.players = p.players
      BY <1>1 DEF Evict, Aside, Fields
    <2> HIDE DEF r
    <2>3. Thinned(p, r)
      BY <2>1, <2>2, <1>6 DEF Thinned
    <2> QED BY <2>3, <1>4, <1>6 DEF r
  <1>7. CASE n \notin Corpses /\ n \notin p.players /\ Lower(n) \notin p.dead /\ found # {}
    <2> DEFINE r == SightAgain(q, n, i)
               m == p.mobs[i]
    <2>1. i \in found
      <3>1. found \in SUBSET Nat
        BY SequenceIs DEF Sighted, Listed
      <3>2. \E x \in found : \A y \in found : x <= y
        <4> HIDE DEF found
        <4> QED BY <1>7, <3>1, LeastExists
      <3> HIDE DEF found
      <3> QED BY <3>2
    <2> HIDE DEF i
    <2>2. i \in DOMAIN p.mobs /\ Lower(m.name) = Lower(n) /\ WithinGap(p, m) /\ m \in Range(p.mobs)
      BY <2>1 DEF Sighted, SameName, Range
    <2>3. i \in DOMAIN q.mobs /\ Lower(q.mobs[i].name) = Lower(n)
      BY <1>2, <2>2
    <2>4. Resumes(q, r, m, n, FALSE) /\ r.dead = q.dead
      BY <1>2, <2>3, AgainSees
    <2> HIDE DEF r, m
    <2>5. Resumes(p, r, m, n, FALSE)
      BY <1>2, <2>4 DEF Resumes, Becomes
    <2>6. m.parked \/ p.ts - m.last < 15
      BY <1>3, <2>2
    <2>7. Seen(p, r, n, FALSE)
      BY <1>2, <1>7, <2>2, <2>4, <2>5, <2>6 DEF Seen
    <2> QED BY <2>7, <1>4, <1>7 DEF r
  <1>8. CASE n \notin Corpses /\ n \notin p.players /\ (Lower(n) \in p.dead \/ found = {})
    <2> DEFINE r == SightAnew(q, n)
    <2>1. Opens(q, r, n, FALSE) /\ r.dead = q.dead
      BY <1>2, AnewSees
    <2> HIDE DEF r
    <2>2. Lower(n) \in p.dead \/ \A m \in Range(p.mobs) : Lower(m.name) = Lower(n) => ~m.parked /\ p.ts - m.last >= 15
      <3> SUFFICES ASSUME found = {}, NEW m \in Range(p.mobs), Lower(m.name) = Lower(n)
                   PROVE  ~m.parked /\ p.ts - m.last >= 15
        BY <1>8
      <3>1. ~WithinGap(p, m)
        BY DEF Sighted, SameName, Range
      <3>2. p.ts \in Nat /\ m.last \in Nat
        BY DEF Listed, Known
      <3>3. ~(m.parked \/ p.ts - m.last < 15)
        BY <1>3, <3>1
      <3> QED BY <3>2, <3>3
    <2>3. Opens(p, r, n, FALSE)
      BY <1>2, <2>1 DEF Opens, Becomes
    <2>4. Seen(p, r, n, FALSE)
      BY <1>2, <2>1, <2>2, <2>3 DEF Seen
    <2> QED BY <2>4, <1>4, <1>8 DEF r
  <1> QED BY <1>5, <1>6, <1>7, <1>8

(* A mez marks the sighting the line was given. *)
Marked(r) ==
  [r EXCEPT !.mobs = [i \in DOMAIN r.mobs |->
                        [r.mobs[i] EXCEPT !.parked = r.mobs[i].parked \/ r.mobs[i].id = r.hit]]]

LEMMA ParkSees ==
  ASSUME NEW p, NEW r, NEW n, Seen(p, r, n, FALSE)
  PROVE  Seen(p, Marked(r), n, TRUE)
  <1> DEFINE Park(m) == [m EXCEPT !.parked = m.parked \/ m.id = r.hit]
             u == [i \in DOMAIN r.mobs |-> Park(r.mobs[i])]
             q == Marked(r)
  <1> SUFFICES ASSUME Listed(p) PROVE Seen(p, q, n, TRUE)
    BY DEF Seen
  <1>1. Listed(r) /\ r.ts = p.ts /\ r.players = p.players
    BY DEF Seen, Resumes, Opens
  <1>2. IsSequence(r.mobs) /\ Distinct(r.mobs) /\ \A m \in Range(r.mobs) : Known(m, r.next, r.ts)
    BY <1>1 DEF Listed
  <1>3. ASSUME NEW m \in Range(r.mobs)
        PROVE  /\ Known(Park(m), r.next, r.ts) /\ Park(m).id = m.id /\ Park(m).last = m.last
               /\ Park(m).name = m.name
               /\ m.id # r.hit => Park(m) = m
               /\ m.id = r.hit => Park(m).parked = TRUE
    <2>1. Known(m, r.next, r.ts)
      BY <1>2
    <2>2. DOMAIN m = MobFields /\ m = [x \in MobFields |-> m[x]] /\ m.parked \in BOOLEAN
      BY <2>1 DEF Known
    <2>3. m.id = r.hit => Park(m).parked = TRUE
      BY <2>2 DEF MobFields
    <2>4. m.id # r.hit => Park(m) = m
      <3>1. CASE m.parked = TRUE
        BY <3>1, <2>2 DEF MobFields
      <3>2. CASE m.parked = FALSE
        BY <3>2, <2>2 DEF MobFields
      <3> QED BY <3>1, <3>2, <2>2
    <2>5. /\ DOMAIN Park(m) = MobFields /\ Park(m) = [x \in MobFields |-> Park(m)[x]] /\ Park(m).id = m.id /\ Park(m).last = m.last
          /\ Park(m).name = m.name
      BY <2>2 DEF MobFields
    <2>6. Park(m).parked \in BOOLEAN
      BY <2>2, <2>3, <2>4
    <2> HIDE DEF Park
    <2> QED BY <2>1, <2>3, <2>4, <2>5, <2>6 DEF Known
  <1> HIDE DEF Park
  <1>4. IsSequence(u)
    <2>1. Len(r.mobs) \in Nat /\ DOMAIN r.mobs = 1 .. Len(r.mobs)
      BY <1>2, SequenceIs
    <2>2. DOMAIN u = 1 .. Len(r.mobs) /\ u = [k \in 1 .. Len(r.mobs) |-> u[k]]
      BY <2>1
    <2> HIDE DEF u
    <2> QED BY <2>1, <2>2, ListIsSequence
  <1>5. \A i \in DOMAIN r.mobs : r.mobs[i] \in Range(r.mobs)
    BY DEF Range
  <1>6. Distinct(u)
    BY <1>2, <1>3, <1>5 DEF Distinct
  <1>7. /\ \A m \in Range(r.mobs) : Park(m) \in Range(u)
        /\ \A x \in Range(u) : \E m \in Range(r.mobs) : x = Park(m)
    BY DEF Range
  <1>8. /\ DOMAIN q = Fields /\ q.mobs = u /\ q.ts = r.ts /\ q.next = r.next
        /\ q.players = r.players /\ q.dead = r.dead /\ q.hit = r.hit
    BY <1>1 DEF Listed, Fields, Marked, Park
  <1> HIDE DEF u, q
  <1>9. Listed(q)
    BY <1>1, <1>3, <1>4, <1>6, <1>7, <1>8 DEF Listed
  <1>10. ASSUME NEW v \in Range(r.mobs), v.id = r.hit, Becomes(p, v, n, FALSE)
         PROVE  /\ Park(v) \in Range(u) /\ Park(v).id = v.id /\ Becomes(p, Park(v), n, TRUE)
                /\ Range(u) = (Range(r.mobs) \ {v}) \cup {Park(v)}
    <2>1. \A m \in Range(r.mobs) : m # v => m.id # r.hit
      BY <1>2, <1>10 DEF Range, Distinct
    <2>2. Range(u) = (Range(r.mobs) \ {v}) \cup {Park(v)}
      <3>1. ASSUME NEW x \in Range(u) PROVE x \in (Range(r.mobs) \ {v}) \cup {Park(v)}
        <4>1. PICK m \in Range(r.mobs) : x = Park(m)
          BY <1>7
        <4> QED BY <4>1, <2>1, <1>3
      <3>2. ASSUME NEW x \in Range(r.mobs) \ {v} PROVE x \in Range(u)
        BY <2>1, <1>3, <1>7
      <3> QED BY <3>1, <3>2, <1>7
    <2> QED BY <2>2, <1>3, <1>7, <1>10 DEF Becomes
  <1>11. \A m, k \in Range(p.mobs) : m.id = k.id => m = k
    BY DEF Listed, Distinct, Range
  <1>12. \A m \in Range(p.mobs) : m.id < p.next /\ m.id \in Nat /\ p.next \in Nat
    BY DEF Listed, Known
  <1>13. ASSUME NEW m \in Range(p.mobs), Resumes(p, r, m, n, FALSE) PROVE Resumes(p, q, m, n, TRUE)
    <2>1. PICK v \in Range(r.mobs) : /\ r.next = p.next /\ r.hit = m.id /\ v.id = m.id /\ Becomes(p, v, n, FALSE)
                                     /\ Range(r.mobs) = (Range(p.mobs) \ {m}) \cup {v}
      BY <1>13 DEF Resumes
    <2>2. v \notin Range(p.mobs) \ {m}
      BY <2>1, <1>11
    <2>3. Range(u) = (Range(p.mobs) \ {m}) \cup {Park(v)}
      <3>1. Range(u) = (Range(r.mobs) \ {v}) \cup {Park(v)}
        BY <2>1, <1>10
      <3>2. Range(r.mobs) \ {v} = Range(p.mobs) \ {m}
        BY <2>1, <2>2
      <3> QED BY <3>1, <3>2
    <2>4. Park(v) \in Range(u) /\ Park(v).id = m.id /\ Becomes(p, Park(v), n, TRUE)
      BY <2>1, <1>10
    <2> QED BY <1>1, <1>8, <1>9, <2>1, <2>3, <2>4 DEF Resumes
  <1>14. ASSUME Opens(p, r, n, FALSE) PROVE Opens(p, q, n, TRUE)
    <2>1. PICK v \in Range(r.mobs) : /\ r.next = p.next + 1 /\ r.hit = p.next
                                     /\ v.id = p.next /\ Becomes(p, v, n, FALSE)
                                     /\ Range(r.mobs) = Range(p.mobs) \cup {v}
      BY <1>14 DEF Opens
    <2>2. v \notin Range(p.mobs)
      BY <2>1, <1>12
    <2>3. Range(u) = Range(p.mobs) \cup {Park(v)}
      <3>1. Range(u) = (Range(r.mobs) \ {v}) \cup {Park(v)}
        BY <2>1, <1>10
      <3>2. Range(r.mobs) \ {v} = Range(p.mobs)
        BY <2>1, <2>2
      <3> QED BY <3>1, <3>2
    <2>4. Park(v) \in Range(u) /\ Park(v).id = p.next /\ Becomes(p, Park(v), n, TRUE)
      BY <2>1, <1>10
    <2> QED BY <1>1, <1>8, <1>9, <2>1, <2>3, <2>4 DEF Opens
  <1> QED BY <1>8, <1>13, <1>14 DEF Seen

(* A line that gives no sighting, or one that gives one to a line about n. *)
Shaped(p, r, n, parked) ==
  \/ Thinned(p, r)
  \/ \E a, b : Aside(p, a) /\ Seen(a, b, n, parked) /\ Thinned(b, r)

(* Steps before and after it that see nothing. *)
LEMMA ShapedAround ==
  ASSUME NEW p, NEW q, NEW r, NEW n, NEW parked
  PROVE  /\ Aside(p, q) /\ Shaped(q, r, n, parked) => Shaped(p, r, n, parked)
         /\ Shaped(p, q, n, parked) /\ Thinned(q, r) => Shaped(p, r, n, parked)
  BY ThinnedTwice DEF Shaped

(* The line told of damage: About takes its target for the mob. *)
Damaging(p) == \E i \in DOMAIN p.out : p.out[i].k = "damage"

(* It is one event that makes it so. *)
LEMMA SilentHarmless ==
  ASSUME NEW p, NEW tab, Silent(p, tab)
  PROVE  ~Damaging(p)
  <1> SUFFICES ASSUME NEW i \in DOMAIN p.out, p.out[i].k = "damage" PROVE FALSE
    BY DEF Damaging
  <1>1. Counted(p.out[i]) = {}
    BY DEF Silent, Range
  <1>2. Counted(p.out[i]) = {<<p.out[i].k, p.out[i].src>>, <<p.out[i].k, p.out[i].mob, p.out[i].src>>}
    BY DEF Counted
  <1> QED BY <1>1, <1>2

LEMMA EmitHarms ==
  ASSUME NEW p, NEW tab, Silent(p, tab), NEW q, DOMAIN q = Fields, q.out = p.out, NEW e
  PROVE  Damaging(Emit(q, e)) <=> e.k = "damage"
  <1>1. IsSequence(Append(p.out, e)) /\ Range(Append(p.out, e)) = Range(p.out) \cup {e}
    BY AppendIs DEF Silent
  <1>2. Emit(q, e).out = Append(p.out, e)
    BY DEF Emit, Fields
  <1>3. ~Damaging(p)
    BY SilentHarmless
  <1>4. \A x : Damaging(x) <=> \E y \in Range(x.out) : y.k = "damage"
    BY DEF Damaging, Range
  <1> QED BY <1>1, <1>2, <1>3, <1>4

(* Steps that touch no sighting. *)
LEMMA AsideSteps ==
  ASSUME NEW p
  PROVE  /\ \A e : Aside(p, Emit(p, e))
         /\ \A n : /\ Aside(p, AssociateSummoned(p, n))
                   /\ Aside(p, RegisterWarder(p, n))
                   /\ Aside(p, RegisterQuietly(p, n))
         /\ \A l : Aside(p, Berserk(p, l))
         /\ Thinned(p, UpdateMobName(p)) /\ Thinned(p, Fought(p))
  <1>1. ASSUME NEW r, NEW e PROVE Aside(r, Emit(r, e))
    BY DEF Aside, Listed, Emit, Fields
  <1>2. ASSUME NEW r, NEW a, NEW b
        PROVE  /\ Aside(r, [r EXCEPT !.pets = a, !.players = r.players \cup b])
               /\ Aside(r, [r EXCEPT !.players = r.players \cup b])
               /\ Aside(r, [r EXCEPT !.summon = a])
               /\ Aside(r, [r EXCEPT !.buff = a])
               /\ Aside(r, [r EXCEPT !.confirmed = a])
               /\ Aside(r, [r EXCEPT !.started = a])
               /\ Aside(r, r)
    BY DEF Aside, Listed, Fields
  <1>3. ASSUME NEW r, NEW n, NEW o PROVE Aside(r, Own(r, n, o))
    <2> DEFINE New == [r EXCEPT !.pets = Put(r.pets, n, o), !.players = r.players \cup {n}]
    <2>1. PICK e : Own(r, n, o) = Emit(New, e)
      BY DEF Own
    <2>2. Aside(r, New)
      BY <1>2
    <2> HIDE DEF New
    <2> QED BY <2>1, <2>2, <1>1, ThinnedTwice
  <1>4. ASSUME NEW n PROVE Aside(p, AssociateSummoned(p, n))
    BY <1>2, <1>3, ThinnedTwice DEF AssociateSummoned
  <1>5. ASSUME NEW n PROVE Aside(p, RegisterWarder(p, n))
    BY <1>2, <1>3 DEF RegisterWarder
  <1>6. ASSUME NEW n PROVE Aside(p, RegisterQuietly(p, n))
    BY <1>2 DEF RegisterQuietly
  <1>7. ASSUME NEW l PROVE Aside(p, Berserk(p, l))
    <2> DEFINE o == Own(p, l.src, p.buff.who)
    <2>1. Aside(p, o)
      BY <1>3
    <2>2. Berserk(p, l) = [o EXCEPT !.buff = NoCast] \/ Berserk(p, l) = p
      BY DEF Berserk
    <2> HIDE DEF o
    <2>3. Aside(o, [o EXCEPT !.buff = NoCast])
      BY <1>2
    <2>4. Aside(p, [o EXCEPT !.buff = NoCast])
      BY <2>1, <2>3, ThinnedTwice
    <2> QED BY <2>2, <2>4, <1>2
  <1>8. ASSUME NEW r PROVE Thinned(r, UpdateMobName(r))
    <2> DEFINE New == [r EXCEPT !.confirmed = (r.confirmed \cup r.cands) \ (r.cands \cap r.players)]
               N == r.cands \cap r.players
    <2>1. UpdateMobName(r) = Evict(New, N)
      BY DEF UpdateMobName
    <2>2. Aside(r, New) /\ (Listed(r) => New.players = r.players)
      BY <1>2 DEF Listed, Fields
    <2>3. Listed(r) => Listed(New)
      BY <2>2, ThinnedTwice DEF Thinned
    <2> HIDE DEF New
    <2>4. ASSUME Listed(r) PROVE Thinned(New, Evict(New, N))
      <3> DEFINE v == Evict(New, N)
      <3>1. Listed(New)
        BY <2>3, <2>4
      <3>2. Listed(v) /\ Range(v.mobs) = {m \in Range(New.mobs) : m.name \notin N}
        BY <3>1, EvictThins
      <3>3. /\ v.ts = New.ts /\ v.next = New.next /\ v.dead = New.dead /\ v.hit = New.hit
            /\ v.players = New.players
        BY <3>1 DEF Evict, Listed, Fields
      <3> HIDE DEF v
      <3>4. Thinned(New, v)
        BY <2>2, <2>4, <3>2, <3>3 DEF Thinned
      <3> QED BY <3>4 DEF v
    <2>5. ASSUME ~Listed(r) PROVE Thinned(r, UpdateMobName(r))
      BY <2>5 DEF Thinned
    <2> QED BY <2>1, <2>2, <2>4, <2>5, ThinnedTwice
  <1>9. Thinned(p, Fought(p))
    <2>1. Aside(p, [p EXCEPT !.started = TRUE])
      BY <1>2
    <2> QED BY <2>1, <1>8, ThinnedTwice DEF Fought
  <1> QED BY <1>1, <1>4, <1>5, <1>6, <1>7, <1>8, <1>9

(* Sightings given by a blow. *)
LEMMA MobListShaped ==
  ASSUME NEW p, NEW n, NEW a, Aside(p, a), a.hit = NoMob
  PROVE  Shaped(p, UpdateMobList(a, n), n, FALSE)
  <1>1. Seen(a, UpdateMobList(a, n), n, FALSE) \/ Thinned(a, UpdateMobList(a, n))
    BY MobListSees
  <1>2. \A x : Aside(x, x) /\ Thinned(x, x)
    BY ThinnedTwice DEF Aside, Listed
  <1> QED BY <1>1, <1>2, ThinnedTwice DEF Shaped

(* A player's blow sees its target, a mob's the mob itself. *)
LEMMA BlowsShaped ==
  ASSUME NEW p, Listed(p), p.hit = NoMob, NEW tab, Silent(p, tab), NEW l
  PROVE  /\ Shaped(p, Strike(p, l), l.tgt, FALSE) /\ Damaging(Strike(p, l))
         /\ Shaped(p, Tank(p, l), l.src, FALSE) /\ ~Damaging(Tank(p, l))
  <1>1. DOMAIN p = Fields
    BY DEF Listed
  <1>2. ASSUME NEW a, Aside(p, a), DOMAIN a = Fields, a.out = p.out, a.hit = NoMob, NEW n, NEW t, NEW e,
               NEW m, m = UpdateMobList(a, n)
        PROVE  /\ Shaped(p, Emit([m EXCEPT !.tab = t], e), n, FALSE)
               /\ Damaging(Emit([m EXCEPT !.tab = t], e)) <=> e.k = "damage"
    <2>1. DOMAIN m = Fields /\ m.out = p.out
      BY <1>2, MuteSteps DEF Mute
    <2>2. Shaped(p, m, n, FALSE)
      BY <1>2, MobListShaped
    <2> DEFINE c == [m EXCEPT !.tab = t]
    <2>3. Aside(m, c) /\ DOMAIN c = Fields /\ c.out = p.out
      BY <2>1 DEF Aside, Listed, Fields
    <2> HIDE DEF c
    <2>4. Shaped(p, Emit(c, e), n, FALSE)
      <3>1. Aside(c, Emit(c, e))
        BY AsideSteps
      <3>2. Thinned(m, Emit(c, e))
        BY <2>3, <3>1, ThinnedTwice
      <3> QED BY <2>2, <3>2, ShapedAround
    <2>5. Damaging(Emit(c, e)) <=> e.k = "damage"
      BY <2>3, EmitHarms
    <2> QED BY <2>4, <2>5 DEF c
  <1>3. Shaped(p, Strike(p, l), l.tgt, FALSE) /\ Damaging(Strike(p, l))
    <2> DEFINE a == [p EXCEPT !.players = p.players \cup {l.src}, !.cands = p.cands \cup ({l.tgt} \ Corpses)]
               m == UpdateMobList(a, l.tgt)
               t == Plus(m.tab, IF m.hit = NoMob THEN {<<"damage", l.src>>}
                                     ELSE {<<"damage", l.src>>} \cup {<<"damage", m.hit, l.src>>})
    <2>1. Strike(p, l) = Hit([m EXCEPT !.tab = t], l, FALSE)
      BY DEF Strike
    <2>2. Aside(p, a) /\ DOMAIN a = Fields /\ a.out = p.out /\ a.hit = NoMob
      BY <1>1 DEF Aside, Listed, Fields
    <2>3. ASSUME NEW q PROVE \E e : Hit(q, l, FALSE) = Emit(q, e) /\ e.k = "damage"
      <3> DEFINE e == [k |-> "damage", src |-> l.src, tgt |-> l.tgt, mob |-> OrZero(q.hit)]
      <3>1. Hit(q, l, FALSE) = Emit(q, e) /\ e.k = "damage"
        BY DEF Hit
      <3> QED BY <3>1
    <2> HIDE DEF a, t
    <2>4. PICK e : Strike(p, l) = Emit([m EXCEPT !.tab = t], e) /\ e.k = "damage"
      BY <2>1, <2>3
    <2>5. m = UpdateMobList(a, l.tgt)
      OBVIOUS
    <2> HIDE DEF m
    <2>6. /\ Shaped(p, Emit([m EXCEPT !.tab = t], e), l.tgt, FALSE)
          /\ Damaging(Emit([m EXCEPT !.tab = t], e)) <=> e.k = "damage"
      BY <2>2, <2>5, <1>2
    <2> QED BY <2>4, <2>6
  <1>4. Shaped(p, Tank(p, l), l.src, FALSE) /\ ~Damaging(Tank(p, l))
    <2> DEFINE a == [p EXCEPT !.confirmed = p.confirmed \cup {l.src}]
               m == UpdateMobList(a, l.src)
               t == IF m.hit = NoMob THEN m.tab ELSE Plus(m.tab, {<<"tank", m.hit, l.tgt>>})
    <2>1. Tank(p, l) = Hit([m EXCEPT !.tab = t], l, TRUE)
      BY DEF Tank
    <2>2. Aside(p, a) /\ DOMAIN a = Fields /\ a.out = p.out /\ a.hit = NoMob
      BY <1>1 DEF Aside, Listed, Fields
    <2>3. ASSUME NEW q PROVE \E e : Hit(q, l, TRUE) = Emit(q, e) /\ e.k # "damage"
      <3> DEFINE e == [k |-> "tank", src |-> l.src, tgt |-> l.tgt, mob |-> OrZero(q.hit)]
      <3>1. Hit(q, l, TRUE) = Emit(q, e) /\ e.k # "damage"
        BY DEF Hit
      <3> QED BY <3>1
    <2> HIDE DEF a, t
    <2>4. PICK e : Tank(p, l) = Emit([m EXCEPT !.tab = t], e) /\ e.k # "damage"
      BY <2>1, <2>3
    <2>5. m = UpdateMobList(a, l.src)
      OBVIOUS
    <2> HIDE DEF m
    <2>6. /\ Shaped(p, Emit([m EXCEPT !.tab = t], e), l.src, FALSE)
          /\ Damaging(Emit([m EXCEPT !.tab = t], e)) <=> e.k = "damage"
      BY <2>2, <2>5, <1>2
    <2> QED BY <2>4, <2>6
  <1> QED BY <1>3, <1>4

(* Blows: the mob struck, or else the mob that strikes. *)
Struck(p, r, l) == Shaped(p, r, IF Damaging(r) THEN l.tgt ELSE l.src, FALSE)

(* Blows with the end of their handlers, then the lines they come in. *)
LEMMA FoughtStruck ==
  ASSUME NEW p, NEW q, Aside(p, q), Listed(q), q.hit = NoMob, NEW tab, Silent(q, tab), NEW l
  PROVE  /\ Struck(p, Fought(Strike(q, l)), l) /\ Struck(p, Fought(Tank(q, l)), l)
         /\ Struck(p, Fought(Either(q, l)), l)
         /\ \A x : x.tgt = l.tgt => Struck(p, Fought(Strike(q, x)), l)
  <1>1. ASSUME NEW r, DOMAIN r = Fields PROVE (Damaging(Fought(r)) <=> Damaging(r)) /\ Thinned(r, Fought(r))
    BY <1>1, MuteSteps, AsideSteps DEF Mute, Damaging
  <1>2. ASSUME NEW x PROVE DOMAIN Strike(q, x) = Fields /\ DOMAIN Tank(q, x) = Fields
    BY PetsStaySteps DEF PetsStay, Listed
  <1>3. ASSUME NEW x, x.tgt = l.tgt PROVE Struck(p, Fought(Strike(q, x)), l)
    <2> DEFINE r == Strike(q, x)
    <2>1. Shaped(q, r, l.tgt, FALSE) /\ Damaging(r)
      BY <1>3, BlowsShaped
    <2>2. DOMAIN r = Fields
      BY <1>2
    <2> HIDE DEF r
    <2>3. Shaped(p, Fought(r), l.tgt, FALSE) /\ Damaging(Fought(r))
      BY <2>1, <2>2, <1>1, ShapedAround
    <2> QED BY <2>3 DEF Struck, r
  <1>4. Struck(p, Fought(Tank(q, l)), l)
    <2> DEFINE r == Tank(q, l)
    <2>1. Shaped(q, r, l.src, FALSE) /\ ~Damaging(r)
      BY BlowsShaped
    <2>2. DOMAIN r = Fields
      BY <1>2
    <2> HIDE DEF r
    <2>3. Shaped(p, Fought(r), l.src, FALSE) /\ ~Damaging(Fought(r))
      BY <2>1, <2>2, <1>1, ShapedAround
    <2> QED BY <2>3 DEF Struck, r
  <1> QED BY <1>3, <1>4 DEF Either

LEMMA BlowLinesStruck ==
  ASSUME NEW p, Listed(p), p.hit = NoMob, NEW tab, Silent(p, tab), NEW l,
         DOMAIN l = {"op", "src", "tgt", "sp"}, l.op \in Blows \cup {"burn"}
  PROVE  Struck(p, Handle(p, l), l)
  <1>1. ASSUME NEW q, Aside(p, q), Silent(q, tab)
        PROVE  /\ Struck(p, Fought(Strike(q, l)), l) /\ Struck(p, Fought(Tank(q, l)), l)
               /\ Struck(p, Fought(Either(q, l)), l)
               /\ \A x : x.tgt = l.tgt => Struck(p, Fought(Strike(q, x)), l)
    <2>1. Listed(q) /\ q.hit = NoMob
      BY <1>1, ThinnedTwice DEF Thinned
    <2> QED BY <1>1, <2>1, FoughtStruck
  <1>2. Aside(p, p)
    BY DEF Aside, Listed
  <1>3. ASSUME NEW q, Aside(p, q), Silent(q, tab), NEW n
        PROVE  /\ Aside(p, RegisterWarder(q, n)) /\ Silent(RegisterWarder(q, n), tab)
               /\ Aside(p, RegisterQuietly(q, n)) /\ Silent(RegisterQuietly(q, n), tab)
               /\ Aside(p, AssociateSummoned(q, n)) /\ Silent(AssociateSummoned(q, n), tab)
    BY <1>3, AsideSteps, RegisterSilent, ThinnedTwice
  <1>4. CASE l.op \in Swings
    <2> DEFINE q == RegisterWarder(AssociateSummoned(p, l.src), l.src)
    <2>1. Aside(p, q) /\ Silent(q, tab)
      BY <1>2, <1>3
    <2>2. Handle(p, l) = Fought(Either(q, l))
      BY <1>4 DEF Handle, Swings, MeleeLine
    <2> HIDE DEF q
    <2> QED BY <2>1, <2>2, <1>1
  <1>5. CASE l.op \in {"spell", "riposte", "shield"}
    <2> DEFINE q == RegisterWarder(p, l.src)
    <2>1. Aside(p, q) /\ Silent(q, tab)
      BY <1>2, <1>3
    <2>2. Handle(p, l) = Fought(Either(q, l))
      BY <1>5 DEF Handle, Swings, SpellLine, RiposteLine, DamageShieldLine
    <2> HIDE DEF q
    <2> QED BY <2>1, <2>2, <1>1
  <1>6. CASE l.op = "taken"
    <2> DEFINE q == RegisterQuietly(p, l.src)
    <2>1. Aside(p, q) /\ Silent(q, tab)
      BY <1>2, <1>3
    <2>2. Handle(p, l) = Fought(IF l.src = Me THEN Strike(q, l) ELSE Either(q, l))
      BY <1>6 DEF Handle, Swings, TakenLine
    <2> HIDE DEF q
    <2> QED BY <2>1, <2>2, <1>1
  <1>7. CASE l.op \in {"dot", "thorns", "extra", "burn"}
    <2>1. Handle(p, l) = Fought(Strike(p, l)) \/ Handle(p, l) = Fought(Tank(p, l))
      BY <1>7 DEF Handle, Swings, DotLine, ThornsLine, ExtraLine, BurnLine
    <2> QED BY <2>1, <1>1, <1>2
  <1>8. ASSUME NEW c PROVE [l EXCEPT !.src = c].tgt = l.tgt
    OBVIOUS
  <1>9. ASSUME NEW q, Aside(p, q) PROVE Struck(p, Fought(q), l) /\ Struck(p, q, l)
    BY <1>9, AsideSteps, ThinnedTwice DEF Struck, Shaped
  <1>10. CASE l.op = "possessive"
    <2>1. Handle(p, l) = Fought(IF l.sp \in DOMAIN p.caster THEN Strike(p, [l EXCEPT !.src = p.caster[l.sp]])
                                ELSE IF l.src \in p.players THEN Strike(p, l) ELSE p)
      BY <1>10 DEF Handle, Swings, PossessiveLine
    <2>2. Struck(p, Fought(Strike(p, [l EXCEPT !.src = p.caster[l.sp]])), l)
      BY <1>1, <1>2, <1>8
    <2> QED BY <2>1, <2>2, <1>1, <1>2, <1>9
  <1>11. CASE l.op = "bare"
    <2> DEFINE c == p.caster[l.sp]
               q == [p EXCEPT !.confirmed = p.confirmed \cup {c}]
    <2>1. \/ Handle(p, l) = p \/ Handle(p, l) = Fought(q)
          \/ Handle(p, l) = Fought(Strike(p, [l EXCEPT !.src = c]))
      BY <1>11 DEF Handle, Swings, BareSpellLine
    <2>2. Struck(p, Fought(Strike(p, [l EXCEPT !.src = c])), l)
      BY <1>1, <1>2, <1>8
    <2>3. Aside(p, q)
      BY DEF Aside, Listed, Fields
    <2> HIDE DEF q, c
    <2> QED BY <2>1, <2>2, <2>3, <1>2, <1>9
  <1> QED BY <1>4, <1>5, <1>6, <1>7, <1>10, <1>11 DEF Blows

(* The lines of no mob. *)
LEMMA OtherLinesShaped ==
  ASSUME NEW p, Listed(p), p.hit = NoMob, NEW tab, Silent(p, tab), NEW l,
         l.op \in Ops \ (Blows \cup {"burn", "slay", "park", "wake"})
  PROVE  Struck(p, Handle(p, l), l)
  <1>1. ASSUME NEW q, Aside(p, q) PROVE Struck(p, q, l)
    BY <1>1, ThinnedTwice DEF Struck, Shaped
  <1>2. ASSUME NEW q, Aside(p, q), NEW e PROVE Struck(p, Emit(q, e), l)
    BY <1>1, <1>2, AsideSteps, ThinnedTwice
  <1>3. ASSUME NEW a, NEW b, NEW c
        PROVE  /\ Aside(p, p)
               /\ Aside(p, [p EXCEPT !.tab = a])
               /\ Aside(p, [p EXCEPT !.loot = a])
               /\ Aside(p, [p EXCEPT !.classes = a])
               /\ Aside(p, [p EXCEPT !.caster = a, !.buff = b, !.summon = c])
    BY DEF Aside, Listed, Fields
  <1>4. DOMAIN p = Fields
    BY DEF Listed
  <1>5. CASE l.op \in {"cast", "loot", "money", "absorb", "who", "resist"}
    <2>1. CASE l.op = "cast"
      <3>1. \E a, b, c, e : Handle(p, l) = Emit([p EXCEPT !.caster = a, !.buff = b, !.summon = c], e)
        BY <2>1 DEF Handle, Swings, Cast
      <3> QED BY <3>1, <1>2, <1>3
    <2>2. CASE l.op = "loot"
      <3>1. \E a, e : Handle(p, l) = Emit([p EXCEPT !.loot = a], e)
        BY <2>2 DEF Handle, Swings, LootLine
      <3> QED BY <3>1, <1>2, <1>3
    <2>3. CASE l.op \in {"money", "absorb"}
      <3>1. \E e : Handle(p, l) = Emit(p, e)
        BY <2>3 DEF Handle, Swings, MoneyLine, AbsorbLine
      <3> QED BY <3>1, <1>2, <1>3
    <2>4. CASE l.op = "who"
      <3>1. \E a, e : Handle(p, l) = Emit([p EXCEPT !.classes = a], e)
        BY <2>4 DEF Handle, Swings, WhoLine
      <3> QED BY <3>1, <1>2, <1>3
    <2>5. CASE l.op = "resist"
      <3>1. \E a, e : Handle(p, l) = Emit([p EXCEPT !.tab = a], e)
        BY <2>5 DEF Handle, Swings, ResistLine
      <3> QED BY <3>1, <1>2, <1>3
    <2> QED BY <1>5, <2>1, <2>2, <2>3, <2>4, <2>5
  <1>6. CASE l.op = "berserk"
    <2>1. Handle(p, l) = Berserk(p, l)
      BY <1>6 DEF Handle, Swings
    <2> QED BY <2>1, <1>1, AsideSteps
  <1>7. CASE l.op = "miss"
    <2> DEFINE a == AssociateSummoned(p, l.src)
               b == [a EXCEPT !.tab = Plus(a.tab, {<<"avoid", l.tgt>>})]
               q == RegisterWarder(b, l.src)
               c == [q EXCEPT !.confirmed = q.confirmed \cup {l.src}]
               m == UpdateMobList(c, l.src)
    <2>1. PICK e, f : /\ Handle(p, l) = IF SrcIsMob(q, l) THEN Emit(m, e) ELSE Emit(q, f)
                      /\ e.k = "miss"
      <3>1. PICK x, y : MissLine(p, l) = IF SrcIsMob(q, l)
                                         THEN Emit(m, [k |-> "miss", src |-> l.src, tgt |-> l.tgt, mob |-> x])
                                         ELSE Emit(q, y)
        BY DEF MissLine
      <3>2. [k |-> "miss", src |-> l.src, tgt |-> l.tgt, mob |-> x].k = "miss"
        OBVIOUS
      <3>3. Handle(p, l) = MissLine(p, l)
        BY <1>7 DEF Handle, Swings
      <3> HIDE DEF q, m
      <3> QED BY <3>1, <3>2, <3>3
    <2>2. Aside(p, a) /\ Silent(a, tab)
      BY AsideSteps, RegisterSilent
    <2> HIDE DEF a
    <2>3. \E t : Silent(b, t)
      BY <2>2 DEF Silent, Fields
    <2>4. Aside(a, b)
      BY DEF Aside, Listed, Fields
    <2> HIDE DEF b
    <2>5. PICK t : Silent(b, t)
      BY <2>3
    <2>6. Aside(p, q) /\ Silent(q, t)
      BY <2>2, <2>4, <2>5, AsideSteps, RegisterSilent, ThinnedTwice
    <2> HIDE DEF q
    <2>7. Aside(q, c) /\ DOMAIN c = Fields /\ c.out = q.out
      BY <2>6 DEF Aside, Listed, Silent, Fields
    <2>8. c.hit = NoMob /\ Aside(p, c)
      <3>1. Aside(p, c)
        BY <2>6, <2>7, ThinnedTwice
      <3> QED BY <3>1 DEF Aside
    <2> HIDE DEF c
    <2>9. Shaped(p, m, l.src, FALSE)
      BY <2>8, MobListShaped
    <2>10. DOMAIN m = Fields /\ m.out = q.out
      BY <2>7, MuteSteps DEF Mute
    <2> HIDE DEF m
    <2>11. ~Damaging(Emit(m, e))
      BY <2>1, <2>6, <2>10, EmitHarms
    <2>12. Aside(m, Emit(m, e))
      BY AsideSteps
    <2>13. Shaped(p, Emit(m, e), l.src, FALSE)
      BY <2>9, <2>12, ThinnedTwice, ShapedAround
    <2>14. Struck(p, Emit(m, e), l)
      BY <2>11, <2>13 DEF Struck
    <2> QED BY <2>1, <2>6, <2>14, <1>2
  <1>8. CASE l.op = "heal"
    <2> DEFINE m == UpdateMobList(p, l.src)
    <2>1. Handle(p, l) = m \/ \E a, e : Handle(p, l) = Emit([p EXCEPT !.tab = a], e)
      BY <1>8 DEF Handle, Swings, HealLine
    <2>2. Shaped(p, m, l.src, FALSE)
      BY <1>3, MobListShaped
    <2>3. ~Damaging(m)
      <3>1. Silent(m, tab)
        BY MuteSteps, MuteKeeps
      <3> QED BY <3>1, SilentHarmless
    <2> HIDE DEF m
    <2>4. Struck(p, m, l)
      BY <2>2, <2>3 DEF Struck
    <2> QED BY <2>1, <2>4, <1>2, <1>3
  <1> QED BY <1>5, <1>6, <1>7, <1>8 DEF Ops, Blows, Swings

(* A mez and a waking see the one they are about. *)
LEMMA ControlShaped ==
  ASSUME NEW p, Listed(p), p.hit = NoMob, NEW l
  PROVE  /\ Shaped(p, ParkLine(p, l), l.tgt, TRUE)
         /\ Shaped(p, WakeLine(p, l), l.tgt, FALSE)
  <1> DEFINE u == UpdateMobList(p, l.tgt)
             park == [i \in DOMAIN u.mobs |-> [u.mobs[i] EXCEPT !.parked = u.mobs[i].parked \/ u.mobs[i].id = u.hit]]
             q == [u EXCEPT !.mobs = park]
  <1>1. PICK e : ParkLine(p, l) = UpdateMobName(IF u.hit = NoMob THEN u ELSE Emit(q, e))
    BY DEF ParkLine
  <1>2. PICK f : WakeLine(p, l) = UpdateMobName(IF u.hit = NoMob THEN u ELSE Emit(u, f))
    BY DEF WakeLine
  <1>3. Aside(p, p)
    BY DEF Aside, Listed
  <1>4. Seen(p, u, l.tgt, FALSE) \/ Thinned(p, u)
    BY MobListSees
  <1>5. Seen(p, u, l.tgt, FALSE) => Seen(p, q, l.tgt, TRUE) /\ u.hit # NoMob
    <2> SUFFICES ASSUME Seen(p, u, l.tgt, FALSE) PROVE Seen(p, q, l.tgt, TRUE) /\ u.hit # NoMob
      OBVIOUS
    <2>1. u.hit \in Nat
      BY DEF Seen, Resumes, Opens, Listed, Known
    <2> HIDE DEF u
    <2>2. q = Marked(u)
      BY DEF Marked
    <2> HIDE DEF q
    <2>3. Seen(p, Marked(u), l.tgt, TRUE)
      BY ParkSees
    <2>4. u.hit # NoMob
      BY <2>1 DEF NoMob
    <2> QED BY <2>2, <2>3, <2>4
  <1>6. Thinned(p, u) => u.hit = NoMob
    BY DEF Thinned
  <1> HIDE DEF u, q
  <1>7. \A r, x : Thinned(r, UpdateMobName(Emit(r, x))) /\ Thinned(r, UpdateMobName(r))
    BY AsideSteps, ThinnedTwice
  <1>8. CASE Thinned(p, u)
    <2>1. ParkLine(p, l) = UpdateMobName(u) /\ WakeLine(p, l) = UpdateMobName(u)
      BY <1>1, <1>2, <1>6, <1>8
    <2>2. Thinned(p, UpdateMobName(u))
      BY <1>7, <1>8, ThinnedTwice
    <2> QED BY <2>1, <2>2 DEF Shaped
  <1>9. CASE Seen(p, u, l.tgt, FALSE)
    <2>1. ParkLine(p, l) = UpdateMobName(Emit(q, e)) /\ WakeLine(p, l) = UpdateMobName(Emit(u, f))
      BY <1>1, <1>2, <1>5, <1>9
    <2>2. Thinned(q, ParkLine(p, l)) /\ Thinned(u, WakeLine(p, l))
      BY <2>1, <1>7
    <2> QED BY <2>2, <1>3, <1>5, <1>9 DEF Shaped
  <1> QED BY <1>4, <1>8, <1>9

-----------------------------------------------------------------------------
(* The list of mobs and the trail of the lines *)

(* A name whose lines belong together: alive as far as was told, and no
   player's in any capitalisation. *)
Whole(p, t, n) == ~t.slain /\ ~t.killed /\ \A x \in p.players : Lower(x) # n

(* m is the sighting the last line about n was given, and any other of that
   name is long out of sight. *)
LastSeen(mobs, m, n, t) ==
  /\ Lower(m.name) = n /\ m.id = t.id /\ m.last = t.ts /\ (m.parked <=> t.parked)
  /\ \A k \in Range(mobs) : k # m /\ Lower(k.name) = n => ~k.parked /\ m.last - k.last >= 15

(* What the trail keeps of a name. *)
Entries == [id : Nat, ts : Nat, parked : BOOLEAN, slain : BOOLEAN, killed : BOOLEAN]

(* The trail follows the list: every listed name has an entry, slain as the
   parser has it, and a whole one's sighting is in the list, the last seen. *)
Followed(p, T) ==
  /\ \A m \in Range(p.mobs) : Lower(m.name) \in DOMAIN T
  /\ \A n \in DOMAIN T :
       /\ T[n] \in Entries /\ (n \in p.dead <=> T[n].slain)
       /\ Whole(p, T[n], n) => \E m \in Range(p.mobs) : LastSeen(p.mobs, m, n, T[n])

(* Taking players off the list leaves the trail of mobs followed. *)
LEMMA ThinnedFollowed ==
  ASSUME NEW p, Listed(p), NEW r, Thinned(p, r), NEW T, Followed(p, T)
  PROVE  Followed(r, T)
  <1>1. \A m \in Range(r.mobs) : Lower(m.name) \in DOMAIN T
    BY DEF Thinned, Followed
  <1>2. ASSUME NEW n \in DOMAIN T, Whole(r, T[n], n)
        PROVE  \E m \in Range(r.mobs) : LastSeen(r.mobs, m, n, T[n])
    <2>1. Whole(p, T[n], n)
      BY <1>2 DEF Whole, Thinned
    <2>2. PICK m \in Range(p.mobs) : LastSeen(p.mobs, m, n, T[n])
      BY <2>1 DEF Followed
    <2>3. m \in Range(r.mobs)
      BY <2>2, <1>2 DEF LastSeen, Whole, Thinned
    <2>4. LastSeen(r.mobs, m, n, T[n])
      BY <2>2 DEF LastSeen, Thinned
    <2> QED BY <2>3, <2>4
  <1>3. \A n \in DOMAIN T : T[n] \in Entries /\ (n \in r.dead <=> T[n].slain)
    BY DEF Thinned, Followed
  <1> QED BY <1>1, <1>2, <1>3 DEF Followed

(* The entry a line leaves in the trail. *)
Left(r, n, parked, T) ==
  [id |-> r.hit, ts |-> r.ts, parked |-> parked, slain |-> FALSE,
   killed |-> n \in DOMAIN T /\ (T[n].slain \/ T[n].killed)]

(* A sighting given to a line about n is that of its last line if n is whole
   and not long out of sight, and a new one if n was slain. *)
LEMMA SeenFollowed ==
  ASSUME NEW p, Listed(p), NEW T, Followed(p, T), NEW a, Aside(p, a), NEW n, NEW parked \in BOOLEAN,
         NEW b, Seen(a, b, n, parked)
  PROVE  LET x == Lower(n)
             e == Left(b, x, parked, T)
         IN /\ b.hit # NoMob /\ Listed(b) /\ b.ts = p.ts
            /\ Followed(b, Put(T, x, e))
            /\ x \in DOMAIN T /\ Whole(p, T[x], x) /\ (b.ts - T[x].ts < 15 \/ T[x].parked) => b.hit = T[x].id
            /\ x \in DOMAIN T /\ T[x].slain => b.hit = p.next
  <1> DEFINE x == Lower(n)
             e == Left(b, x, parked, T)
             U == Put(T, x, e)
  <1>1. /\ Listed(a) /\ a.mobs = p.mobs /\ a.ts = p.ts /\ a.next = p.next /\ a.dead = p.dead
        /\ p.players \subseteq a.players
    BY ThinnedTwice DEF Aside, Thinned
  <1>2. /\ Listed(b) /\ b.ts = p.ts /\ b.players = a.players /\ b.dead = p.dead \ {x}
    BY <1>1 DEF Seen, Resumes, Opens
  <1>3. \A m \in Range(p.mobs) : Known(m, p.next, p.ts)
    BY DEF Listed
  <1>4. p.ts \in Nat /\ p.next \in Nat
    BY DEF Listed
  <1>5. b.hit \in Nat
    BY <1>1, <1>3, <1>4 DEF Seen, Resumes, Opens, Known
  <1>6. e \in Entries
    <2>1. (x \in DOMAIN T /\ (T[x].slain \/ T[x].killed)) \in BOOLEAN
      OBVIOUS
    <2> QED BY <2>1, <1>2, <1>4, <1>5 DEF Left, Entries
  <1>7. /\ DOMAIN U = DOMAIN T \cup {x} /\ U[x] = e
        /\ \A y \in DOMAIN T : y # x => U[y] = T[y]
    BY DEF Put
  <1>8. e.id = b.hit /\ e.ts = p.ts /\ e.parked = parked /\ e.slain = FALSE
        /\ (e.killed <=> x \in DOMAIN T /\ (T[x].slain \/ T[x].killed))
    BY <1>2 DEF Left
  <1> HIDE DEF e, U
  (* The sightings of other names are the same, and of this name one is new. *)
  <1>9. ASSUME NEW y, y # x
        PROVE  \A m : Lower(m.name) = y => (m \in Range(b.mobs) <=> m \in Range(p.mobs))
    BY <1>1, <1>9 DEF Seen, Resumes, Opens, Becomes
  <1>10. ASSUME x \in DOMAIN T, ~T[x].slain PROVE x \notin p.dead
    BY <1>10 DEF Followed
  <1>11. x \in DOMAIN T /\ Whole(p, T[x], x) =>
           \E m \in Range(p.mobs) : LastSeen(p.mobs, m, x, T[x])
    BY DEF Followed
  <1>12. x \in DOMAIN T /\ T[x].slain => b.hit = p.next
    <2> SUFFICES ASSUME x \in DOMAIN T, T[x].slain PROVE b.hit = p.next
      OBVIOUS
    <2>1. x \in a.dead
      BY <1>1 DEF Followed
    <2> QED BY <2>1, <1>1 DEF Seen, Opens
  <1>13. ASSUME NEW m \in Range(p.mobs), LastSeen(p.mobs, m, x, T[x]), x \in DOMAIN T, ~T[x].slain
         PROVE  IF m.parked \/ p.ts - m.last < 15 THEN Resumes(a, b, m, n, parked) ELSE Opens(a, b, n, parked)
    <2>1. x \notin a.dead
      BY <1>1, <1>10, <1>13
    <2>2. Known(m, p.next, p.ts) /\ Lower(m.name) = x
      BY <1>3, <1>13 DEF LastSeen
    <2>3. ASSUME NEW k \in Range(p.mobs), k # m, Lower(k.name) = x
          PROVE ~k.parked /\ p.ts - k.last >= 15
      <3>1. ~k.parked /\ m.last - k.last >= 15
        BY <2>3, <1>13 DEF LastSeen
      <3>2. k.last \in Nat /\ m.last \in Nat /\ m.last <= p.ts
        BY <1>3 DEF Known
      <3> QED BY <3>1, <3>2, <1>4
    <2>4. CASE m.parked \/ p.ts - m.last < 15
      BY <2>1, <2>2, <2>3, <2>4, <1>1, <1>3, <1>4 DEF Seen, Known
    <2>5. CASE ~(m.parked \/ p.ts - m.last < 15)
      BY <2>1, <2>2, <2>3, <2>5, <1>1, <1>3, <1>4 DEF Seen, Known
    <2> QED BY <2>4, <2>5
  <1>14. ASSUME x \in DOMAIN T, Whole(p, T[x], x), b.ts - T[x].ts < 15 \/ T[x].parked PROVE b.hit = T[x].id
    <2>1. PICK m \in Range(p.mobs) : LastSeen(p.mobs, m, x, T[x])
      BY <1>11, <1>14
    <2>2. Resumes(a, b, m, n, parked)
      BY <2>1, <1>2, <1>13, <1>14 DEF LastSeen, Whole
    <2> QED BY <2>1, <2>2 DEF Resumes, LastSeen
  <1>15. ASSUME Whole(b, e, x) PROVE \E v \in Range(b.mobs) : LastSeen(b.mobs, v, x, e)
    <2>1. x \in DOMAIN T => ~T[x].slain /\ ~T[x].killed
      BY <1>8, <1>15 DEF Whole
    <2>2. x \in DOMAIN T => Whole(p, T[x], x)
      BY <2>1, <1>1, <1>2, <1>15 DEF Whole
    <2>3. CASE x \notin DOMAIN T
      <3>1. \A k \in Range(p.mobs) : Lower(k.name) # x
        BY <2>3 DEF Followed
      <3>2. Opens(a, b, n, parked)
        BY <3>1, <1>1 DEF Seen
      <3>3. PICK v \in Range(b.mobs) : /\ v.id = p.next /\ Becomes(a, v, n, parked)
                                       /\ Range(b.mobs) = Range(p.mobs) \cup {v} /\ b.hit = p.next
        BY <3>2, <1>1 DEF Opens
      <3>4. LastSeen(b.mobs, v, x, e)
        BY <3>1, <3>3, <1>1, <1>8 DEF LastSeen, Becomes
      <3> QED BY <3>4
    <2>4. CASE x \in DOMAIN T
      <3>1. PICK m \in Range(p.mobs) : LastSeen(p.mobs, m, x, T[x])
        BY <2>2, <2>4, <1>11
      <3>2. \A k \in Range(p.mobs) : k # m /\ Lower(k.name) = x => ~k.parked /\ p.ts - k.last >= 15
        BY <3>1, <1>3, <1>4 DEF LastSeen, Known
      <3>3. CASE m.parked \/ p.ts - m.last < 15
        <4>1. Resumes(a, b, m, n, parked)
          BY <2>1, <2>4, <3>1, <3>3, <1>13
        <4>2. PICK v \in Range(b.mobs) : /\ v.id = m.id /\ Becomes(a, v, n, parked) /\ b.hit = m.id
                                         /\ Range(b.mobs) = (Range(p.mobs) \ {m}) \cup {v}
          BY <4>1, <1>1 DEF Resumes
        <4>3. LastSeen(b.mobs, v, x, e)
          BY <3>2, <4>2, <1>1, <1>8 DEF LastSeen, Becomes
        <4> QED BY <4>3
      <3>4. CASE ~(m.parked \/ p.ts - m.last < 15)
        <4>1. Opens(a, b, n, parked)
          BY <2>1, <2>4, <3>1, <3>4, <1>13
        <4>2. PICK v \in Range(b.mobs) : /\ v.id = p.next /\ Becomes(a, v, n, parked) /\ b.hit = p.next
                                         /\ Range(b.mobs) = Range(p.mobs) \cup {v}
          BY <4>1, <1>1 DEF Opens
        <4>3. \A k \in Range(p.mobs) : Lower(k.name) = x => ~k.parked /\ p.ts - k.last >= 15
          BY <3>2, <3>4, <1>3, <1>4 DEF Known
        <4>4. LastSeen(b.mobs, v, x, e)
          BY <4>2, <4>3, <1>1, <1>8 DEF LastSeen, Becomes
        <4> QED BY <4>4
      <3> QED BY <3>3, <3>4
    <2> QED BY <2>3, <2>4
  <1>16. Followed(b, U)
    <2>1. \A m \in Range(b.mobs) : Lower(m.name) \in DOMAIN U
      BY <1>7, <1>9 DEF Followed
    <2>2. ASSUME NEW y \in DOMAIN U
          PROVE  /\ U[y] \in Entries /\ (y \in b.dead <=> U[y].slain)
                 /\ Whole(b, U[y], y) => \E m \in Range(b.mobs) : LastSeen(b.mobs, m, y, U[y])
      <3>1. CASE y = x
        BY <3>1, <1>2, <1>6, <1>7, <1>8, <1>15
      <3>2. CASE y # x
        <4>1. y \in DOMAIN T /\ U[y] = T[y]
          BY <3>2, <1>7
        <4>2. T[y] \in Entries /\ (y \in b.dead <=> T[y].slain)
          BY <3>2, <4>1, <1>2 DEF Followed
        <4>3. ASSUME Whole(b, T[y], y) PROVE \E m \in Range(b.mobs) : LastSeen(b.mobs, m, y, T[y])
          <5>1. Whole(p, T[y], y)
            BY <4>3, <1>1, <1>2 DEF Whole
          <5>2. PICK m \in Range(p.mobs) : LastSeen(p.mobs, m, y, T[y])
            BY <4>1, <5>1 DEF Followed
          <5>3. m \in Range(b.mobs)
            BY <5>2, <3>2, <1>9 DEF LastSeen
          <5>4. LastSeen(b.mobs, m, y, T[y])
            BY <5>2, <3>2, <1>9 DEF LastSeen
          <5> QED BY <5>3, <5>4
        <4> QED BY <4>1, <4>2, <4>3
      <3> QED BY <3>1, <3>2
    <2> QED BY <2>1, <2>2 DEF Followed
  <1> QED BY <1>2, <1>5, <1>12, <1>14, <1>16 DEF NoMob, U, e

(* What a line leaves behind, and what that says of the trail before it. *)
LEMMA ShapedFollowed ==
  ASSUME NEW p, Listed(p), p.hit = NoMob, NEW T, Followed(p, T), NEW n, NEW parked \in BOOLEAN,
         NEW r, Shaped(p, r, n, parked), NEW x, x = Lower(n)
  PROVE  /\ Listed(r) /\ r.ts = p.ts
         /\ r.hit = NoMob => Followed(r, T)
         /\ r.hit # NoMob =>
              /\ Followed(r, Put(T, x, Left(r, x, parked, T)))
              /\ x \in DOMAIN T /\ Whole(p, T[x], x) /\ (r.ts - T[x].ts < 15 \/ T[x].parked) => r.hit = T[x].id
              /\ x \in DOMAIN T /\ T[x].slain => r.hit = p.next
  <1>1. CASE Thinned(p, r)
    BY <1>1, ThinnedFollowed DEF Thinned
  <1>2. CASE ~Thinned(p, r)
    <2>1. PICK a, b : Aside(p, a) /\ Seen(a, b, n, parked) /\ Thinned(b, r)
      BY <1>2 DEF Shaped
    <2> DEFINE e == Left(b, x, parked, T)
    <2>2. /\ b.hit # NoMob /\ Listed(b) /\ b.ts = p.ts
          /\ Followed(b, Put(T, x, e))
          /\ x \in DOMAIN T /\ Whole(p, T[x], x) /\ (b.ts - T[x].ts < 15 \/ T[x].parked) => b.hit = T[x].id
          /\ x \in DOMAIN T /\ T[x].slain => b.hit = p.next
      BY <2>1, SeenFollowed
    <2>3. r.hit = b.hit /\ r.ts = b.ts /\ Listed(r)
      BY <2>1, <2>2 DEF Thinned
    <2>4. e = Left(r, x, parked, T)
      BY <2>3 DEF Left
    <2> HIDE DEF e
    <2>5. Followed(r, Put(T, x, e))
      BY <2>1, <2>2, ThinnedFollowed
    <2> QED BY <2>2, <2>3, <2>4, <2>5
  <1> QED BY <1>1, <1>2

(* Every line but a death gives a sighting to the one it is about, or none. *)
LEMMA LineShaped ==
  ASSUME NEW p, Listed(p), p.hit = NoMob, NEW tab, Silent(p, tab), NEW l,
         DOMAIN l = {"op", "src", "tgt", "sp"}, l.op \in Ops \ {"slay"},
         NEW parked, parked = (l.op = "park")
  PROVE  Shaped(p, Handle(p, l), About(Handle(p, l), l), parked)
  <1> DEFINE r == Handle(p, l)
             n == About(r, l)
  <1>1. CASE l.op = "park"
    <2>1. r = ParkLine(p, l) /\ n = l.tgt
      BY <1>1 DEF Handle, Swings, About
    <2>2. parked = TRUE
      BY <1>1
    <2> HIDE DEF r, n
    <2>3. Shaped(p, r, n, TRUE)
      BY <2>1, ControlShaped
    <2>4. Shaped(p, r, n, parked)
      BY <2>2, <2>3
    <2> QED BY <2>4 DEF n, r
  <1>2. CASE l.op = "wake"
    <2>1. r = WakeLine(p, l) /\ n = l.tgt
      BY <1>2 DEF Handle, Swings, About
    <2>2. parked = FALSE
      BY <1>2
    <2> HIDE DEF r, n
    <2>3. Shaped(p, r, n, FALSE)
      BY <2>1, ControlShaped
    <2>4. Shaped(p, r, n, parked)
      BY <2>2, <2>3
    <2> QED BY <2>4 DEF n, r
  <1>3. CASE l.op \notin {"park", "wake"}
    <2>1. Struck(p, r, l)
      BY <1>3, BlowLinesStruck, OtherLinesShaped
    <2>2. n = IF Damaging(r) THEN l.tgt ELSE l.src
      BY <1>3 DEF About, Damaging
    <2>3. parked = FALSE
      BY <1>3
    <2> HIDE DEF r, n
    <2>4. Shaped(p, r, n, FALSE)
      BY <2>1, <2>2 DEF Struck
    <2>5. Shaped(p, r, n, parked)
      BY <2>3, <2>4
    <2> QED BY <2>5 DEF n, r
  <1> QED BY <1>1, <1>2, <1>3

(* A death marks the name slain, in the list and in the trail. *)
LEMMA SlayFollowed ==
  ASSUME NEW p, Listed(p), NEW T, Followed(p, T), NEW n,
         NEW U, U = [x \in DOMAIN T |-> [T[x] EXCEPT !.slain = T[x].slain \/ x = Lower(n)]],
         NEW r, DOMAIN r = Fields, r.mobs = p.mobs, r.ts = p.ts, r.next = p.next,
         r.players = p.players, r.dead = p.dead \cup {Lower(n)}
  PROVE  /\ Listed(r) /\ Followed(r, U)
         /\ \A x \in DOMAIN T : ~U[x].slain => U[x] = T[x]
  <1>1. Listed(r)
    BY DEF Listed
  <1>2. ASSUME NEW x \in DOMAIN T
        PROVE  IF x = Lower(n) THEN U[x].slain = TRUE ELSE U[x] = T[x]
    <2>1. T[x] \in Entries
      BY DEF Followed
    <2>2. CASE x = Lower(n)
      BY <2>1, <2>2 DEF Entries
    <2>3. CASE x # Lower(n) /\ T[x].slain = TRUE
      BY <2>1, <2>3 DEF Entries
    <2>4. CASE x # Lower(n) /\ T[x].slain = FALSE
      BY <2>1, <2>4 DEF Entries
    <2> QED BY <2>1, <2>2, <2>3, <2>4 DEF Entries
  <1>3. ASSUME NEW x \in DOMAIN T PROVE U[x] \in Entries
    <2>1. T[x] \in Entries
      BY DEF Followed
    <2>2. (T[x].slain \/ x = Lower(n)) \in BOOLEAN
      OBVIOUS
    <2> QED BY <2>1, <2>2 DEF Entries
  <1>4. DOMAIN U = DOMAIN T
    OBVIOUS
  <1>5. \A x \in DOMAIN T : ~U[x].slain => U[x] = T[x]
    BY <1>2
  <1>6. Followed(r, U)
    <2>1. \A m \in Range(r.mobs) : Lower(m.name) \in DOMAIN U
      BY <1>4 DEF Followed
    <2>2. ASSUME NEW x \in DOMAIN U
          PROVE  /\ U[x] \in Entries /\ (x \in r.dead <=> U[x].slain)
                 /\ Whole(r, U[x], x) => \E m \in Range(r.mobs) : LastSeen(r.mobs, m, x, U[x])
      <3>1. CASE x = Lower(n)
        BY <3>1, <1>2, <1>3, <1>4 DEF Whole
      <3>2. CASE x # Lower(n)
        <4>1. x \in DOMAIN T /\ U[x] = T[x]
          BY <3>2, <1>2, <1>4
        <4> HIDE DEF Followed
        <4>2. T[x] \in Entries /\ (x \in p.dead <=> T[x].slain)
              /\ (Whole(p, T[x], x) => \E m \in Range(p.mobs) : LastSeen(p.mobs, m, x, T[x]))
          BY <4>1 DEF Followed
        <4>3. x \in r.dead <=> x \in p.dead
          BY <3>2
        <4>4. Whole(r, T[x], x) => Whole(p, T[x], x)
          BY DEF Whole
        <4> QED BY <4>1, <4>2, <4>3, <4>4
      <3> QED BY <3>1, <3>2
    <2> QED BY <2>1, <2>2 DEF Followed
  <1> QED BY <1>1, <1>5, <1>6

(* One line, read by s. *)
LEMMA LineFollowed ==
  ASSUME Listed(s), Followed(s, trail), NEW l, NEW jump \in Nat, l.op \in Ops,
         DOMAIN l = {"op", "src", "tgt", "sp"}, Line(l, jump)
  PROVE  /\ Listed(s') /\ Followed(s', trail')
         /\ \A n \in DOMAIN trail :
              LET t == trail[n]
                  u == trail'[n]
                  whole == ~t.slain /\ ~t.killed /\ \A x \in s.players : Lower(x) # n
              IN (u # t /\ ~u.slain) =>
                   /\ whole /\ (u.ts - t.ts < 15 \/ t.parked) => u.id = t.id
                   /\ t.slain => u.id = s.next
  <1> DEFINE p == [s EXCEPT !.ts = @ + jump, !.out = <<>>, !.hit = NoMob,
                            !.wall = @ + IF s.pace = -1 THEN jump ELSE s.pace]
             T == trail
             r == Handle(p, l)
  <1>1. s' = r /\ trail' = Trail(r, l)
    BY DEF Line, Read
  <1>2. /\ DOMAIN p = Fields /\ p.ts = s.ts + jump /\ p.next = s.next /\ p.mobs = s.mobs /\ p.hit = NoMob
        /\ p.players = s.players /\ p.dead = s.dead /\ p.out = <<>> /\ p.tab = s.tab
    BY DEF Listed, Fields
  <1> HIDE DEF p
  <1>3. Listed(p)
    <2>1. p.ts \in Nat \ {0} /\ s.ts <= p.ts
      BY <1>2 DEF Listed
    <2>2. \A m : Known(m, s.next, s.ts) => Known(m, p.next, p.ts)
      BY <1>2, <2>1 DEF Known, Listed
    <2> QED BY <1>2, <2>1, <2>2 DEF Listed
  <1>4. Followed(p, T)
    BY <1>2 DEF Followed, Whole
  <1>5. Silent(p, p.tab)
    <2>1. DOMAIN <<>> = 1 .. 0 /\ <<>> = [k \in 1 .. 0 |-> <<>>[k]] /\ Range(<<>>) = {}
      BY DEF Range
    <2>2. IsSequence(<<>>)
      BY <2>1, ListIsSequence
    <2> QED BY <2>1, <2>2, <1>2 DEF Silent
  <1>6. CASE l.op = "slay"
    <2> DEFINE U == [x \in DOMAIN T |-> [T[x] EXCEPT !.slain = T[x].slain \/ x = Lower(l.tgt)]]
    <2>1. r = SlayLine(p, l)
      BY <1>6 DEF Handle, Swings
    <2>2. /\ DOMAIN r = Fields /\ r.mobs = p.mobs /\ r.ts = p.ts /\ r.next = p.next
          /\ r.players = p.players /\ r.dead = p.dead \cup {Lower(l.tgt)}
      BY <2>1, <1>2 DEF SlayLine, Emit, Fields
    <2>3. trail' = U
      BY <1>1, <1>6 DEF Trail
    <2> HIDE DEF r, U
    <2>4. /\ Listed(r) /\ Followed(r, trail')
          /\ \A x \in DOMAIN T : ~trail'[x].slain => trail'[x] = T[x]
      BY <2>2, <2>3, <1>3, <1>4, SlayFollowed DEF U
    <2> QED BY <2>4, <1>1
  <1>7. CASE l.op # "slay"
    <2> DEFINE n == About(r, l)
               x == Lower(n)
    <2>1. Shaped(p, r, n, l.op = "park")
      BY <1>2, <1>3, <1>5, <1>7, LineShaped
    <2>2. trail' = IF r.hit = NoMob THEN T ELSE Put(T, x, Left(r, x, l.op = "park", T))
      BY <1>1, <1>7 DEF Trail, Left
    <2>3. (l.op = "park") \in BOOLEAN
      OBVIOUS
    <2> HIDE DEF r, n
    <2>4. /\ Listed(r)
          /\ r.hit = NoMob => Followed(r, T)
          /\ r.hit # NoMob =>
              /\ Followed(r, Put(T, x, Left(r, x, l.op = "park", T)))
              /\ x \in DOMAIN T /\ Whole(p, T[x], x) /\ (r.ts - T[x].ts < 15 \/ T[x].parked) => r.hit = T[x].id
              /\ x \in DOMAIN T /\ T[x].slain => r.hit = p.next
      BY <2>1, <2>3, <1>2, <1>3, <1>4, ShapedFollowed
    <2>5. CASE r.hit = NoMob
      BY <2>2, <2>4, <2>5, <1>1
    <2>6. CASE r.hit # NoMob
      <3> DEFINE e == Left(r, x, l.op = "park", T)
      <3>1. trail' = Put(T, x, e) /\ Followed(r, trail')
        BY <2>2, <2>4, <2>6
      <3>2. e.id = r.hit /\ e.ts = r.ts
        BY DEF Left
      <3> HIDE DEF e, x
      <3>3. /\ x \in DOMAIN T => trail'[x] = e
            /\ \A y \in DOMAIN T : y # x => trail'[y] = T[y]
        BY <3>1 DEF Put
      <3>4. ASSUME NEW y \in DOMAIN T, trail'[y] # T[y]
            PROVE  /\ Whole(p, T[y], y) /\ (trail'[y].ts - T[y].ts < 15 \/ T[y].parked) => trail'[y].id = T[y].id
                   /\ T[y].slain => trail'[y].id = s.next
        BY <2>4, <2>6, <3>2, <3>3, <3>4, <1>2
      <3> QED BY <2>4, <3>1, <3>4, <1>1, <1>2 DEF Whole
    <2> QED BY <2>5, <2>6
  <1> QED BY <1>6, <1>7

(* A mob's lines close together, or from its mez on, go to one sighting until it
   dies or is taken for a player, and the first after its death opens a sighting
   never used before (update_mob_list, parser.rs), whatever is read between. *)
THEOREM EncountersAreWhole == CombatSpec => WholeEncounters
  <1> DEFINE Inv == scene \in DOMAIN Script /\ Listed(s) /\ Followed(s, trail)
             Apart == \A n \in DOMAIN trail :
                        LET t == trail[n]
                            u == trail'[n]
                            whole == ~t.slain /\ ~t.killed /\ \A x \in s.players : Lower(x) # n
                        IN (u # t /\ ~u.slain) =>
                             /\ whole /\ (u.ts - t.ts < 15 \/ t.parked) => u.id = t.id
                             /\ t.slain => u.id = s.next
  <1>1. ASSUME NEW p, DOMAIN p = Fields, p.ts \in Nat \ {0}, p.next = 0, p.mobs = <<>>
        PROVE  Listed(p) /\ Followed(p, Zero)
    <2>1. DOMAIN <<>> = 1 .. 0 /\ <<>> = [k \in 1 .. 0 |-> <<>>[k]] /\ Range(<<>>) = {}
      BY DEF Range
    <2>2. IsSequence(<<>>)
      BY <2>1, ListIsSequence
    <2>3. \A i \in DOMAIN <<>> : FALSE
      BY <2>1
    <2>4. Distinct(<<>>)
      BY <2>3 DEF Distinct
    <2> QED BY <1>1, <2>1, <2>2, <2>4 DEF Listed, Followed, Zero
  <1>2. CombatInit => Inv
    <2> SUFFICES ASSUME CombatInit PROVE Inv
      OBVIOUS
    <2>1. s = Fresh(-1) /\ trail = Zero /\ scene \in DOMAIN Script
      BY DEF CombatInit
    <2>2. DOMAIN s = Fields /\ s.ts \in Nat \ {0} /\ s.next = 0 /\ s.mobs = <<>>
      BY <2>1 DEF Fresh, Fields
    <2> QED BY <2>1, <2>2, <1>1
  <1>3. Inv /\ ReadLine => Inv' /\ Apart
    <2> SUFFICES ASSUME Inv, ReadLine PROVE Inv' /\ Apart
      OBVIOUS
    <2>1. PICK l \in Script[scene], jump \in Jumps[scene] : Line(l, jump)
      BY DEF ReadLine
    <2>2. l.op \in Ops /\ jump \in Nat /\ DOMAIN l = {"op", "src", "tgt", "sp"}
      BY ScriptAssumption
    <2>3. scene' = scene
      BY <2>1 DEF Line
    <2> QED BY <2>1, <2>2, <2>3, LineFollowed
  <1>4. Inv /\ PressReset => Inv'
    <2> SUFFICES ASSUME Inv, PressReset PROVE Inv'
      OBVIOUS
    <2>1. s' = Reset(s) /\ trail' = Zero /\ scene' = scene
      BY DEF PressReset
    <2>2. DOMAIN s' = Fields /\ s'.ts = s.ts /\ s'.next = 0 /\ s'.mobs = <<>>
      BY <2>1 DEF Reset, Fresh, Fields
    <2>3. s'.ts \in Nat \ {0}
      BY <2>2 DEF Listed
    <2> QED BY <2>1, <2>2, <2>3, <1>1
  <1>5. Inv /\ UNCHANGED combatVars => Inv'
    BY DEF combatVars
  <1>6. Inv /\ [CombatNext]_combatVars => Inv'
    BY <1>3, <1>4, <1>5 DEF CombatNext
  <1>7. Inv /\ [CombatNext]_combatVars => [ReadLine => Apart]_combatVars
    BY <1>3
  <1> QED BY <1>2, <1>6, <1>7, PTL DEF CombatSpec, WholeEncounters
=============================================================================

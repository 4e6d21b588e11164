--------------------------------- MODULE Decay ---------------------------------
(***************************************************************************)
(* Items that decay: the buckets of Game::checkDecay and cleanup           *)
(* (src/src/game.cpp), what starts a decay, and the objects an item is     *)
(* while it changes its type.  Time is counted in eighths of a second, of  *)
(* which a round of checkDecay takes two and all four buckets eight.       *)
(***************************************************************************)
EXTENDS Integers, Sequences, SequencesExt, FiniteSets

CONSTANTS
    Objects,        \* the items there can be at once
    Types,
    DecayTo,        \* the next type, "nothing", or "never"
    DecayTime,      \* of each type, in eighths of a second
    StopTime,       \* the types that keep the time of a decay they stop
    Kind,           \* types of one kind are one object
    Durations,      \* of items that are loaded
    MaxEntries      \* bound: the entries of one item at once

VARIABLES
    item,           \* the objects
    decayItems,     \* a list for each bucket
    toDecayItems,   \* newest first
    toReleaseItems,
    lastBucket,
    ends            \* history: the decays of the last step

decayVars == <<item, decayItems, toDecayItems, toReleaseItems, lastBucket, ends>>

Second == 8
Interval == 2
Buckets == 0..3
NoDuration == -1

Free == [at |-> "free", type |-> CHOOSE t \in Types : TRUE, duration |-> NoDuration,
         decaying |-> FALSE, refs |-> 0, life |-> 0, age |-> 0]

DecayInit ==
    /\ item = [i \in Objects |-> Free]
    /\ decayItems = [b \in Buckets |-> <<>>]
    /\ toDecayItems = <<>> /\ toReleaseItems = <<>>
    /\ lastBucket = 0
    /\ ends = {}

Now == [item |-> item, decayItems |-> decayItems, toDecay |-> toDecayItems,
        toRelease |-> toReleaseItems, ends |-> {}]

Becomes(s) ==
    /\ item' = s.item /\ decayItems' = s.decayItems
    /\ toDecayItems' = s.toDecay /\ toReleaseItems' = s.toRelease
    /\ ends' = s.ends

InUse(s) == {i \in Objects : s.item[i].at # "free"}
Unused(s) == CHOOSE i \in Objects : s.item[i].at = "free"

Entries(s, i) ==
    Len(SelectSeq(FlattenSeq(<<s.decayItems[0], s.decayItems[1], s.decayItems[2],
                               s.decayItems[3], s.toDecay>>), LAMBDA j : j = i))

-----------------------------------------------------------------------------
Left(x) == IF x.duration = NoDuration THEN 0 ELSE x.duration
GetDecayTime(x) == IF x.duration = NoDuration THEN DecayTime[x.type] ELSE x.duration
CanDecay(x) == x.at = "world" /\ DecayTo[x.type] # "never" /\ GetDecayTime(x) # 0

(* Every part of the code that starts a decay does it so.                  *)
Listed(s, i) ==
    [s EXCEPT !.item[i].refs = @ + 1, !.item[i].decaying = TRUE,
              !.item[i].life = Left(s.item[i]), !.item[i].age = 0,
              !.toDecay = <<i>> \o @]

Continues(s, i) ==
    IF Left(s.item[i]) > 0 /\ ~ s.item[i].decaying THEN Listed(s, i) ELSE s

Release(s, i) == [s EXCEPT !.toRelease = Append(@, i)]

SetID(x, t) ==
    LET time == DecayTime[t]
        ended == time = 0 /\ t \notin StopTime /\ DecayTo[t] = "never"
        anew == time > 0 /\ (x.type \notin StopTime \/ x.duration = NoDuration)
    IN  [x EXCEPT !.type = t,
                  !.decaying = @ /\ ~ ended /\ ~ anew,
                  !.duration = IF ended THEN NoDuration ELSE IF anew THEN time ELSE @,
                  !.life = IF anew THEN time ELSE @, !.age = IF anew THEN 0 ELSE @]

New(t, duration) ==
    [Free EXCEPT !.at = "world", !.type = t, !.refs = 1,
                 !.duration = IF duration = 0 THEN NoDuration ELSE duration]

(* transformItem: the item that is there afterwards, and the state.        *)
Transform(s, i, t) ==
    IF Kind[s.item[i].type] = Kind[t] \/ s.item[i].at # "world"
    THEN [i |-> i, s |-> IF s.item[i].at # "world" \/ s.item[i].type = t THEN s
                         ELSE [s EXCEPT !.item[i] = SetID(@, t)]]
    ELSE LET new == Unused(s)
             replaced == [s EXCEPT !.item[i].at = "removed",
                                   !.item[new] = New(t, DecayTime[t])]
         IN  [i |-> new, s |-> Continues(Release(replaced, i), new)]

RemoveItem(s, i) == Release([s EXCEPT !.item[i].at = "removed"], i)

(* internalDecayItem; an item that has just got its type has time left or  *)
(* no decay, so startDecay calls it again for none.                        *)
InternalDecayItem(s, i) ==
    LET to == DecayTo[s.item[i].type]
        next == Transform(s, i, to)
    IN  IF to = "nothing" THEN RemoveItem(s, i)
        ELSE IF CanDecay(next.s.item[next.i]) THEN Continues(next.s, next.i) ELSE next.s

StartDecay(s, i) ==
    IF ~ CanDecay(s.item[i]) \/ s.item[i].decaying THEN s
    ELSE IF Left(s.item[i]) > 0 THEN Listed(s, i) ELSE InternalDecayItem(s, i)

-----------------------------------------------------------------------------
(* cleanup: what is released for the last time is deleted, and the new     *)
(* items come into their buckets.                                          *)
Bucket(last, duration) ==
    IF duration >= Second THEN last ELSE (last + 1 + duration \div Second) % 4

Cleaned(s, last) ==
    LET lost(i) == Len(SelectSeq(s.toRelease, LAMBDA j : j = i))
        after(i) == [s.item[i] EXCEPT !.refs = @ - lost(i)]
        kept == [i \in Objects |-> IF after(i).refs = 0 THEN Free ELSE after(i)]
        into(b) == SelectSeq(s.toDecay, LAMBDA i : Bucket(last, Left(s.item[i])) = b)
    IN  [s EXCEPT !.item = kept, !.toRelease = <<>>, !.toDecay = <<>>,
                  !.decayItems = [b \in Buckets |-> @[b] \o into(b)]]

Cleanup == Becomes(Cleaned(Now, lastBucket)) /\ UNCHANGED lastBucket

(* One item of the bucket.                                                 *)
Decays(s, i) ==
    LET end == [life |-> s.item[i].life, age |-> s.item[i].age,
                once |-> Entries(s, i) = 0]
    IN  Release(InternalDecayItem([s EXCEPT !.ends = @ \cup {end}], i), i)

CheckMutant(s, bucket, i) ==         \* erased and not released when it may not decay
    LET drop(n) == [s EXCEPT !.decayItems[bucket] = RemoveFirst(@, i), !.item[i].duration = n]
        less == IF Left(s.item[i]) < Second THEN 0 ELSE Left(s.item[i]) - Second
        nextBucket == (bucket + ((less + Interval \div 2) \div Second)) % 4
    IN  CASE ~ CanDecay(s.item[i]) ->
                 [s EXCEPT !.decayItems[bucket] = RemoveFirst(@, i), !.item[i].decaying = FALSE]
          [] CanDecay(s.item[i]) /\ less >= Second -> [s EXCEPT !.item[i].duration = less]
          [] CanDecay(s.item[i]) /\ less > 0 /\ less < Second /\ nextBucket # bucket ->
                 [drop(less) EXCEPT !.decayItems[nextBucket] = Append(@, i)]
          [] OTHER -> Decays(drop(less), i)

Check(s, bucket, i) ==
    LET drop(n) == [s EXCEPT !.decayItems[bucket] = RemoveFirst(@, i), !.item[i].duration = n]
        less == IF Left(s.item[i]) < Second THEN 0 ELSE Left(s.item[i]) - Second
        nextBucket == (bucket + ((less + Interval \div 2) \div Second)) % 4
    IN  CASE ~ CanDecay(s.item[i]) ->
                 Release([s EXCEPT !.decayItems[bucket] = RemoveFirst(@, i),
                                   !.item[i].decaying = FALSE], i)
          [] CanDecay(s.item[i]) /\ less >= Second -> [s EXCEPT !.item[i].duration = less]
          [] CanDecay(s.item[i]) /\ less > 0 /\ less < Second /\ nextBucket # bucket ->
                 [drop(less) EXCEPT !.decayItems[nextBucket] = Append(@, i)]
          [] OTHER -> Decays(drop(less), i)

(* Every item of the bucket may be replaced.                              *)
Room(n) == Cardinality(InUse(Now)) + n <= Cardinality(Objects)

CheckDecayMutant ==                  \* lastBucket is not moved on
    /\ Room(Len(decayItems[(lastBucket + 1) % 4]))
    /\ LET bucket == (lastBucket + 1) % 4
           older == [Now EXCEPT !.item = [i \in Objects |->
                        IF Entries(Now, i) > 0 THEN [item[i] EXCEPT !.age = @ + 1] ELSE item[i]]]
           done == FoldLeft(LAMBDA s, i : Check(s, bucket, i), older, decayItems[bucket])
       IN  Becomes(Cleaned(done, lastBucket)) /\ UNCHANGED lastBucket

CheckDecay ==
    /\ Room(Len(decayItems[(lastBucket + 1) % 4]))
    /\ LET bucket == (lastBucket + 1) % 4
           older == [Now EXCEPT !.item = [i \in Objects |->
                        IF Entries(Now, i) > 0 THEN [item[i] EXCEPT !.age = @ + 1]
                                               ELSE item[i]]]
           done == FoldLeft(LAMBDA s, i : Check(s, bucket, i), older, decayItems[bucket])
       IN  Becomes(Cleaned(done, bucket)) /\ lastBucket' = bucket

-----------------------------------------------------------------------------
InWorld(i) == item[i].at = "world"

(* An item is made and put somewhere, or comes from the database.          *)
Create(t) ==
    /\ Room(2)
    /\ LET i == Unused(Now)
       IN  Becomes(Continues([Now EXCEPT !.item[i] = New(t, DecayTime[t])], i))
    /\ UNCHANGED lastBucket

Load(t, duration) ==
    /\ Room(2)
    /\ LET i == Unused(Now)
       IN  Becomes(StartDecay([Now EXCEPT !.item[i] = New(t, duration)], i))
    /\ UNCHANGED lastBucket

Move(i) == InWorld(i) /\ Entries(Now, i) < MaxEntries /\ Becomes(Continues(Now, i)) /\ UNCHANGED lastBucket

(* A script or a slot transforms an item, and mostly has it decay then.    *)
Use(i, t, decay) ==
    /\ InWorld(i) /\ Room(1) /\ Entries(Now, i) < MaxEntries
    /\ LET next == Transform(Now, i, t)
       IN  Becomes(IF decay THEN StartDecay(next.s, next.i) ELSE next.s)
    /\ UNCHANGED lastBucket

UseUp(i) == InWorld(i) /\ Becomes(RemoveItem(Now, i)) /\ UNCHANGED lastBucket

DecayNext ==
    \/ CheckDecay \/ Cleanup
    \/ \E t \in Types : Create(t) \/ \E d \in Durations : Load(t, d)
    \/ \E i \in Objects :
          \/ Move(i) \/ UseUp(i)
          \/ \E t \in Types, decay \in BOOLEAN : Use(i, t, decay)

-----------------------------------------------------------------------------
(* An item is held by the world, by its entries in the lists of decay and  *)
(* by nothing else; one that is taken for decaying is in a list, or it     *)
(* would stay for ever (game.cpp:4528).                                    *)
DecayIsListed ==
    \A i \in Objects :
        LET x == item[i]
            released == Len(SelectSeq(toReleaseItems, LAMBDA j : j = i))
        IN  /\ x.refs = Entries(Now, i) + released + IF x.at = "world" THEN 1 ELSE 0
            /\ x.at = "world" /\ x.decaying => Entries(Now, i) > 0

(* An item that is in one list decays in its time: less than a second      *)
(* early and less than two rounds late (game.cpp:4577, :4666).             *)
DecayIsOnTime ==
    \A end \in ends :
        LET lived == end.age * Interval
        IN  end.once => end.life - Second < lived /\ lived < end.life + 2 * Interval
=============================================================================

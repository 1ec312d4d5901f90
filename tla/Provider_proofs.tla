---------------------------- MODULE Provider_proofs ---------------------------
(***************************************************************************)
(* Proofs about the providers.  Resy's api_key, for any number of calls    *)
(* that share it, any credentials and any failures: the types, at most one *)
(* scrape of resy.com per process.                                         *)
(*                                                                         *)
(* Finding openings at AMC and at Resy, for any shows, zones, watches and  *)
(* refusals: FindInv says how far a find is and that all that is behind it *)
(* is found, once; what is found is told by slots that can be read back.   *)
(* And AMC's directory, for any number of lookups.                         *)
(*                                                                         *)
(* The seats of a room, of any size and however it fills: the loop over    *)
(* the columns leaves the longest runs of seats (RunsInv), from which the  *)
(* gate, the link and the symmetry of the zones follow.                    *)
(***************************************************************************)
EXTENDS ResyKey, Listing, Seating, FiniteSetTheorems, SequenceTheorems, TLAPS

(* A key to use in place of an absent one is a key.                        *)
LEMMA OrIsKey ==
  ASSUME NEW k \in Keys \union {NoKey}, NEW otherwise \in Keys
  PROVE  Or(k, otherwise) \in Keys
  BY DEF Or

(* Sending a request under a key keeps the types.                          *)
LEMMA SendTypes ==
  ASSUME KeyTypeOK, NEW c \in Callers, NEW request \in {"login", "refresh", "profile", "find"},
         NEW k \in Keys, Send(c, request, k)
  PROVE  /\ key' \in Keys
         /\ sent' \in [Callers -> Keys]
         /\ op' \in [Callers -> {"login", "refresh", "profile", "find"}]
         /\ stage' \in [Callers -> {"idle", "sent", "heal", "healed", "resent"}]
  BY DEF KeyTypeOK, Send

(* Every request of the provider sets this.apiKey to a key.                *)
LEMMA RequestTypes ==
  ASSUME KeyTypeOK, NEW c \in Callers, NEW s \in Session,
         \/ Login(c)
         \/ Refresh(c, s)
         \/ Find(c, s)
         \/ Send(c, "profile", key)
  PROVE  /\ key' \in Keys
         /\ sent' \in [Callers -> Keys]
         /\ op' \in [Callers -> {"login", "refresh", "profile", "find"}]
         /\ stage' \in [Callers -> {"idle", "sent", "heal", "healed", "resent"}]
<1>1. /\ key \in Keys
      /\ CredsKey \in Keys \union {NoKey}
      /\ s.key \in Keys \union {NoKey}
  BY ResyKeyConstants DEF KeyTypeOK, Keys, Session
<1>2. /\ Or(CredsKey, key) \in Keys
      /\ Or(s.key, key) \in Keys
  BY <1>1, OrIsKey
<1>3. Or(s.key, Or(CredsKey, key)) \in Keys
  BY <1>1, <1>2, OrIsKey
<1>4. CASE Login(c)
  BY <1>2, <1>4, SendTypes DEF Login
<1>5. CASE Refresh(c, s)
  BY <1>3, <1>5, SendTypes DEF Refresh
<1>6. CASE Find(c, s)
  BY <1>2, <1>6, SendTypes DEF Find
<1>7. CASE Send(c, "profile", key)
  BY <1>1, <1>7, SendTypes
<1> QED BY <1>4, <1>5, <1>6, <1>7

(* What a call does after an answer: it sends its next request, or ends.   *)
LEMMA AnswerTypes ==
  ASSUME KeyTypeOK, NEW c \in Callers, Succeed(c) \/ Fail(c)
  PROVE  /\ key' \in Keys
         /\ sent' \in [Callers -> Keys]
         /\ op' \in [Callers -> {"login", "refresh", "profile", "find"}]
         /\ stage' \in [Callers -> {"idle", "sent", "heal", "healed", "resent"}]
         /\ sess' \in [Callers -> Session]
         /\ row' \in Session
<1>1. /\ sess[c] \in Session /\ op[c] \in {"login", "refresh", "profile", "find"}
      /\ Minted(key) \in Session
  BY DEF KeyTypeOK, Minted, Session
<1>2. CASE Succeed(c)
  <2>1. CASE op[c] \in {"login", "refresh"}
    <3>1. /\ sess' = [sess EXCEPT ![c] = Minted(key)]
          /\ Send(c, "profile", key)
          /\ UNCHANGED row
      BY <1>2, <2>1 DEF Succeed
    <3> QED BY <1>1, <3>1, RequestTypes DEF KeyTypeOK
  <2>2. CASE op[c] = "profile"
    <3>1. /\ row' = sess[c]
          /\ Find(c, sess[c])
          /\ UNCHANGED sess
      BY <1>2, <2>2 DEF Succeed
    <3> QED BY <1>1, <3>1, RequestTypes DEF KeyTypeOK
  <2>3. CASE op[c] = "find"
    <3>1. /\ stage' = [stage EXCEPT ![c] = "idle"]
          /\ UNCHANGED <<key, op, sent, sess, row>>
      BY <1>2, <2>3 DEF Succeed
    <3> QED BY <3>1 DEF KeyTypeOK
  <2> QED BY <1>1, <2>1, <2>2, <2>3
<1>3. CASE Fail(c) /\ op[c] # "profile"
  <2>1. CASE op[c] = "refresh"
    <3>1. Login(c) /\ UNCHANGED <<sess, row>>
      BY <1>3, <2>1 DEF Fail
    <3> QED BY <1>1, <3>1, RequestTypes DEF KeyTypeOK
  <2>2. CASE op[c] \in {"login", "find"}
    <3>1. /\ stage' = [stage EXCEPT ![c] = "idle"]
          /\ UNCHANGED <<key, op, sent, sess, row>>
      BY <1>3, <2>2 DEF Fail
    <3> QED BY <3>1 DEF KeyTypeOK
  <2> QED BY <1>1, <1>3, <2>1, <2>2
<1>4. CASE Fail(c) /\ op[c] = "profile"
  BY <1>2, <1>4 DEF Fail
<1> QED BY <1>2, <1>3, <1>4

(* So does every step.                                                     *)
LEMMA TypesKept ==
  ASSUME KeyTypeOK, [KeyNext]_keyVars
  PROVE  KeyTypeOK'
<1>1. CASE UNCHANGED keyVars
  BY <1>1 DEF keyVars, callerVars, KeyTypeOK
<1>2. ASSUME NEW c \in Callers, StartCall(c)
      PROVE  KeyTypeOK'
  <2>1. row \in Session
    BY DEF KeyTypeOK
  <2>2. Login(c) \/ Refresh(c, row) \/ Find(c, row)
    BY <1>2 DEF StartCall
  <2>3. /\ key' \in Keys
        /\ sent' \in [Callers -> Keys]
        /\ op' \in [Callers -> {"login", "refresh", "profile", "find"}]
        /\ stage' \in [Callers -> {"idle", "sent", "heal", "healed", "resent"}]
    BY <2>1, <2>2, RequestTypes
  <2> QED BY <1>2, <2>1, <2>3 DEF StartCall, KeyTypeOK
<1>3. ASSUME NEW c \in Callers, ReplyOk(c) \/ ReplyFail(c)
      PROVE  KeyTypeOK'
  <2>1. (Succeed(c) \/ Fail(c)) /\ UNCHANGED <<siteKey, healed, scrapes>>
    BY <1>3 DEF ReplyOk, ReplyFail
  <2> QED BY <2>1, AnswerTypes DEF KeyTypeOK
<1>4. ASSUME NEW c \in Callers, ReplyHeal(c)
      PROVE  KeyTypeOK'
  BY <1>4 DEF ReplyHeal, SetOnHeal, KeyTypeOK
<1>5. ASSUME NEW c \in Callers, Scraped(c) \/ Resend(c)
      PROVE  KeyTypeOK'
  BY <1>5 DEF Scraped, Resend, KeyTypeOK
<1>6. CASE Rotate \/ Age \/ Revoke \/ Handover
  <2>1. UNCHANGED <<key, healed, callerVars, scrapes>> /\ siteKey' \in Keys /\ row' \in Session
    BY <1>6 DEF Rotate, Age, Revoke, Handover, Minted, KeyTypeOK, Session, Keys
  <2> QED BY <2>1 DEF callerVars, KeyTypeOK
<1>7. CASE Restart
  BY <1>7 DEF Restart, KeyTypeOK, Keys
<1> QED BY <1>1, <1>2, <1>3, <1>4, <1>5, <1>6, <1>7 DEF KeyNext, CallerStep

(* Whatever the failures, every call works with a key and a session of the *)
(* right shape: the key field is never absent.                             *)
THEOREM KeyTypes == KeySpec => []KeyTypeOK
<1>1. KeyInit => KeyTypeOK
  <2>1. NoSession \in Session
    BY DEF NoSession, Session
  <2>2. OldKey \in Keys
    BY DEF Keys
  <2>3. KeyInit => healed \in BOOLEAN
    BY Zenon DEF KeyInit
  <2> QED BY <2>1, <2>2, <2>3 DEF KeyInit, KeyTypeOK
<1>2. KeyTypeOK /\ [KeyNext]_keyVars => KeyTypeOK'
  BY TypesKept
<1> QED BY <1>1, <1>2, PTL DEF KeySpec

-----------------------------------------------------------------------------
(* The flag apiKeyHealed counts the scrapes.                               *)
FlagCounts == scrapes = IF healed THEN 1 ELSE 0

(* "scrapes a fresh api_key and retries once": a process scrapes resy.com  *)
(* at most once, for any number of calls refused at the same time.         *)
THEOREM ScrapesAtMostOnce == KeySpec => []ScrapedOnce
<1>1. KeyInit => FlagCounts
  BY DEF KeyInit, FlagCounts
<1>2. ASSUME FlagCounts, [KeyNext]_keyVars
      PROVE  FlagCounts'
  <2>1. CASE UNCHANGED <<healed, scrapes>>
    BY <1>2, <2>1 DEF FlagCounts
  <2>2. ASSUME NEW c \in Callers, ReplyHeal(c)
        PROVE  FlagCounts'
    BY <1>2, <2>2 DEF ReplyHeal, SetOnHeal, FlagCounts
  <2>3. CASE Restart
    BY <2>3 DEF Restart, FlagCounts
  <2>4. ASSUME NEW c \in Callers, StartCall(c) \/ ReplyOk(c) \/ ReplyFail(c) \/ Scraped(c) \/ Resend(c)
        PROVE  UNCHANGED <<healed, scrapes>>
    BY <2>4 DEF StartCall, ReplyOk, ReplyFail, Scraped, Resend
  <2>5. CASE UNCHANGED keyVars \/ Rotate \/ Age \/ Revoke \/ Handover
    BY <2>1, <2>5 DEF keyVars, Rotate, Age, Revoke, Handover
  <2> QED BY <1>2, <2>1, <2>2, <2>3, <2>4, <2>5 DEF KeyNext, CallerStep
<1>3. FlagCounts => ScrapedOnce
  BY DEF FlagCounts, ScrapedOnce
<1> QED BY <1>1, <1>2, <1>3, PTL DEF KeySpec

-----------------------------------------------------------------------------

-----------------------------------------------------------------------------
(* What find makes of a show, for the provider that is asked.              *)
SlotOf(s) == IF ask.provider = "amc" THEN amcSlot(s) ELSE mapSlot(s)
SlotsOf == {SlotOf(s) : s \in Shows}

AtAmc  == ask # None /\ ask.provider = "amc"
AtResy == ask # None /\ ask.provider # "amc"

(* The types of a find: the sites and what is asked are those of Init, and *)
(* all that is found are slots made of shows.                              *)
FindTypes ==
  /\ site \in Sites /\ (ask # None => ask \in Ask) /\ now \in Int
  /\ range \in [start : Int, end : Int] /\ day \in Int
  /\ pc # "begin" => ask # None
  /\ AtAmc => pc \in {"begin", "page", "maps", "done", "kept", "failed"}
  /\ AtResy => pc \in {"begin", "calendar", "day", "day by post", "done", "kept", "failed"}
  /\ found \in Seq(SlotsOf) /\ (pc = "begin" => found = <<>>)
  /\ kept \subseteq {found[i] : i \in DOMAIN found}
  /\ outcome \in (ErrorClass \ {"schema-drift"}) \union {None} /\ (outcome # None <=> pc = "failed")

(* AMC goes through the dates in order, and at a date through what is left *)
(* to do of its page.                                                      *)
AmcInv ==
  AtAmc =>
    /\ pc = "page" => \A i \in DOMAIN found : found[i].date < day
    /\ pc = "maps" => /\ \A s \in todo : s \in Shows /\ amcSlot(s).date = day
                      /\ \A i \in DOMAIN found : found[i].date <= day /\ found[i].show \notin todo

(* And so does Resy with the days that have something.                     *)
ResyInv ==
  AtResy =>
    /\ pc \in {"day", "day by post"} => todo \subseteq {LocalDate(s) : s \in Shows}
    /\ pc \in {"day", "day by post"} => \A i \in DOMAIN found, d \in todo : found[i].date < d
    /\ pc = "calendar" => found = <<>>

(* A show is found once.                                                   *)
ShowsDiffer == \A i, j \in DOMAIN found : i # j => found[i].show # found[j].show

(* What AMC has on a date that passes its filters, and can be read.        *)
OnPage(s, date) == s \in parseShowtimesPage(date) /\ Aligned(date, amcSlot(s))
Behind(s, date) == range.start <= date /\ (date < day \/ (pc = "maps" /\ date = day /\ s \notin todo))
FoundIt(s) == \E i \in DOMAIN found : found[i].show = s

(* All of it that is behind is found.                                      *)
AmcCovers ==
  AtAmc /\ pc \in {"page", "maps", "done", "kept"} =>
    /\ \A s \in Shows : site.shows[s].data = "whole" /\ OnPage(s, amcSlot(s).date) /\ Behind(s, amcSlot(s).date)
         => FoundIt(s)
    /\ pc \in {"done", "kept"} => range.end < day

ResyCovers ==
  AtResy /\ pc \in {"day", "day by post", "done", "kept"} =>
    /\ \A s \in Shows : extractBalancedJson(s) /\ isWithinDateRange(LocalDate(s), range) /\ LocalDate(s) \notin todo
         => FoundIt(s)
    /\ pc \in {"done", "kept"} => todo = {}

(* What the service hands on are the slots that it keeps of what is found. *)
KeptInv ==
  pc = "kept" /\ ask.for = "scan" => kept = {slot \in {found[i] : i \in DOMAIN found} : scanKeeps(slot)}

ScanZone == ask # None /\ ask.for = "scan" => ask.zone = site.zone

FindInv == FindTypes /\ AmcInv /\ ResyInv /\ ShowsDiffer /\ AmcCovers /\ ResyCovers /\ KeptInv /\ ScanZone

(* The directory is as of no earlier than the moment it is kept under.     *)
DirectoryInv ==
  /\ now \in Int
  /\ sitemap # None => sitemap.fetchedAt \in Int /\ sitemap.asOf \in Int /\ sitemap.fetchedAt <= sitemap.asOf
  /\ \A c \in Clients :
       /\ lookups[c].at \in Int /\ lookups[c].asOf \in Int
       /\ lookups[c].state = "sent" => lookups[c].at <= now
       /\ lookups[c].state = "answered" => lookups[c].at <= lookups[c].asOf
       /\ lookups[c].state = "served" => lookups[c].at - lookups[c].asOf < SITEMAP_TTL

-----------------------------------------------------------------------------
(* Days and hours make up an instant again.                      *)
LEMMA DayArithmetic ==
  ASSUME NEW w \in Int
  PROVE  /\ Date(w) \in Int /\ Time(w) \in 0 .. DayLength - 1
         /\ Date(w) * DayLength + Time(w) = w
<1>1. DayLength \in Nat \ {0}
  BY ListingConstants
<1>2. w \div DayLength \in Int /\ w % DayLength \in 0 .. DayLength - 1
  BY <1>1
<1>3. DayLength * (w \div DayLength) + (w % DayLength) = w
  BY <1>1
<1>4. DayLength * (w \div DayLength) = (w \div DayLength) * DayLength
  BY <1>1, <1>2
<1> QED BY <1>2, <1>3, <1>4 DEF Date, Time

Zone == [before : Int, after : Int, at : Int]

(* Wall clock times are numbers.                                           *)
LEMMA WallTypes ==
  ASSUME NEW zone \in Zone, NEW t \in Int
  PROVE  Wall(zone, t) \in Int /\ offsetAt(zone, t) \in Int
  BY DEF Wall, offsetAt, Zone

(* The zones are zones.                                                    *)
LEMMA ZonesAreZones ==
  /\ site \in Sites => site.zone \in Zone
  /\ ask \in Ask => ask.zone \in Zone
<1>1. TimeZones \subseteq Zone
  BY ListingConstants DEF Zone
<1>2. UTC \in Zone
  <2>1. UTC = [before |-> 0, after |-> 0, at |-> 0]
    BY ListingConstants
  <2> QED BY <2>1 DEF Zone
<1> QED BY <1>1, <1>2 DEF Sites, Ask

(* The fields of a slot.                                                   *)
LEMMA SlotFields ==
  ASSUME NEW s \in Shows, site \in Sites, ask \in Ask
  PROVE  /\ amcSlot(s).show = s /\ mapSlot(s).show = s
         /\ amcSlot(s).date \in Int /\ mapSlot(s).date = LocalDate(s) /\ LocalDate(s) \in Int
         /\ amcSlot(s).start \in 0 .. DayLength - 1 /\ mapSlot(s).start \in 0 .. DayLength - 1
         /\ amcSlot(s).key = formatDedupeKey(Parts(s, amcSlot(s).date, amcSlot(s).start))
         /\ mapSlot(s).key = formatDedupeKey(Parts(s, mapSlot(s).date, mapSlot(s).start))
<1>1. site.zone \in Zone /\ ask.zone \in Zone /\ site.shows[s].starts \in Int
  <2>1. site.shows[s] \in Given /\ Given \subseteq Show
    BY ListingConstants DEF Sites
  <2>2. site.shows[s].starts \in Nat
    BY <2>1 DEF Show
  <2> QED BY <2>2, ZonesAreZones
<1>2. Wall(ask.zone, site.shows[s].starts) \in Int /\ Wall(site.zone, site.shows[s].starts) \in Int
  BY <1>1, WallTypes
<1>3. /\ Date(Wall(ask.zone, site.shows[s].starts)) \in Int
      /\ Time(Wall(ask.zone, site.shows[s].starts)) \in 0 .. DayLength - 1
      /\ LocalDate(s) \in Int /\ LocalTime(s) \in 0 .. DayLength - 1
  BY <1>2, DayArithmetic DEF LocalDate, LocalTime
<1> QED BY <1>3 DEF amcSlot, mapSlot, Slot

(* A key ends in the id of its show.                                       *)
LEMMA KeyEndsInShow ==
  ASSUME NEW s, NEW date, NEW start, ask \in Ask
  PROVE  /\ Len(formatDedupeKey(Parts(s, date, start))) > 5
         /\ formatDedupeKey(Parts(s, date, start))[Len(formatDedupeKey(Parts(s, date, start)))] = s
<1> DEFINE five == <<ask.provider, "venue", date, start, 2>>
<1> DEFINE film == site.shows[s].film
<1>1. CASE ask.provider = "amc"
  <2>1. formatDedupeKey(Parts(s, date, start)) = five \o <<film, s>>
    BY <1>1 DEF formatDedupeKey, Parts
  <2>2. Len(five \o <<film, s>>) = 7 /\ (five \o <<film, s>>)[7] = s
    OBVIOUS
  <2> QED BY <1>1, <2>1, <2>2
<1>2. CASE ask.provider # "amc"
  <2>1. formatDedupeKey(Parts(s, date, start)) = five \o (IF <<s>> = <<>> THEN <<"">> ELSE <<s>>)
    BY <1>2 DEF formatDedupeKey, Parts
  <2>2. <<s>> # <<>>
    OBVIOUS
  <2>3. Len(five \o <<s>>) = 6 /\ (five \o <<s>>)[6] = s
    OBVIOUS
  <2> QED BY <1>2, <2>1, <2>2, <2>3
<1> QED BY <1>1, <1>2

(* What follows the first part of two.                                     *)
LEMMA SecondPart ==
  ASSUME NEW S, NEW q \in Seq(S), NEW r \in Seq(S)
  PROVE  SubSeq(q \o r, Len(q) + 1, Len(q \o r)) = r
<1> DEFINE m == Len(q) + 1
<1> DEFINE n == Len(q \o r)
<1>1. /\ Len(q) \in Nat /\ Len(r) \in Nat /\ n = Len(q) + Len(r)
      /\ \A i \in 1 .. Len(r) : (q \o r)[Len(q) + i] = r[i] /\ r[i] \in S
  OBVIOUS
<1>2. \A i \in m .. n : (q \o r)[i] \in S
  <2> SUFFICES ASSUME NEW i \in m .. n PROVE (q \o r)[i] \in S
    OBVIOUS
  <2>1. i - Len(q) \in 1 .. Len(r) /\ Len(q) + (i - Len(q)) = i
    BY <1>1
  <2> QED BY <1>1, <2>1
<1>3. /\ SubSeq(q \o r, m, n) \in Seq(S)
      /\ Len(SubSeq(q \o r, m, n)) = IF m <= n THEN n - m + 1 ELSE 0
      /\ \A i \in 1 .. n - m + 1 : SubSeq(q \o r, m, n)[i] = (q \o r)[m + i - 1]
  <2> DEFINE w == q \o r
  <2>1. m \in Int /\ n \in Int /\ \A i \in m .. n : w[i] \in S
    BY <1>1, <1>2
  <2> HIDE DEF m, n, w
  <2>2. /\ SubSeq(w, m, n) \in Seq(S)
        /\ Len(SubSeq(w, m, n)) = IF m <= n THEN n - m + 1 ELSE 0
        /\ \A i \in 1 .. n - m + 1 : SubSeq(w, m, n)[i] = w[m + i - 1]
    BY <2>1, SubSeqProperties
  <2> QED BY <2>2 DEF w
<1>4. Len(SubSeq(q \o r, m, n)) = Len(r)
  BY <1>1, <1>3
<1>5. \A i \in 1 .. Len(r) : SubSeq(q \o r, m, n)[i] = r[i]
  <2> SUFFICES ASSUME NEW i \in 1 .. Len(r) PROVE SubSeq(q \o r, m, n)[i] = r[i]
    OBVIOUS
  <2>1. i \in 1 .. n - m + 1 /\ m + i - 1 = Len(q) + i
    BY <1>1
  <2>2. SubSeq(q \o r, m, n)[i] = (q \o r)[m + i - 1]
    BY <1>3, <2>1
  <2>3. (q \o r)[m + i - 1] = (q \o r)[Len(q) + i]
    BY <2>1
  <2>4. (q \o r)[Len(q) + i] = r[i]
    BY <1>1
  <2> QED BY <2>2, <2>3, <2>4
<1> HIDE DEF m, n
<1> QED BY <1>3, <1>4, <1>5, SeqEqual DEF m, n

(* A key is read back.                                                     *)
LEMMA KeyIsRead ==
  ASSUME NEW s \in Shows, NEW date, NEW start, ask \in Ask
  PROVE  parseDedupeKey(formatDedupeKey(Parts(s, date, start))) = Parts(s, date, start)
<1> DEFINE five == <<ask.provider, "venue", date, start, 2>>
<1> DEFINE kind == IF ask.provider = "amc" THEN <<site.shows[s].film, s>> ELSE <<s>>
<1> DEFINE dkey == formatDedupeKey(Parts(s, date, start))
<1>1. Parts(s, date, start) =
        [provider |-> ask.provider, venueId |-> "venue", date |-> date, start |-> start, partySize |-> 2, kind |-> kind]
  BY DEF Parts
<1>2. kind # <<>> /\ kind # <<"">>
  BY ListingConstants
<1>3. dkey = five \o kind
  <2> HIDE DEF kind
  <2>1. Parts(s, date, start).kind = kind
    BY <1>1
  <2>2. dkey = <<Parts(s, date, start).provider, Parts(s, date, start).venueId, Parts(s, date, start).date,
                 Parts(s, date, start).start, Parts(s, date, start).partySize>> \o kind
    BY <1>2, <2>1 DEF formatDedupeKey
  <2> QED BY <1>1, <2>2
<1>4. /\ (five \o kind)[1] = ask.provider /\ (five \o kind)[2] = "venue" /\ (five \o kind)[3] = date
      /\ (five \o kind)[4] = start /\ (five \o kind)[5] = 2
  OBVIOUS
<1>5. SubSeq(five \o kind, 6, Len(five \o kind)) = kind
  <2> DEFINE S == {ask.provider, "venue", date, start, 2, site.shows[s].film, s}
  <2>1. five \in Seq(S) /\ Len(five) + 1 = 6
    OBVIOUS
  <2>2. kind \in Seq(S)
    <3>1. <<site.shows[s].film, s>> \in Seq(S) /\ <<s>> \in Seq(S)
      OBVIOUS
    <3> HIDE DEF S
    <3> QED BY <3>1
  <2> HIDE DEF S, five, kind
  <2>3. SubSeq(five \o kind, Len(five) + 1, Len(five \o kind)) = kind
    BY <2>1, <2>2, SecondPart
  <2> QED BY <2>1, <2>3
<1>6. kindParts(five \o kind) = kind
  <2> HIDE DEF kind, five
  <2> QED BY <1>2, <1>5 DEF kindParts
<1> HIDE DEF kind, five, dkey
<1> QED BY <1>1, <1>3, <1>4, <1>6 DEF parseDedupeKey, dkey

(* The sequence of a set has each of its elements, once.                   *)
LEMMA SequenceOfSet ==
  ASSUME NEW S, IsFiniteSet(S)
  PROVE  /\ SetToSeq(S) \in Seq(S) /\ IsInjective(SetToSeq(S))
         /\ \A x \in S : \E i \in DOMAIN SetToSeq(S) : SetToSeq(S)[i] = x
<1> DEFINE n == Cardinality(S)
<1> DEFINE f == SetToSeq(S)
<1>1. n \in Nat /\ ExistsBijection(1 .. n, S)
  BY FS_CardinalityType
<1>2. \E g \in [1 .. n -> S] : IsInjective(g)
  BY <1>1 DEF ExistsBijection, Bijection, Injection
<1>3. f \in [1 .. n -> S] /\ IsInjective(f)
  BY <1>2 DEF SetToSeq
<1>4. f \in Injection(1 .. n, S)
  BY <1>3 DEF Injection
<1>5. Cardinality(1 .. n) = n
  BY <1>1, FS_Interval
<1>6. f \in Surjection(1 .. n, S)
  <2> HIDE DEF n, f
  <2> QED BY <1>4, <1>5, FS_Injection DEF n
<1>7. f \in Seq(S)
  BY <1>1, <1>3
<1>8. DOMAIN f = 1 .. n
  BY <1>3
<1> HIDE DEF n
<1> QED BY <1>3, <1>6, <1>7, <1>8 DEF Surjection

(* What is found at Resy on a date, in some order.                         *)
TablesOf(d) == {mapSlot(s) : s \in {x \in Shows : LocalDate(x) = d /\ extractBalancedJson(x)}}

LEMMA TablesAreListed ==
  ASSUME NEW d
  PROVE  /\ SetToSeq(TablesOf(d)) \in Seq(TablesOf(d)) /\ IsInjective(SetToSeq(TablesOf(d)))
         /\ \A x \in TablesOf(d) : \E i \in DOMAIN SetToSeq(TablesOf(d)) : SetToSeq(TablesOf(d))[i] = x
<1> DEFINE D == {x \in Shows : LocalDate(x) = d /\ extractBalancedJson(x)}
<1> DEFINE f == [s \in D |-> mapSlot(s)]
<1>1. IsFiniteSet(D)
  <2>1. D \subseteq Shows
    OBVIOUS
  <2> HIDE DEF D
  <2> QED BY <2>1, ListingConstants, FS_Subset
<1>2. f \in Surjection(D, TablesOf(d))
  <2>1. \A s \in D : mapSlot(s) \in TablesOf(d)
    BY DEF TablesOf
  <2>2. \A t \in TablesOf(d) : \E s \in D : mapSlot(s) = t
    BY DEF TablesOf
  <2> HIDE DEF D
  <2> QED BY <2>1, <2>2 DEF Surjection
<1>3. IsFiniteSet(TablesOf(d))
  <2> HIDE DEF D, f
  <2> QED BY <1>1, <1>2, FS_Surjection
<1> QED BY <1>3, SequenceOfSet

(* What does not move.                                                     *)
LEMMA ListingFrame ==
  ASSUME [Next]_vars
  PROVE  UNCHANGED <<site, ask>>
BY DEF Next, Tick, find, look, Lookup, Land, SiteAnswers, To, vars

LEMMA SlotsFrame ==
  ASSUME UNCHANGED <<site, ask>>
  PROVE  /\ SlotsOf' = SlotsOf
         /\ \A s \in Shows : /\ SlotOf(s)' = SlotOf(s)
                             /\ amcSlot(s)' = amcSlot(s) /\ mapSlot(s)' = mapSlot(s)
                             /\ LocalDate(s)' = LocalDate(s)
                             /\ extractBalancedJson(s)' = extractBalancedJson(s)
<1>1. \A s \in Shows : /\ LocalDate(s)' = LocalDate(s) /\ LocalTime(s)' = LocalTime(s)
                       /\ extractBalancedJson(s)' = extractBalancedJson(s)
  BY DEF LocalDate, LocalTime, extractBalancedJson
<1>2. \A s \in Shows : amcSlot(s)' = amcSlot(s)
  BY DEF amcSlot, Slot, Parts
<1>3. \A s \in Shows : mapSlot(s)' = mapSlot(s)
  BY <1>1 DEF mapSlot, Slot, Parts
<1>4. \A s \in Shows : SlotOf(s)' = SlotOf(s)
  BY <1>2, <1>3 DEF SlotOf
<1>5. SlotsOf' = SlotsOf
  BY <1>4 DEF SlotsOf
<1> QED BY <1>1, <1>2, <1>3, <1>4, <1>5

(* A slot that is found tells its show, and its date.                      *)
LEMMA FoundFields ==
  ASSUME FindTypes, ask # None, NEW i \in DOMAIN found
  PROVE  /\ found[i] \in SlotsOf
         /\ found[i].show \in Shows /\ found[i] = SlotOf(found[i].show)
         /\ found[i].date \in Int
<1>1. site \in Sites /\ ask \in Ask /\ found[i] \in SlotsOf
  <2>1. site \in Sites /\ ask \in Ask /\ found \in Seq(SlotsOf)
    BY DEF FindTypes
  <2> QED BY <2>1
<1>2. PICK s \in Shows : found[i] = SlotOf(s)
  BY <1>1 DEF SlotsOf
<1>3. SlotOf(s).show = s /\ SlotOf(s).date \in Int
  BY <1>1, SlotFields DEF SlotOf
<1> QED BY <1>1, <1>2, <1>3

(* Dates that are asked for are a range of dates.                          *)
LEMMA RangeTypes ==
  ASSUME FindTypes, ask # None
  PROVE  resolveDateRange(ask.dateRange, ask.zone, now) \in [start : Int, end : Int]
<1>1. ask \in Ask /\ now \in Int /\ ask.zone \in Zone
  BY ZonesAreZones DEF FindTypes
<1>2. ask.dateRange \in [start : Int, end : Int] \/ ask.dateRange \in [rollingDays : Nat]
  BY <1>1, ListingConstants DEF Ask
<1>3. CASE ask.dateRange \in [start : Int, end : Int]
  BY <1>3 DEF resolveDateRange
<1>4. CASE ask.dateRange \in [rollingDays : Nat]
  <2>1. "rollingDays" \in DOMAIN ask.dateRange /\ ask.dateRange.rollingDays \in Int
    BY <1>4
  <2>2. Date(Wall(ask.zone, now)) \in Int
    BY <1>1, WallTypes, DayArithmetic
  <2> QED BY <2>1, <2>2 DEF resolveDateRange
<1> QED BY <1>2, <1>3, <1>4

(* The invariant at the start.                                             *)
LEMMA ListingInit == Init => FindInv /\ DirectoryInv
<1> SUFFICES ASSUME Init PROVE FindInv /\ DirectoryInv
  OBVIOUS
<1>1. site \in Sites
  <2>1. \E any \in Sites : TRUE
    <3>1. PICK zone \in TimeZones, show \in Given : TRUE
      BY ListingConstants
    <3>2. [zone |-> zone, shows |-> [s \in Shows |-> show], late |-> TRUE] \in Sites
      BY DEF Sites
    <3> QED BY <3>2
  <2> QED BY <2>1 DEF Init
<1>2. ask # None => ask \in Ask
  <2>1. ASSUME NEW provider \in {"amc", "resy"}, NEW dates \in Ranges, NEW window \in Windows, NEW want \in Wants,
               ask = [for |-> "scan", provider |-> provider, dateRange |-> dates, timeWindow |-> window,
                      tier |-> want.tier, item |-> want.item, zone |-> site.zone]
        PROVE  ask \in Ask /\ ask.zone = site.zone
    <3>1. want.tier \in Words \union {None} /\ want.item \in Films \union Words \union {None}
      BY ListingConstants
    <3>2. site.zone \in TimeZones
      BY <1>1 DEF Sites
    <3> QED BY <2>1, <3>1, <3>2 DEF Ask
  <2>2. ASSUME NEW provider \in {"amc", "resy"}, NEW dates \in Ranges, NEW window \in Windows \union {None},
               "start" \in DOMAIN dates, ask = syntheticWatch(provider, dates.start, window)
        PROVE  ask \in Ask /\ ask.for = "check"
    <3>1. dates.start \in Int
      <4>1. dates \in [start : Int, end : Int] \/ dates \in [rollingDays : Nat]
        BY ListingConstants
      <4>2. dates \in [rollingDays : Nat] => "start" \notin DOMAIN dates
        OBVIOUS
      <4> QED BY <2>2, <4>1, <4>2
    <3>2. (IF window = None THEN WholeDay ELSE window) \in Windows \union {WholeDay}
      OBVIOUS
    <3>3. ask = [for |-> "check", provider |-> provider, dateRange |-> [start |-> dates.start, end |-> dates.start],
                 timeWindow |-> IF window = None THEN WholeDay ELSE window, tier |-> None, item |-> None, zone |-> UTC]
      BY <2>2 DEF syntheticWatch
    <3> QED BY <3>1, <3>2, <3>3 DEF Ask
  <2> QED BY <2>1, <2>2 DEF Init
<1>3. ScanZone
  <2>1. ASSUME ask # None, ask.for = "scan" PROVE ask.zone = site.zone
    BY <2>1 DEF Init, syntheticWatch
  <2> QED BY <2>1 DEF ScanZone
<1>4. now \in Int
  <2>1. MaxNow \in Nat
    BY ListingConstants
  <2>2. 0 \in Int /\ MaxNow - 1 \in Int
    BY <2>1
  <2> QED BY <2>2 DEF Init
<1>5. found \in Seq(SlotsOf) /\ DOMAIN found = {}
  BY DEF Init
<1>6. FindTypes
  <2>1. /\ pc = "begin" /\ range = [start |-> 0, end |-> 0] /\ day = 0
        /\ found = <<>> /\ kept = {} /\ outcome = None
    BY DEF Init
  <2>2. range \in [start : Int, end : Int] /\ day \in Int /\ kept \subseteq {found[i] : i \in DOMAIN found}
    BY <2>1
  <2>3. outcome \in (ErrorClass \ {"schema-drift"}) \union {None} /\ (outcome # None <=> pc = "failed")
    BY <2>1
  <2> QED BY <1>1, <1>2, <1>4, <1>5, <2>1, <2>2, <2>3 DEF FindTypes
<1>7. AmcInv /\ ResyInv /\ AmcCovers /\ ResyCovers /\ KeptInv
  BY DEF Init, AmcInv, ResyInv, AmcCovers, ResyCovers, KeptInv
<1>8. ShowsDiffer
  BY <1>5 DEF ShowsDiffer
<1>9. DirectoryInv
  BY <1>4 DEF Init, DirectoryInv
<1> QED BY <1>3, <1>6, <1>7, <1>8, <1>9 DEF FindInv

(* Pages do not move, either.                                              *)
LEMMA PagesFrame ==
  ASSUME UNCHANGED <<site, ask>>, NEW s \in Shows, NEW d
  PROVE  OnPage(s, d)' <=> OnPage(s, d)
<1>1. parseShowtimesPage(d)' = parseShowtimesPage(d)
  BY DEF parseShowtimesPage, Page, LocalDate, LocalTime, extractBalancedJson
<1>2. Aligned(d, amcSlot(s))' <=> Aligned(d, amcSlot(s))
  BY DEF Aligned, Misaligned, matchesItem, amcTiers, withinWindow, Unwrapped, amcSlot, Slot, Parts
<1> QED BY <1>1, <1>2 DEF OnPage

(* A find that stands still keeps its invariant.                           *)
LEMMA StandsStill ==
  ASSUME FindInv, UNCHANGED <<site, ask, finding>>, now' \in Int, now' = now \/ pc # "kept"
  PROVE  FindInv'
<1>1. /\ pc' = pc /\ range' = range /\ day' = day /\ todo' = todo /\ found' = found /\ kept' = kept
      /\ outcome' = outcome
  BY DEF finding
<1>2. /\ SlotsOf' = SlotsOf
      /\ \A s \in Shows : amcSlot(s)' = amcSlot(s) /\ LocalDate(s)' = LocalDate(s)
                          /\ (extractBalancedJson(s)' <=> extractBalancedJson(s))
  BY SlotsFrame
<1>3. FindTypes'
  <2>1. Sites' = Sites /\ Ask' = Ask
    BY DEF Sites, Ask
  <2>2. FindTypes
    BY DEF FindInv
  <2> QED BY <1>1, <1>2, <2>1, <2>2 DEF FindTypes, AtAmc, AtResy
<1>4. AmcInv'
  BY <1>1, <1>2 DEF FindInv, AmcInv, AtAmc
<1>5. ResyInv'
  BY <1>1, <1>2 DEF FindInv, ResyInv, AtResy
<1>6. AmcCovers'
  <2>1. \A s \in Shows : OnPage(s, amcSlot(s).date)' <=> OnPage(s, amcSlot(s).date)
    BY <1>2, PagesFrame
  <2> QED BY <1>1, <1>2, <2>1 DEF FindInv, AmcCovers, AtAmc, Behind, FoundIt
<1>7. ResyCovers'
  BY <1>1, <1>2 DEF FindInv, ResyCovers, AtResy, isWithinDateRange, FoundIt
<1>8. KeptInv'
  BY <1>1 DEF FindInv, KeptInv, scanKeeps, scanTiers
<1>9. ShowsDiffer' /\ ScanZone'
  BY <1>1 DEF FindInv, ShowsDiffer, ScanZone
<1> QED BY <1>3, <1>4, <1>5, <1>6, <1>7, <1>8, <1>9 DEF FindInv

(* The first turn, and where it leads.                                     *)
LEMMA BeginKeeps ==
  ASSUME FindInv, Begin, UNCHANGED <<now, site, ask, looking>>
  PROVE  FindInv'
<1>1. FindTypes /\ ask # None /\ pc = "begin" /\ found = <<>> /\ kept = {} /\ outcome = None
  <2>1. FindTypes /\ ask # None /\ pc = "begin" /\ found = <<>>
    BY DEF FindInv, FindTypes, Begin
  <2> QED BY <2>1 DEF FindTypes
<1>2. found' = <<>> /\ kept' = {} /\ outcome' = None
  BY <1>1 DEF Begin
<1>3. range' \in [start : Int, end : Int]
  BY <1>1, RangeTypes DEF Begin
<1>4. \/ /\ ask.provider = "amc" /\ day' = range'.start
         /\ pc' = IF day' > range'.end THEN "done" ELSE "page"
      \/ ask.provider # "amc" /\ pc' = "calendar" /\ day' = day
  BY DEF Begin, Turn
<1>5. SlotsOf' = SlotsOf
  BY SlotsFrame
<1>6. FindTypes'
  <2>1. day' \in Int
    BY <1>1, <1>3, <1>4 DEF FindTypes
  <2>2. pc' \in {"done", "page", "calendar"} /\ (ask.provider = "amc" <=> pc' # "calendar")
    BY <1>4
  <2>3. found' \in Seq(SlotsOf)
    BY <1>2
  <2> QED BY <1>1, <1>2, <1>3, <1>5, <2>1, <2>2, <2>3 DEF FindTypes, AtAmc, AtResy, Sites, Ask
<1>7. DOMAIN found' = {}
  BY <1>2
<1>8. AmcInv' /\ ResyInv' /\ ResyCovers' /\ KeptInv' /\ ShowsDiffer'
  BY <1>2, <1>4, <1>7 DEF AmcInv, ResyInv, ResyCovers, KeptInv, ShowsDiffer, AtAmc, AtResy
<1>9. AmcCovers'
  <2>1. CASE ask.provider = "amc"
    <3>1. \A s \in Shows : amcSlot(s)'.date \in Int
      BY <1>1, SlotFields, SlotsFrame DEF FindTypes
    <3>2. \A s \in Shows : ~Behind(s, amcSlot(s).date)'
      BY <1>3, <1>4, <2>1, <3>1 DEF Behind
    <3>3. pc' \in {"done", "kept"} => range'.end < day'
      BY <1>3, <1>4, <2>1
    <3> QED BY <3>2, <3>3 DEF AmcCovers
  <2>2. CASE ask.provider # "amc"
    BY <2>2 DEF AmcCovers, AtAmc
  <2> QED BY <2>1, <2>2
<1>10. ScanZone'
  BY DEF FindInv, ScanZone
<1> QED BY <1>6, <1>8, <1>9, <1>10 DEF FindInv

(* A page is read: what is left to do of it is on it.                      *)
LEMMA FetchPageKeeps ==
  ASSUME FindInv, FetchPage, UNCHANGED <<now, site, ask, looking>>
  PROVE  FindInv'
<1>1. FindTypes /\ pc = "page" /\ AtAmc /\ day \in Int /\ range \in [start : Int, end : Int]
  BY DEF FindInv, FindTypes, FetchPage, AtAmc, AtResy
<1>2. UNCHANGED <<range, found, kept, outcome>>
  BY DEF FetchPage
<1>3. todo' = {s \in Shows : OnPage(s, day)}
  BY DEF FetchPage, OnPage, parseShowtimesPage, Page
<1>4. \/ todo' = {} /\ day' = day + 1 /\ pc' = IF day + 1 > range.end THEN "done" ELSE "page"
      \/ todo' # {} /\ pc' = "maps" /\ day' = day
  BY DEF FetchPage, Turn
<1>5. /\ SlotsOf' = SlotsOf
      /\ \A s \in Shows : amcSlot(s)' = amcSlot(s) /\ amcSlot(s).date \in Int
  BY <1>1, SlotsFrame, SlotFields DEF FindTypes, AtAmc
<1>6. \A i \in DOMAIN found : found[i].date \in Int /\ found[i].date < day
  BY <1>1, FoundFields DEF FindInv, AmcInv, AtAmc
<1>7. \A i \in DOMAIN found : found[i].show \in Shows /\ found[i].date = amcSlot(found[i].show).date
  BY <1>1, FoundFields DEF AtAmc, SlotOf
<1>8. \A s \in Shows : OnPage(s, day) => amcSlot(s).date = day
  BY DEF OnPage, Aligned
<1>9. FindTypes'
  <2>1. Sites' = Sites /\ Ask' = Ask
    BY DEF Sites, Ask
  <2>2. day' \in Int /\ pc' \in {"done", "page", "maps"}
    BY <1>1, <1>4
  <2> QED BY <1>1, <1>2, <1>5, <2>1, <2>2 DEF FindTypes, AtAmc, AtResy
<1>10. AmcInv'
  <2>1. pc' = "page" => \A i \in DOMAIN found' : found'[i].date < day'
    BY <1>1, <1>2, <1>4, <1>6
  <2>2. pc' = "maps" => \A s \in todo' : s \in Shows /\ amcSlot(s)'.date = day'
    BY <1>3, <1>4, <1>5, <1>8
  <2>3. pc' = "maps" => \A i \in DOMAIN found' : found'[i].date <= day' /\ found'[i].show \notin todo'
    <3>1. \A i \in DOMAIN found : found[i].date <= day /\ ~OnPage(found[i].show, day)
      BY <1>1, <1>6, <1>7, <1>8
    <3> QED BY <1>2, <1>3, <1>4, <3>1
  <2> QED BY <2>1, <2>2, <2>3 DEF AmcInv
<1>11. AmcCovers'
  <2>1. ASSUME NEW s \in Shows, site.shows[s].data = "whole", OnPage(s, amcSlot(s).date), Behind(s, amcSlot(s).date)'
        PROVE  FoundIt(s)'
    <3>1. Behind(s, amcSlot(s).date)
      <4>1. range.start <= amcSlot(s).date
        BY <1>2, <1>5, <2>1 DEF Behind
      <4>2. amcSlot(s).date < day' \/ (pc' = "maps" /\ amcSlot(s).date = day' /\ s \notin todo')
        BY <1>5, <2>1 DEF Behind
      <4>3. amcSlot(s).date < day \/ (amcSlot(s).date = day /\ s \notin todo')
        <5>1. CASE todo' = {} /\ day' = day + 1 /\ pc' # "maps"
          BY <1>1, <1>5, <4>2, <5>1
        <5>2. CASE day' = day
          BY <1>1, <1>5, <4>2, <5>2
        <5> QED BY <1>4, <5>1, <5>2
      <4> QED BY <1>3, <2>1, <4>1, <4>3 DEF Behind
    <3>2. FoundIt(s)
      BY <1>1, <2>1, <3>1 DEF FindInv, AmcCovers
    <3> QED BY <1>2, <3>2 DEF FoundIt
  <2>2. \A s \in Shows : OnPage(s, amcSlot(s).date)' <=> OnPage(s, amcSlot(s).date)
    BY <1>5, PagesFrame
  <2>3. pc' \in {"done", "kept"} => range'.end < day'
    BY <1>1, <1>2, <1>4
  <2> QED BY <2>1, <2>2, <2>3 DEF AmcCovers
<1>12. ResyInv' /\ ResyCovers' /\ KeptInv'
  BY <1>1, <1>4 DEF ResyInv, ResyCovers, KeptInv, AtAmc, AtResy
<1>13. ShowsDiffer' /\ ScanZone'
  BY <1>2 DEF FindInv, ShowsDiffer, ScanZone
<1> QED BY <1>9, <1>10, <1>11, <1>12, <1>13 DEF FindInv

(* A seat map comes, or is passed over.                                    *)
LEMMA FetchMapKeeps ==
  ASSUME FindInv, NEW s0 \in Shows, FetchMap(s0), UNCHANGED <<now, site, ask, looking>>
  PROVE  FindInv'
<1>1. /\ FindTypes /\ pc = "maps" /\ AtAmc /\ day \in Int /\ range \in [start : Int, end : Int]
      /\ s0 \in todo /\ found \in Seq(SlotsOf) /\ outcome = None
  BY DEF FindInv, FindTypes, FetchMap, AtAmc, AtResy
<1>2. Passed(fetchSeatMap(s0))
  BY DEF fetchSeatMap, Passed
<1>3. UNCHANGED <<range, kept, outcome>> /\ todo' = todo \ {s0}
  BY <1>2 DEF FetchMap
<1>4. \/ parseSeatingLayout(s0) /\ found' = Append(found, amcSlot(s0))
      \/ ~parseSeatingLayout(s0) /\ found' = found
  <2>1. None # "schema-drift"
    BY ListingConstants DEF ErrorClass
  <2> QED BY <1>2, <2>1 DEF FetchMap, fetchSeatMap
<1>5. \/ todo' = {} /\ day' = day + 1 /\ pc' = IF day + 1 > range.end THEN "done" ELSE "page"
      \/ todo' # {} /\ pc' = "maps" /\ day' = day
  BY <1>1, <1>2 DEF FetchMap, Turn
<1>6. /\ SlotsOf' = SlotsOf
      /\ \A s \in Shows : amcSlot(s)' = amcSlot(s) /\ amcSlot(s).date \in Int /\ amcSlot(s).show = s
  BY <1>1, SlotsFrame, SlotFields DEF FindTypes, AtAmc
<1>7. amcSlot(s0) \in SlotsOf
  BY <1>1 DEF SlotsOf, SlotOf, AtAmc
<1>8. /\ \A s \in todo : s \in Shows /\ amcSlot(s).date = day
      /\ \A i \in DOMAIN found : found[i].date \in Int /\ found[i].date <= day /\ found[i].show \notin todo
  BY <1>1, FoundFields DEF FindInv, AmcInv, AtAmc
<1>9. /\ found' \in Seq(SlotsOf) /\ DOMAIN found \subseteq DOMAIN found'
      /\ \A i \in DOMAIN found : found'[i] = found[i]
      /\ \A i \in DOMAIN found' : i \in DOMAIN found \/ (i = Len(found) + 1 /\ found'[i] = amcSlot(s0))
      /\ parseSeatingLayout(s0) => \E i \in DOMAIN found' : found'[i] = amcSlot(s0)
  <2>1. CASE found' = found /\ ~parseSeatingLayout(s0)
    BY <1>1, <2>1
  <2>2. CASE found' = Append(found, amcSlot(s0))
    <3>1. /\ Len(found) \in Nat /\ DOMAIN found = 1 .. Len(found) /\ DOMAIN found' = 1 .. Len(found) + 1
          /\ found' \in Seq(SlotsOf) /\ found'[Len(found) + 1] = amcSlot(s0)
          /\ \A i \in 1 .. Len(found) : found'[i] = found[i]
      BY <1>1, <1>7, <2>2
    <3> QED BY <3>1
  <2> QED BY <1>4, <2>1, <2>2
<1>10. FindTypes'
  <2>1. Sites' = Sites /\ Ask' = Ask
    BY DEF Sites, Ask
  <2>2. day' \in Int /\ pc' \in {"done", "page", "maps"}
    BY <1>1, <1>5
  <2>3. kept' \subseteq {found'[i] : i \in DOMAIN found'}
    <3>1. kept \subseteq {found[i] : i \in DOMAIN found}
      BY <1>1 DEF FindTypes
    <3> QED BY <1>3, <1>9, <3>1
  <2> QED BY <1>1, <1>3, <1>6, <1>9, <2>1, <2>2, <2>3 DEF FindTypes, AtAmc, AtResy
<1>11. AmcInv'
  <2>1. \A i \in DOMAIN found' : found'[i].date \in Int /\ found'[i].date <= day /\ found'[i].show \notin todo'
    <3> SUFFICES ASSUME NEW i \in DOMAIN found'
                 PROVE  found'[i].date \in Int /\ found'[i].date <= day /\ found'[i].show \notin todo'
      OBVIOUS
    <3>1. CASE i \in DOMAIN found
      BY <1>3, <1>8, <1>9, <3>1
    <3>2. CASE found'[i] = amcSlot(s0)
      BY <1>1, <1>3, <1>6, <1>8, <3>2
    <3> QED BY <1>9, <3>1, <3>2
  <2>2. pc' = "page" => day' = day + 1
    BY <1>5
  <2>3. pc' = "page" => \A i \in DOMAIN found' : found'[i].date < day'
    BY <1>1, <2>1, <2>2
  <2>4. pc' = "maps" => /\ \A s \in todo' : s \in Shows /\ amcSlot(s)'.date = day'
                        /\ \A i \in DOMAIN found' : found'[i].date <= day' /\ found'[i].show \notin todo'
    BY <1>3, <1>5, <1>6, <1>8, <2>1
  <2> QED BY <2>3, <2>4 DEF AmcInv
<1>12. ShowsDiffer'
  <2> SUFFICES ASSUME NEW i \in DOMAIN found', NEW j \in DOMAIN found', i # j
               PROVE  found'[i].show # found'[j].show
    BY DEF ShowsDiffer
  <2>1. CASE i \in DOMAIN found /\ j \in DOMAIN found
    BY <1>9, <2>1 DEF FindInv, ShowsDiffer
  <2>2. ASSUME NEW k \in DOMAIN found PROVE found'[k].show # s0
    BY <1>1, <1>8, <1>9
  <2>3. amcSlot(s0).show = s0
    BY <1>6
  <2> QED BY <1>9, <2>1, <2>2, <2>3
<1>13. AmcCovers'
  <2>1. ASSUME NEW s \in Shows, site.shows[s].data = "whole", OnPage(s, amcSlot(s).date), Behind(s, amcSlot(s).date)'
        PROVE  FoundIt(s)'
    <3>1. range.start <= amcSlot(s).date
      BY <1>3, <1>6, <2>1 DEF Behind
    <3>2. amcSlot(s).date < day \/ (amcSlot(s).date = day /\ s \notin todo')
      <4>1. amcSlot(s).date < day' \/ (pc' = "maps" /\ amcSlot(s).date = day' /\ s \notin todo')
        BY <1>6, <2>1 DEF Behind
      <4>2. CASE todo' = {} /\ day' = day + 1 /\ pc' # "maps"
        BY <1>1, <1>6, <4>1, <4>2
      <4>3. CASE day' = day
        BY <1>1, <1>6, <4>1, <4>3
      <4> QED BY <1>5, <4>2, <4>3
    <3>3. CASE s = s0
      <4>1. parseSeatingLayout(s0)
        BY <2>1, <3>3 DEF parseSeatingLayout
      <4> QED BY <1>6, <1>9, <3>3, <4>1 DEF FoundIt
    <3>4. CASE s # s0
      <4>1. Behind(s, amcSlot(s).date)
        BY <1>1, <1>3, <3>1, <3>2, <3>4 DEF Behind
      <4>2. FoundIt(s)
        BY <1>1, <2>1, <4>1 DEF FindInv, AmcCovers
      <4> QED BY <1>9, <4>2 DEF FoundIt
    <3> QED BY <3>3, <3>4
  <2>2. \A s \in Shows : OnPage(s, amcSlot(s).date)' <=> OnPage(s, amcSlot(s).date)
    BY <1>6, PagesFrame
  <2>3. pc' \in {"done", "kept"} => range'.end < day'
    BY <1>1, <1>3, <1>5
  <2> QED BY <2>1, <2>2, <2>3 DEF AmcCovers
<1>14. ResyInv' /\ ResyCovers' /\ KeptInv' /\ ScanZone'
  BY <1>1, <1>5 DEF FindInv, ResyInv, ResyCovers, KeptInv, AtAmc, AtResy, ScanZone
<1> QED BY <1>10, <1>11, <1>12, <1>13, <1>14 DEF FindInv

(* The calendar is read: the days that have something.                     *)
LEMMA CalendarKeeps ==
  ASSUME FindInv, Calendar, UNCHANGED <<now, site, ask, looking>>
  PROVE  FindInv'
<1>1. FindTypes /\ pc = "calendar" /\ AtResy /\ found = <<>> /\ DOMAIN found = {}
  BY DEF FindInv, FindTypes, Calendar, AtAmc, AtResy, ResyInv
<1>2. /\ todo' = {d \in {LocalDate(s) : s \in Shows} : isWithinDateRange(d, range)}
      /\ pc' = (IF todo' = {} THEN "done" ELSE "day")
      /\ UNCHANGED <<range, day, found, kept, outcome>>
  BY DEF Calendar
<1>3. /\ SlotsOf' = SlotsOf
      /\ \A s \in Shows : LocalDate(s)' = LocalDate(s)
  BY SlotsFrame
<1>4. FindTypes'
  <2>1. Sites' = Sites /\ Ask' = Ask
    BY DEF Sites, Ask
  <2>2. pc' \in {"done", "day"}
    BY <1>2
  <2> QED BY <1>1, <1>2, <1>3, <2>1, <2>2 DEF FindTypes, AtAmc, AtResy
<1>5. ResyInv'
  BY <1>1, <1>2, <1>3 DEF ResyInv
<1>6. ResyCovers'
  <2>1. ASSUME NEW s \in Shows, isWithinDateRange(LocalDate(s), range)', LocalDate(s)' \notin todo'
        PROVE  FALSE
    BY <1>2, <1>3, <2>1 DEF isWithinDateRange
  <2>2. pc' \in {"done", "kept"} => todo' = {}
    BY <1>2
  <2> QED BY <2>1, <2>2 DEF ResyCovers
<1>7. AmcInv' /\ AmcCovers' /\ KeptInv' /\ ShowsDiffer' /\ ScanZone'
  BY <1>1, <1>2 DEF FindInv, AmcInv, AmcCovers, KeptInv, ShowsDiffer, ScanZone, AtAmc, AtResy
<1> QED BY <1>4, <1>5, <1>6, <1>7 DEF FindInv

(* A day is read: all that it has is appended.                             *)
LEMMA FindDayKeeps ==
  ASSUME FindInv, NEW d \in todo, findDay(d), UNCHANGED <<now, site, ask, looking>>
  PROVE  FindInv'
<1> DEFINE more == SetToSeq(TablesOf(d))
<1>0. found \in Seq(SlotsOf)
  BY DEF FindInv, FindTypes
<1>1. /\ FindTypes /\ pc \in {"day", "day by post"} /\ AtResy /\ found \in Seq(SlotsOf)
      /\ todo \subseteq {LocalDate(s) : s \in Shows} /\ site \in Sites /\ ask \in Ask
  BY DEF FindInv, FindTypes, findDay, AtAmc, AtResy, ResyInv
<1>2. /\ \A e \in todo : d <= e
      /\ found' = found \o more /\ todo' = todo \ {d}
      /\ pc' = (IF todo' = {} THEN "done" ELSE "day")
      /\ UNCHANGED <<range, day, kept, outcome>>
  BY DEF findDay, TablesOf
<1>3. /\ SlotsOf' = SlotsOf
      /\ \A s \in Shows : /\ LocalDate(s)' = LocalDate(s)
                          /\ (extractBalancedJson(s)' <=> extractBalancedJson(s))
  BY SlotsFrame
<1>4. \A s \in Shows : /\ LocalDate(s) \in Int /\ mapSlot(s).date = LocalDate(s)
                       /\ mapSlot(s).show = s /\ mapSlot(s) = SlotOf(s)
  BY <1>1, SlotFields DEF AtResy, SlotOf
<1>5. /\ \A t \in TablesOf(d) : t \in SlotsOf /\ t.show \in Shows /\ t.date = d /\ t = mapSlot(t.show)
      /\ d \in Int /\ \A e \in todo : e \in Int
  BY <1>1, <1>4 DEF TablesOf, SlotsOf
<1>6. more \in Seq(TablesOf(d)) /\ IsInjective(more) /\ \A t \in TablesOf(d) : \E i \in DOMAIN more : more[i] = t
  BY TablesAreListed
<1> HIDE DEF more
<1>7. /\ found' \in Seq(SlotsOf) /\ DOMAIN found \subseteq DOMAIN found'
      /\ \A i \in DOMAIN found : found'[i] = found[i]
      /\ \A i \in DOMAIN found' : i \in DOMAIN found \/ (i - Len(found) \in DOMAIN more /\ found'[i] = more[i - Len(found)])
      /\ \A k \in DOMAIN more : Len(found) + k \in DOMAIN found' /\ found'[Len(found) + k] = more[k]
  <2>1. /\ Len(found) \in Nat /\ DOMAIN found = 1 .. Len(found) /\ Len(more) \in Nat /\ DOMAIN more = 1 .. Len(more)
        /\ more \in Seq(SlotsOf)
    <3> DEFINE T == TablesOf(d)
    <3>4. more \in Seq(T)
      BY <1>6
    <3> HIDE DEF T
    <3>5. Len(more) \in Nat /\ DOMAIN more = 1 .. Len(more) /\ more \in [1 .. Len(more) -> T]
      BY <3>4
    <3>6. Len(found) \in Nat /\ DOMAIN found = 1 .. Len(found)
      BY <1>0
    <3>1. /\ Len(found) \in Nat /\ DOMAIN found = 1 .. Len(found) /\ Len(more) \in Nat
          /\ DOMAIN more = 1 .. Len(more) /\ more \in [1 .. Len(more) -> TablesOf(d)]
      BY <3>5, <3>6 DEF T
    <3>2. more \in [1 .. Len(more) -> SlotsOf]
      BY <1>5, <3>1
    <3>3. more \in Seq(SlotsOf)
      BY <3>1, <3>2
    <3> QED BY <3>1, <3>3
  <2>2. /\ found \o more \in Seq(SlotsOf) /\ DOMAIN (found \o more) = 1 .. (Len(found) + Len(more))
        /\ \A i \in 1 .. Len(found) : (found \o more)[i] = found[i]
        /\ \A k \in 1 .. Len(more) : (found \o more)[Len(found) + k] = more[k]
    <3>1. /\ found \o more \in Seq(SlotsOf) /\ Len(found \o more) = Len(found) + Len(more)
          /\ \A i \in 1 .. Len(found) + Len(more) :
               (found \o more)[i] = IF i <= Len(found) THEN found[i] ELSE more[i - Len(found)]
      BY <1>1, <2>1, ConcatProperties
    <3>2. DOMAIN (found \o more) = 1 .. (Len(found) + Len(more))
      BY <3>1
    <3>3. \A i \in 1 .. Len(found) : (found \o more)[i] = found[i]
      BY <2>1, <3>1
    <3>4. ASSUME NEW k \in 1 .. Len(more) PROVE (found \o more)[Len(found) + k] = more[k]
      <4>1. Len(found) + k \in 1 .. Len(found) + Len(more) /\ ~(Len(found) + k <= Len(found)) /\ Len(found) + k - Len(found) = k
        BY <2>1
      <4> QED BY <3>1, <4>1
    <3> QED BY <3>1, <3>2, <3>3, <3>4
  <2>3. \A i \in 1 .. (Len(found) + Len(more)) : i \in 1 .. Len(found) \/ (i - Len(found) \in 1 .. Len(more) /\ i = Len(found) + (i - Len(found)))
    BY <2>1
  <2>4. \A i \in 1 .. Len(found) : i \in 1 .. (Len(found) + Len(more))
    BY <2>1
  <2>5. \A k \in 1 .. Len(more) : Len(found) + k \in 1 .. (Len(found) + Len(more))
    BY <2>1
  <2>6. \A i \in DOMAIN found' : i \in DOMAIN found \/ (i - Len(found) \in DOMAIN more /\ found'[i] = more[i - Len(found)])
    <3> SUFFICES ASSUME NEW i \in DOMAIN found', i \notin DOMAIN found
                 PROVE  i - Len(found) \in DOMAIN more /\ found'[i] = more[i - Len(found)]
      OBVIOUS
    <3>1. i - Len(found) \in 1 .. Len(more) /\ i = Len(found) + (i - Len(found))
      BY <1>2, <2>1, <2>2, <2>3
    <3> QED BY <1>2, <2>1, <2>2, <3>1
  <2> QED BY <1>2, <2>1, <2>2, <2>4, <2>5, <2>6
<1>8. \A i \in DOMAIN found : /\ found[i].date \in Int /\ found[i].date < d
                              /\ \A e \in todo : found[i].date < e
  BY <1>1, FoundFields DEF FindInv, ResyInv, AtResy
<1>9. \A k \in DOMAIN more : more[k] \in TablesOf(d)
  BY <1>6
<1>10. FindTypes'
  <2>1. Sites' = Sites /\ Ask' = Ask
    BY DEF Sites, Ask
  <2>2. pc' \in {"done", "day"}
    BY <1>2
  <2>3. kept' \subseteq {found'[i] : i \in DOMAIN found'}
    <3>1. kept \subseteq {found[i] : i \in DOMAIN found}
      BY <1>1 DEF FindTypes
    <3> QED BY <1>2, <1>7, <3>1
  <2> QED BY <1>1, <1>2, <1>3, <1>7, <2>1, <2>2, <2>3 DEF FindTypes, AtAmc, AtResy
<1>11. ResyInv'
  <2>1. ASSUME NEW i \in DOMAIN found', NEW e \in todo' PROVE found'[i].date < e
    <3>1. e \in todo /\ e # d /\ d <= e /\ e \in Int /\ d < e
      BY <1>2, <1>5, <2>1
    <3>2. CASE i \in DOMAIN found
      BY <1>7, <1>8, <3>1, <3>2
    <3>3. CASE i - Len(found) \in DOMAIN more /\ found'[i] = more[i - Len(found)]
      BY <1>5, <1>9, <3>1, <3>3
    <3> QED BY <1>7, <3>2, <3>3
  <2>2. todo' \subseteq {LocalDate(s)' : s \in Shows}
    BY <1>1, <1>2, <1>3
  <2>3. pc' # "calendar"
    BY <1>2
  <2> QED BY <2>1, <2>2, <2>3 DEF ResyInv
<1>12. ShowsDiffer'
  <2> SUFFICES ASSUME NEW i \in DOMAIN found', NEW j \in DOMAIN found', i # j, found'[i].show = found'[j].show
               PROVE  FALSE
    BY DEF ShowsDiffer
  <2>1. \A k \in DOMAIN found : found[k].date = LocalDate(found[k].show) /\ found[k].show \in Shows
    BY <1>1, <1>4, FoundFields DEF AtResy
  <2>2. \A k \in DOMAIN more : more[k].date = d /\ more[k] = mapSlot(more[k].show) /\ LocalDate(more[k].show) = d
    BY <1>4, <1>5, <1>9
  <2>3. CASE i \in DOMAIN found /\ j \in DOMAIN found
    BY <1>7, <2>3 DEF FindInv, ShowsDiffer
  <2>4. ASSUME NEW k \in DOMAIN found, NEW m \in DOMAIN more PROVE found[k].show # more[m].show
    <3>1. LocalDate(found[k].show) < d /\ LocalDate(more[m].show) = d /\ LocalDate(found[k].show) \in Int
      BY <1>8, <2>1, <2>2
    <3> QED BY <1>5, <3>1
  <2>5. CASE i \in DOMAIN found /\ j \notin DOMAIN found
    BY <1>7, <2>4, <2>5
  <2>6. CASE i \notin DOMAIN found /\ j \in DOMAIN found
    BY <1>7, <2>4, <2>6
  <2>7. CASE i \notin DOMAIN found /\ j \notin DOMAIN found
    <3>1. /\ i - Len(found) \in DOMAIN more /\ found'[i] = more[i - Len(found)]
          /\ j - Len(found) \in DOMAIN more /\ found'[j] = more[j - Len(found)]
      BY <1>7, <2>7
    <3>2. more[i - Len(found)] = more[j - Len(found)]
      BY <2>2, <3>1
    <3>3. i - Len(found) = j - Len(found)
      BY <1>6, <3>1, <3>2 DEF IsInjective
    <3>4. i \in Int /\ j \in Int /\ Len(found) \in Int
      <4>1. found' \in Seq(SlotsOf)
        BY <1>7
      <4>2. DOMAIN found' = 1 .. Len(found') /\ Len(found') \in Nat
        BY <4>1
      <4>3. Len(found) \in Nat
        BY <1>0
      <4>4. i \in 1 .. Len(found') /\ j \in 1 .. Len(found')
        BY <4>2
      <4> QED BY <4>2, <4>3, <4>4
    <3> QED BY <3>3, <3>4
  <2> QED BY <2>3, <2>5, <2>6, <2>7
<1>13. ResyCovers'
  <2>1. ASSUME NEW s \in Shows, extractBalancedJson(s), isWithinDateRange(LocalDate(s), range), LocalDate(s) \notin todo'
        PROVE  FoundIt(s)'
    <3>1. CASE LocalDate(s) \notin todo
      <4>1. FoundIt(s)
        BY <1>1, <2>1, <3>1 DEF FindInv, ResyCovers
      <4> QED BY <1>7, <4>1 DEF FoundIt
    <3>2. CASE LocalDate(s) = d
      <4>1. mapSlot(s) \in TablesOf(d)
        BY <2>1, <3>2 DEF TablesOf
      <4>2. PICK k \in DOMAIN more : more[k] = mapSlot(s)
        BY <1>6, <4>1
      <4> QED BY <1>4, <1>7, <4>2 DEF FoundIt
    <3> QED BY <1>2, <2>1, <3>1, <3>2
  <2>2. \A s \in Shows : isWithinDateRange(LocalDate(s), range)' <=> isWithinDateRange(LocalDate(s), range)
    BY <1>2, <1>3 DEF isWithinDateRange
  <2>3. pc' \in {"done", "kept"} => todo' = {}
    BY <1>2
  <2> QED BY <1>3, <2>1, <2>2, <2>3 DEF ResyCovers
<1>14. AmcInv' /\ AmcCovers' /\ KeptInv' /\ ScanZone'
  BY <1>1, <1>2 DEF FindInv, AmcInv, AmcCovers, KeptInv, ScanZone, AtAmc, AtResy
<1> QED BY <1>10, <1>11, <1>12, <1>13, <1>14 DEF FindInv

(* A refusal ends the find, or sends the request of a day again.           *)
LEMMA RefusedKeeps ==
  ASSUME FindInv, NEW status \in Statuses, Refused(status), UNCHANGED <<now, site, ask, looking>>
  PROVE  FindInv'
<1>1. FindTypes /\ pc \in {"page", "maps", "calendar", "day", "day by post"} /\ ask # None
  BY DEF FindInv, FindTypes, Refused
<1>2. \/ pc = "day" /\ pc' = "day by post" /\ outcome' = outcome
      \/ pc' = "failed" /\ outcome' \in ErrorClass \ {"schema-drift"}
  BY DEF Refused, classifyStatus, ErrorClass
<1>3. UNCHANGED <<range, day, todo, found, kept>>
  BY DEF Refused
<1>4. /\ SlotsOf' = SlotsOf
      /\ \A s \in Shows : /\ LocalDate(s)' = LocalDate(s)
                          /\ (extractBalancedJson(s)' <=> extractBalancedJson(s))
  BY SlotsFrame
<1>5. None \notin ErrorClass
  BY ListingConstants
<1>6. FindTypes'
  <2>1. Sites' = Sites /\ Ask' = Ask
    BY DEF Sites, Ask
  <2>2. outcome' \in (ErrorClass \ {"schema-drift"}) \union {None} /\ (outcome' # None <=> pc' = "failed")
    BY <1>1, <1>2, <1>5 DEF FindTypes
  <2> QED BY <1>1, <1>2, <1>3, <1>4, <2>1, <2>2 DEF FindTypes, AtAmc, AtResy
<1>7. AmcInv' /\ AmcCovers' /\ KeptInv'
  BY <1>1, <1>2 DEF AmcInv, AmcCovers, KeptInv, AtAmc, AtResy, FindTypes
<1>8. ResyInv'
  BY <1>2, <1>3, <1>4 DEF FindInv, ResyInv, AtResy
<1>9. ResyCovers'
  BY <1>2, <1>3, <1>4 DEF FindInv, ResyCovers, AtResy, isWithinDateRange, FoundIt
<1>10. ShowsDiffer' /\ ScanZone'
  BY <1>3 DEF FindInv, ShowsDiffer, ScanZone
<1> QED BY <1>6, <1>7, <1>8, <1>9, <1>10 DEF FindInv

(* The service keeps of what is found what it asked for.                   *)
LEMMA FilterKeeps ==
  ASSUME FindInv, Filter, UNCHANGED <<now, site, ask, looking>>
  PROVE  FindInv'
<1>1. FindTypes /\ pc = "done" /\ pc' = "kept" /\ ask # None
  BY DEF FindInv, FindTypes, Filter
<1>2. UNCHANGED <<range, day, todo, found, outcome>>
  BY DEF Filter
<1>3. /\ SlotsOf' = SlotsOf
      /\ \A s \in Shows : /\ LocalDate(s)' = LocalDate(s) /\ amcSlot(s)' = amcSlot(s)
                          /\ (extractBalancedJson(s)' <=> extractBalancedJson(s))
  BY SlotsFrame
<1>4. FindTypes'
  <2>1. Sites' = Sites /\ Ask' = Ask
    BY DEF Sites, Ask
  <2>2. kept' \subseteq {found'[i] : i \in DOMAIN found'}
    BY <1>2 DEF Filter
  <2> QED BY <1>1, <1>2, <1>3, <2>1, <2>2 DEF FindTypes, AtAmc, AtResy
<1>5. AmcInv' /\ ResyInv'
  BY <1>1 DEF AmcInv, ResyInv
<1>6. AmcCovers'
  <2>1. \A s \in Shows : OnPage(s, amcSlot(s).date)' <=> OnPage(s, amcSlot(s).date)
    BY <1>3, PagesFrame
  <2> QED BY <1>1, <1>2, <1>3, <2>1 DEF FindInv, AmcCovers, AtAmc, Behind, FoundIt
<1>7. ResyCovers'
  BY <1>1, <1>2, <1>3 DEF FindInv, ResyCovers, AtResy, isWithinDateRange, FoundIt
<1>8. KeptInv'
  <2> SUFFICES ASSUME ask.for = "scan"
               PROVE  kept' = {slot \in {found'[i] : i \in DOMAIN found'} : scanKeeps(slot)'}
    BY DEF KeptInv
  <2>1. kept' = {slot \in {found[i] : i \in DOMAIN found} : scanKeeps(slot)}
    BY DEF Filter
  <2>2. \A slot : scanKeeps(slot)' <=> scanKeeps(slot)
    BY DEF scanKeeps, scanTiers
  <2> QED BY <1>2, <2>1, <2>2
<1>9. ShowsDiffer' /\ ScanZone'
  BY <1>2 DEF FindInv, ShowsDiffer, ScanZone
<1> QED BY <1>4, <1>5, <1>6, <1>7, <1>8, <1>9 DEF FindInv

(* Every step of a find, and of what goes on beside it, keeps FindInv.     *)
LEMMA FindStep == FindInv /\ DirectoryInv /\ [Next]_vars => FindInv'
<1> SUFFICES ASSUME FindInv, DirectoryInv, [Next]_vars
             PROVE  FindInv'
  OBVIOUS
<1>1. now \in Int
  BY DEF DirectoryInv
<1>2. CASE Tick
  <2>1. UNCHANGED <<site, ask, finding>> /\ now' \in Int /\ pc # "kept"
    BY <1>1, <1>2 DEF Tick
  <2> QED BY <2>1, StandsStill
<1>3. CASE find /\ UNCHANGED <<now, site, ask, looking>>
  BY <1>3, BeginKeeps, FetchPageKeeps, CalendarKeeps, FilterKeeps, FetchMapKeeps, FindDayKeeps, RefusedKeeps
     DEF find
<1>4. CASE UNCHANGED <<now, site, ask, finding>>
  BY <1>1, <1>4, StandsStill
<1>5. CASE UNCHANGED vars
  BY <1>4, <1>5 DEF vars
<1> QED BY <1>2, <1>3, <1>4, <1>5 DEF Next

(* So does every step of a lookup keep DirectoryInv.                       *)
LEMMA DirectoryStep == DirectoryInv /\ [Next]_vars => DirectoryInv'
<1> SUFFICES ASSUME DirectoryInv, [Next]_vars
             PROVE  DirectoryInv'
  OBVIOUS
<1>1. SITEMAP_TTL \in Nat \ {0} /\ MaxNow \in Nat
  BY ListingConstants
<1>2. CASE Tick
  <2>1. now \in Int /\ now' = now + 1 /\ sitemap' = sitemap /\ lookups' = lookups
    BY <1>2 DEF Tick, looking, DirectoryInv
  <2>2. \A c \in Clients : lookups[c].at \in Int /\ (lookups[c].at <= now => lookups[c].at <= now')
    BY <2>1 DEF DirectoryInv
  <2> QED BY <2>1, <2>2 DEF DirectoryInv
<1>3. ASSUME NEW d \in Clients, NEW state, NEW at \in Int, NEW asOf \in Int, To(d, state, at, asOf), now' = now,
             state = "sent" => at <= now, state = "answered" => at <= asOf,
             state = "served" => at - asOf < SITEMAP_TTL,
             sitemap' # None => sitemap'.fetchedAt \in Int /\ sitemap'.asOf \in Int /\ sitemap'.fetchedAt <= sitemap'.asOf
      PROVE  DirectoryInv'
  <2>1. ASSUME NEW c \in Clients
        PROVE  /\ lookups'[c].at \in Int /\ lookups'[c].asOf \in Int
               /\ lookups'[c].state = "sent" => lookups'[c].at <= now'
               /\ lookups'[c].state = "answered" => lookups'[c].at <= lookups'[c].asOf
               /\ lookups'[c].state = "served" => lookups'[c].at - lookups'[c].asOf < SITEMAP_TTL
    <3>1. CASE lookups'[c] = lookups[c]
      BY <1>3, <3>1 DEF DirectoryInv
    <3>2. CASE lookups'[c] = [state |-> state, at |-> at, asOf |-> asOf]
      BY <1>3, <3>2
    <3> QED BY <1>3, <3>1, <3>2 DEF To
  <2> QED BY <1>3, <2>1 DEF DirectoryInv
<1>4. ASSUME NEW c \in Clients, look(c), UNCHANGED <<now, site, ask, finding>>
      PROVE  DirectoryInv'
  <2>1. /\ now' = now /\ now \in Int /\ lookups[c].at \in Int /\ lookups[c].asOf \in Int
        /\ sitemap # None => sitemap.fetchedAt \in Int /\ sitemap.asOf \in Int /\ sitemap.fetchedAt <= sitemap.asOf
    BY <1>4 DEF DirectoryInv
  <2>2. CASE Lookup(c)
    <3>1. CASE sitemap # None /\ now - sitemap.fetchedAt < SITEMAP_TTL
      <4>1. To(c, "served", now, sitemap.asOf) /\ sitemap' = sitemap
        BY <2>2, <3>1 DEF Lookup
      <4>2. sitemap.asOf \in Int /\ now - sitemap.asOf < SITEMAP_TTL
        BY <1>1, <2>1, <3>1
      <4> QED BY <1>3, <2>1, <4>1, <4>2
    <3>2. CASE ~(sitemap # None /\ now - sitemap.fetchedAt < SITEMAP_TTL)
      <4>1. To(c, "sent", now, 0) /\ sitemap' = sitemap
        BY <2>2, <3>2 DEF Lookup
      <4> QED BY <1>3, <2>1, <4>1
    <3> QED BY <3>1, <3>2
  <2>3. ASSUME NEW state \in {"answered", "refused"}, SiteAnswers(c, state)
        PROVE  DirectoryInv'
    <3>1. To(c, state, lookups[c].at, now) /\ sitemap' = sitemap /\ lookups[c].at <= now
      BY <2>3 DEF SiteAnswers, DirectoryInv
    <3> QED BY <1>3, <2>1, <3>1
  <2>4. CASE Land(c)
    <3>1. /\ To(c, "idle", 0, 0) /\ sitemap' = [asOf |-> lookups[c].asOf, fetchedAt |-> lookups[c].at]
          /\ lookups[c].at <= lookups[c].asOf
      BY <2>4 DEF Land, FetchedAt, DirectoryInv
    <3> QED BY <1>3, <2>1, <3>1
  <2> QED BY <1>4, <2>2, <2>3, <2>4 DEF look
<1>5. CASE UNCHANGED <<now, looking>>
  BY <1>5 DEF DirectoryInv, looking
<1> QED BY <1>2, <1>4, <1>5 DEF Next, vars

LEMMA ListingInvariant == Spec => [](FindInv /\ DirectoryInv)
<1>1. Init => FindInv /\ DirectoryInv
  BY ListingInit
<1>2. FindInv /\ DirectoryInv /\ [Next]_vars => (FindInv /\ DirectoryInv)'
  BY FindStep, DirectoryStep
<1> QED BY <1>1, <1>2, PTL DEF Spec

(* All that is found tells what it is.                                     *)
LEMMA FoundKeys ==
  ASSUME FindInv, NEW i \in DOMAIN found
  PROVE  /\ found[i].show \in Shows /\ found[i].start \in 0 .. DayLength - 1
         /\ found[i].key = formatDedupeKey(Parts(found[i].show, found[i].date, found[i].start))
         /\ site \in Sites /\ ask \in Ask /\ found[i] = SlotOf(found[i].show)
<1>1. FindTypes /\ ask # None
  <2>1. pc # "begin"
    <3>1. ASSUME found = <<>> PROVE FALSE
      BY <3>1
    <3> QED BY <3>1 DEF FindInv, FindTypes
  <2> QED BY <2>1 DEF FindInv, FindTypes
<1>2. site \in Sites /\ ask \in Ask /\ found[i].show \in Shows /\ found[i] = SlotOf(found[i].show)
  BY <1>1, FoundFields DEF FindTypes
<1> QED BY <1>2, SlotFields DEF SlotOf

(* One find tells an opening once: the find of a provider goes through     *)
(* dates in order, and tells at each only of shows that are on it, so no   *)
(* show is told twice, and a key ends in the id of its show.               *)
THEOREM OpeningsFoundOnce == Spec => []FoundOnce
<1>1. ASSUME FindInv PROVE FoundOnce
  <2> SUFFICES ASSUME NEW i \in DOMAIN found, NEW j \in DOMAIN found, found[i].key = found[j].key
               PROVE  i = j
    BY DEF FoundOnce
  <2>1. ASSUME NEW k \in DOMAIN found
        PROVE  found[k].key[Len(found[k].key)] = found[k].show
    <3>1. found[k].key = formatDedupeKey(Parts(found[k].show, found[k].date, found[k].start)) /\ ask \in Ask
      BY <1>1, FoundKeys
    <3> QED BY <3>1, KeyEndsInShow
  <2>2. found[i].show = found[j].show
    BY <2>1
  <2> QED BY <1>1, <2>2 DEF FindInv, ShowsDiffer
<1> QED BY <1>1, ListingInvariant, PTL

(* A wall clock time that is shown once is led back to its instant.        *)
LEMMA InstantIsRecovered ==
  ASSUME NEW zone \in Zone, zone.after - zone.before \in -DayLength .. DayLength, NEW t \in Int,
         \A u \in t - DayLength .. t + DayLength : Wall(zone, u) = Wall(zone, t) => u = t
  PROVE  zonedWallTimeToInstant(Date(Wall(zone, t)), Time(Wall(zone, t)), zone) = t
<1> DEFINE wall == Wall(zone, t)
<1> DEFINE guess == wall - offsetAt(zone, wall)
<1> DEFINE told == wall - offsetAt(zone, guess)
<1>1. DayLength \in Nat \ {0}
  BY ListingConstants
<1>2. wall \in Int /\ Date(wall) * DayLength + Time(wall) = wall
  BY WallTypes, DayArithmetic
<1>3. zonedWallTimeToInstant(Date(wall), Time(wall), zone) = told
  BY <1>2 DEF zonedWallTimeToInstant
<1>4. /\ zone.before \in Int /\ zone.after \in Int /\ zone.at \in Int
      /\ wall = t + offsetAt(zone, t)
  BY DEF Zone, Wall
<1>5. \A u : offsetAt(zone, u) \in {zone.before, zone.after}
  BY DEF offsetAt
<1> DEFINE here == offsetAt(zone, t)
<1> DEFINE there == offsetAt(zone, guess)
<1>6. /\ here \in Int /\ there \in Int /\ offsetAt(zone, wall) \in Int /\ offsetAt(zone, told) \in Int
      /\ here - there \in -DayLength .. DayLength
  BY <1>1, <1>4, <1>5
<1>7. told \in t - DayLength .. t + DayLength
  BY <1>1, <1>4, <1>6
<1>8. CASE here = there
  BY <1>3, <1>4, <1>6, <1>8
<1>9. CASE here # there
  <2>1. guess # t
    BY <1>9
  <2>2. offsetAt(zone, wall) # here
    BY <1>4, <1>6, <2>1
  <2>3. offsetAt(zone, wall) = there
    BY <1>5, <1>9, <2>2
  <2>4. told = guess
    BY <2>3
  <2>5. Wall(zone, told) = wall
    <3>1. offsetAt(zone, told) = there /\ Wall(zone, told) = told + offsetAt(zone, told)
      BY <2>4 DEF Wall
    <3> QED BY <1>2, <1>6, <3>1
  <2>6. told = t
    BY <1>7, <2>5
  <2> QED BY <1>3, <2>6
<1> QED BY <1>3, <1>8, <1>9

(* What is made of an opening can be read back: its type, the instant that *)
(* the drop log computes from its date and time, and the parts of its key. *)
THEOREM ReadingBack == Spec => []SlotsAreReadBack
<1>1. ASSUME FindInv PROVE TypeOK
  <2>1. site.shows \in [Shows -> Show] /\ (ask # None => ask \in Ask)
    BY <1>1, ListingConstants DEF FindInv, FindTypes, Sites
  <2>2. ASSUME NEW i \in DOMAIN found
        PROVE  /\ found[i].show \in Shows /\ found[i].start \in WholeDay.start .. WholeDay.end
               /\ Len(found[i].key) > 5
    <3>1. /\ found[i].show \in Shows /\ found[i].start \in 0 .. DayLength - 1 /\ ask \in Ask
          /\ found[i].key = formatDedupeKey(Parts(found[i].show, found[i].date, found[i].start))
      BY <1>1, FoundKeys
    <3>0. ask \in Ask
      BY <3>1
    <3>2. Len(formatDedupeKey(Parts(found[i].show, found[i].date, found[i].start))) > 5
      BY <3>0, KeyEndsInShow
    <3>3. Len(found[i].key) > 5
      BY <3>1, <3>2
    <3> QED BY <3>1, <3>3 DEF WholeDay
  <2>3. kept \subseteq {found[i] : i \in DOMAIN found}
    BY <1>1 DEF FindInv, FindTypes
  <2>4. outcome \in ErrorClass \union {None} /\ (outcome # None <=> pc = "failed")
    BY <1>1 DEF FindInv, FindTypes
  <2> QED BY <2>1, <2>2, <2>3, <2>4 DEF TypeOK
<1>2. ASSUME FindInv PROVE LeadIsTrue
  <2> SUFFICES ASSUME NEW i \in DOMAIN found, ask.zone = site.zone,
                      \A u \in site.shows[found[i].show].starts - DayLength .. site.shows[found[i].show].starts + DayLength :
                        Wall(site.zone, u) = Wall(site.zone, site.shows[found[i].show].starts)
                          => u = site.shows[found[i].show].starts
               PROVE  reservationInstant(found[i]) = site.shows[found[i].show].starts
    BY DEF LeadIsTrue
  <2> DEFINE s == found[i].show
  <2> DEFINE t == site.shows[s].starts
  <2>1. s \in Shows /\ site \in Sites /\ ask \in Ask /\ found[i] = SlotOf(s)
    BY <1>2, FoundKeys
  <2>2. found[i].date = Date(Wall(site.zone, t)) /\ found[i].start = Time(Wall(site.zone, t))
    BY <2>1 DEF SlotOf, amcSlot, mapSlot, Slot, LocalDate, LocalTime
  <2>3. t \in Int
    <3>1. site.shows[s] \in Given /\ Given \subseteq Show
      BY <2>1, ListingConstants DEF Sites
    <3>2. t \in Nat
      BY <3>1 DEF Show
    <3> QED BY <3>2
  <2>4. site.zone \in Zone /\ site.zone.after - site.zone.before \in -DayLength .. DayLength
    <3>1. site.zone \in TimeZones
      BY <2>1 DEF Sites
    <3> QED BY <2>1, <3>1, ZonesAreZones, ListingConstants
  <2>5. zonedWallTimeToInstant(Date(Wall(site.zone, t)), Time(Wall(site.zone, t)), site.zone) = t
    <3> HIDE DEF s
    <3> QED BY <2>3, <2>4, InstantIsRecovered DEF s
  <2> QED BY <2>2, <2>5 DEF reservationInstant
<1>3. ASSUME FindInv PROVE KeysAreRead
  <2>1. ASSUME NEW i \in DOMAIN found
        PROVE  parseDedupeKey(found[i].key) = Parts(found[i].show, found[i].date, found[i].start)
    BY <1>3, FoundKeys, KeyIsRead
  <2> QED BY <2>1 DEF KeysAreRead
<1>4. FindInv => SlotsAreReadBack
  BY <1>1, <1>2, <1>3 DEF SlotsAreReadBack
<1> QED BY <1>4, ListingInvariant, PTL

(* Whatever the refusals, and whichever maps are missing, a find of AMC    *)
(* that ends has all it was after of what had a map, and no missing map    *)
(* ends one.                                                               *)
THEOREM DriftContained == Spec => []DriftCostsOneShow
<1>1. ASSUME FindInv PROVE DriftCostsOneShow
  <2>1. outcome # "schema-drift"
    BY <1>1, ListingConstants DEF FindInv, FindTypes, ErrorClass
  <2>2. ASSUME pc = "done", ask.provider = "amc", NEW s \in Shows, site.shows[s].data = "whole",
               isWithinDateRange(amcSlot(s).date, range),
               s \in parseShowtimesPage(amcSlot(s).date), Aligned(amcSlot(s).date, amcSlot(s))
        PROVE  \E i \in DOMAIN found : found[i].show = s
    <3>1. AtAmc /\ FindTypes
      BY <1>1, <2>2 DEF FindInv, FindTypes, AtAmc
    <3>2. amcSlot(s).date \in Int /\ range.end \in Int /\ range.start \in Int /\ day \in Int
      BY <3>1, SlotFields DEF FindTypes, AtAmc
    <3>3. range.end < day
      BY <1>1, <2>2, <3>1 DEF FindInv, AmcCovers
    <3>4. Behind(s, amcSlot(s).date)
      BY <2>2, <3>2, <3>3 DEF Behind, isWithinDateRange
    <3>5. OnPage(s, amcSlot(s).date)
      BY <2>2 DEF OnPage
    <3> QED BY <1>1, <2>2, <3>1, <3>4, <3>5 DEF FindInv, AmcCovers, FoundIt
  <2> QED BY <2>1, <2>2 DEF DriftCostsOneShow
<1> QED BY <1>1, ListingInvariant, PTL

(* A scan keeps all that it would keep if it saw everything the venue has: *)
(* what the provider leaves out before it is what it would leave out.      *)
THEOREM ScanMissesNothing == Spec => []NothingMissed
<1>1. ASSUME FindInv PROVE NothingMissed
  <2> SUFFICES ASSUME pc = "kept", ask.for = "scan", NEW s \in Shows, Sought(s)
               PROVE  \E slot \in kept : slot.show = s
    BY DEF NothingMissed
  <2>1. FindTypes /\ ask # None /\ site \in Sites /\ ask \in Ask /\ ask.zone = site.zone
    BY <1>1 DEF FindInv, FindTypes, ScanZone
  <2>2. amcSlot(s) = mapSlot(s)
    BY <2>1 DEF amcSlot, mapSlot, LocalDate, LocalTime
  <2>3. site.shows[s].data = "whole" /\ isWithinDateRange(LocalDate(s), range) /\ scanKeeps(mapSlot(s))
    BY <2>1, SlotFields DEF Sought
  <2>4. LocalDate(s) \in Int /\ mapSlot(s).date = LocalDate(s) /\ mapSlot(s).show = s /\ mapSlot(s).start \in Int
    BY <2>1, SlotFields
  <2>5. extractBalancedJson(s)
    BY <2>3 DEF extractBalancedJson
  <2>6. FoundIt(s)
    <3>1. CASE ask.provider = "amc"
      <4>1. matchesItem(mapSlot(s).show)
        BY <2>4, <3>1 DEF Sought
      <4>2. amcTiers(mapSlot(s).show)
        <5>1. scanTiers(mapSlot(s)) /\ mapSlot(s).kind = site.shows[s].format
          BY <2>3 DEF scanKeeps, mapSlot, Slot
        <5> QED BY <2>4, <5>1 DEF scanTiers, amcTiers
      <4>3. withinWindow(mapSlot(s).start, ask.timeWindow)
        <5>1. isWithinWindow(mapSlot(s).start, ask.timeWindow)
          BY <2>3 DEF scanKeeps
        <5>2. ask.timeWindow.start \in Int /\ ask.timeWindow.end \in Int
          <6>1. ask.timeWindow \in Windows \union {WholeDay}
            BY <2>1 DEF Ask
          <6>2. DayLength \in Nat \ {0} /\ Windows \subseteq [start : 0 .. DayLength - 1, end : 0 .. DayLength - 1]
            BY ListingConstants
          <6> QED BY <6>1, <6>2 DEF WholeDay
        <5> QED BY <2>4, <5>1, <5>2 DEF isWithinWindow, withinWindow, Unwrapped
      <4>4. OnPage(s, amcSlot(s).date)
        <5>1. s \in parseShowtimesPage(LocalDate(s))
          BY <2>5 DEF parseShowtimesPage, Page
        <5> QED BY <2>2, <2>4, <4>1, <4>2, <4>3, <5>1 DEF OnPage, Aligned, Misaligned
      <4>5. Behind(s, amcSlot(s).date)
        <5>1. AtAmc /\ range.end < day
          BY <1>1, <2>1, <3>1 DEF FindInv, AmcCovers, AtAmc
        <5>2. range.start \in Int /\ range.end \in Int /\ day \in Int
          BY <2>1 DEF FindTypes
        <5> QED BY <2>2, <2>3, <2>4, <5>1, <5>2 DEF Behind, isWithinDateRange
      <4> QED BY <1>1, <2>1, <2>3, <3>1, <4>4, <4>5 DEF FindInv, AmcCovers, AtAmc
    <3>2. CASE ask.provider # "amc"
      BY <1>1, <2>1, <2>3, <2>5, <3>2 DEF FindInv, ResyCovers, AtResy
    <3> QED BY <3>1, <3>2
  <2>7. PICK i \in DOMAIN found : found[i].show = s
    BY <2>6 DEF FoundIt
  <2>8. found[i] = mapSlot(s)
    BY <1>1, <2>2, <2>7, FoundKeys DEF SlotOf
  <2>9. found[i] \in kept
    BY <1>1, <2>3, <2>8 DEF FindInv, KeptInv
  <2> QED BY <2>7, <2>9
<1> QED BY <1>1, ListingInvariant, PTL

(* A lookup is served from what the site had within the last day: the      *)
(* directory is kept under the moment it was asked for, which is no later  *)
(* than the moment it is of.                                               *)
THEOREM DirectoryFresh == Spec => []DirectoryIsOfToday
<1>1. DirectoryInv => DirectoryIsOfToday
  BY DEF DirectoryInv, DirectoryIsOfToday
<1> QED BY <1>1, ListingInvariant, PTL

-----------------------------------------------------------------------------
(* A nonempty set of numbers has a least one.                              *)
LEMMA LeastNumber ==
  ASSUME NEW T \in SUBSET Nat, T # {}
  PROVE  \E m \in T : \A n \in T : m <= n
<1>1. IsWellFoundedOn(OpToRel(<, Nat), Nat)
  BY NatLessThanWellFounded
<1>2. PICK m \in T : \A n \in T : ~(<<n, m>> \in OpToRel(<, Nat))
  BY <1>1, WFMin
<1>3. ASSUME NEW n \in T PROVE m <= n
  <2>1. m \in Nat /\ n \in Nat
    OBVIOUS
  <2>2. <<n, m>> \notin {ss \in Nat \X Nat : ss[1] < ss[2]}
    BY <1>2 DEF OpToRel
  <2>3. ~(n < m)
    BY <2>1, <2>2
  <2> QED BY <2>1, <2>3
<1> QED BY <1>3

(* What the loop over the columns leaves after one more column.            *)
NextRuns(seats, r, runs, c) == IF <<r, c>> \in seats THEN AddSeat(runs, c) ELSE runs
LoopOver(f, seats, r, n) ==
  f = [c \in 0 .. n |-> IF c = 0 THEN <<>> ELSE NextRuns(seats, r, f[c - 1], c)]

LEMMA LoopEnds ==
  ASSUME NEW seats, NEW r, NEW n \in Nat
  PROVE  \E f : LoopOver(f, seats, r, n)
<1> DEFINE Bad == {k \in Nat : ~ \E f : LoopOver(f, seats, r, k)}
<1>1. SUFFICES ASSUME Bad # {} PROVE FALSE
  OBVIOUS
<1>2. PICK m \in Bad : \A k \in Bad : m <= k
  <2>1. Bad \in SUBSET Nat
    OBVIOUS
  <2> HIDE DEF Bad
  <2> QED BY <1>1, <2>1, LeastNumber
<1>3. m \in Nat /\ ~ \E f : LoopOver(f, seats, r, m)
  OBVIOUS
<1>4. CASE m = 0
  <2> DEFINE f == [c \in 0 .. 0 |-> <<>>]
  <2>1. f = [c \in 0 .. 0 |-> IF c = 0 THEN <<>> ELSE NextRuns(seats, r, f[c - 1], c)]
    OBVIOUS
  <2>2. LoopOver(f, seats, r, 0)
    BY <2>1 DEF LoopOver
  <2> QED BY <1>3, <1>4, <2>2
<1>5. CASE m # 0
  <2>1. m - 1 \in Nat /\ m - 1 \notin Bad
    <3>1. m - 1 \in Nat /\ ~(m <= m - 1)
      BY <1>3, <1>5
    <3> HIDE DEF Bad
    <3> QED BY <1>2, <3>1
  <2>2. PICK g : LoopOver(g, seats, r, m - 1)
    BY <2>1
  <2> DEFINE f == [c \in 0 .. m |-> IF c = m THEN NextRuns(seats, r, g[m - 1], m) ELSE g[c]]
  <2>3. \A c \in 0 .. m - 1 : g[c] = (IF c = 0 THEN <<>> ELSE NextRuns(seats, r, g[c - 1], c))
    BY <2>2 DEF LoopOver
  <2>4. f = [c \in 0 .. m |-> IF c = 0 THEN <<>> ELSE NextRuns(seats, r, f[c - 1], c)]
    <3>1. ASSUME NEW c \in 0 .. m
          PROVE  f[c] = IF c = 0 THEN <<>> ELSE NextRuns(seats, r, f[c - 1], c)
      <4>1. CASE c = m
        <5>1. f[c] = NextRuns(seats, r, g[m - 1], m) /\ f[c - 1] = g[m - 1] /\ c # 0
          BY <1>3, <1>5, <4>1
        <5> QED BY <4>1, <5>1
      <4>2. CASE c # m
        <5>1. c \in 0 .. m - 1 /\ f[c] = g[c]
          BY <1>3, <4>2
        <5>2. CASE c = 0
          BY <2>3, <5>1, <5>2
        <5>3. CASE c # 0
          <6>1. c - 1 \in 0 .. m /\ c - 1 # m
            BY <1>3, <5>1, <5>3
          <6>2. f[c - 1] = g[c - 1]
            BY <6>1
          <6> QED BY <2>3, <5>1, <5>3, <6>2
        <5> QED BY <5>2, <5>3
      <4> QED BY <4>1, <4>2
    <3> QED BY <3>1
  <2>5. LoopOver(f, seats, r, m)
    <3> HIDE DEF f
    <3> QED BY <2>4 DEF LoopOver
  <2> QED BY <1>3, <2>5
<1> QED BY <1>4, <1>5

(* The runs of a row are what the loop makes of them, column by column.    *)
LEMMA RunsByColumn ==
  ASSUME NEW seats, NEW r
  PROVE  /\ RunsUpTo(seats, r)[0] = <<>>
         /\ \A c \in 1 .. Columns :
              RunsUpTo(seats, r)[c] = NextRuns(seats, r, RunsUpTo(seats, r)[c - 1], c)
<1>1. Columns \in Nat
  BY SeatingConstants
<1> DEFINE f == RunsUpTo(seats, r)
<1>2. LoopOver(f, seats, r, Columns)
  <2>1. PICK g : LoopOver(g, seats, r, Columns)
    BY <1>1, LoopEnds
  <2> QED BY <2>1 DEF RunsUpTo, LoopOver, NextRuns
<1> HIDE DEF f
<1>3. f[0] = <<>> /\ \A c \in 1 .. Columns : f[c] = NextRuns(seats, r, f[c - 1], c)
  <2>1. \A c \in 0 .. Columns : f[c] = (IF c = 0 THEN <<>> ELSE NextRuns(seats, r, f[c - 1], c))
    BY <1>2 DEF LoopOver
  <2>2. 0 \in 0 .. Columns /\ \A c \in 1 .. Columns : c \in 0 .. Columns /\ c # 0
    BY <1>1
  <2> QED BY <2>1, <2>2
<1> QED BY <1>3 DEF f

(* A run: columns that follow one another.                                 *)
Whole(run) ==
  /\ run \in Seq(Nat) /\ Len(run) > 0
  /\ \A k \in 1 .. Len(run) : run[k] = run[1] + k - 1

LEMMA WholeEnds ==
  ASSUME NEW run, Whole(run)
  PROVE  /\ Len(run) \in Nat \ {0} /\ run[1] \in Nat /\ End(run) \in Nat
         /\ End(run) = run[1] + Len(run) - 1 /\ run[1] <= End(run)
         /\ \A c \in run[1] .. End(run) : \E k \in 1 .. Len(run) : run[k] = c
         /\ \A k \in 1 .. Len(run) : run[k] \in run[1] .. End(run)
<1>1. run \in Seq(Nat) /\ Len(run) > 0
  BY DEF Whole
<1>2. Len(run) \in Nat \ {0} /\ run[1] \in Nat /\ run[Len(run)] \in Nat
  BY <1>1
<1>3. End(run) = run[1] + Len(run) - 1
  BY <1>2 DEF Whole, End
<1>4. \A k \in 1 .. Len(run) : run[k] = run[1] + k - 1
  BY DEF Whole
<1>5. ASSUME NEW c \in run[1] .. End(run)
      PROVE  \E k \in 1 .. Len(run) : run[k] = c
  <2>1. c - run[1] + 1 \in 1 .. Len(run) /\ run[1] + (c - run[1] + 1) - 1 = c
    BY <1>2, <1>3
  <2> QED BY <1>4, <2>1
<1>6. \A k \in 1 .. Len(run) : run[k] \in run[1] .. End(run)
  BY <1>2, <1>3, <1>4
<1> QED BY <1>2, <1>3, <1>5, <1>6 DEF End

(* Another column, or the first one, leaves a run.                         *)
LEMMA WholeGrows ==
  ASSUME NEW column \in Nat
  PROVE  /\ Whole(<<column>>) /\ <<column>>[1] = column /\ End(<<column>>) = column
         /\ \A run : Whole(run) /\ column = End(run) + 1
              => Whole(Append(run, column)) /\ Append(run, column)[1] = run[1] /\ End(Append(run, column)) = column
<1>1. Whole(<<column>>) /\ <<column>>[1] = column /\ End(<<column>>) = column
  BY DEF Whole, End
<1>2. ASSUME NEW run, Whole(run), column = End(run) + 1
      PROVE  Whole(Append(run, column)) /\ Append(run, column)[1] = run[1] /\ End(Append(run, column)) = column
  <2>1. Len(run) \in Nat \ {0} /\ column = run[1] + Len(run) /\ run \in Seq(Nat) /\ run[1] \in Nat
    BY <1>2, WholeEnds DEF Whole
  <2> DEFINE more == Append(run, column)
  <2>2. /\ more \in Seq(Nat) /\ Len(more) = Len(run) + 1 /\ more[Len(run) + 1] = column
        /\ \A k \in 1 .. Len(run) : more[k] = run[k]
    BY <2>1
  <2> HIDE DEF more
  <2>3. more[1] = run[1]
    BY <2>1, <2>2
  <2>4. ASSUME NEW k \in 1 .. Len(more) PROVE more[k] = more[1] + k - 1
    <3>1. CASE k \in 1 .. Len(run)
      BY <1>2, <2>2, <2>3, <3>1 DEF Whole
    <3>2. CASE k = Len(run) + 1
      BY <2>1, <2>2, <2>3, <3>2
    <3> QED BY <2>1, <2>2, <3>1, <3>2
  <2>5. Whole(more)
    BY <2>1, <2>2, <2>4 DEF Whole
  <2> QED BY <2>1, <2>2, <2>3, <2>5 DEF End, more
<1> QED BY <1>1, <1>2

(* After n columns the runs are those that the seats of the row up to n    *)
(* make: each goes as far as it can, and what is together is in one.       *)
RunsInv(seats, r, n, runs) ==
  /\ runs \in Seq({run \in Seq(Nat) : Whole(run)})
  /\ \A i \in 1 .. Len(runs) :
       /\ 1 <= runs[i][1] /\ End(runs[i]) <= n /\ (i < Len(runs) => End(runs[i]) < n)
       /\ \A c \in runs[i][1] .. End(runs[i]) : <<r, c>> \in seats
       /\ <<r, runs[i][1] - 1>> \notin seats
       /\ End(runs[i]) < n => <<r, End(runs[i]) + 1>> \notin seats
  /\ \A a \in 1 .. n, b \in 1 .. n :
       a <= b /\ (\A c \in a .. b : <<r, c>> \in seats) =>
         \E i \in 1 .. Len(runs) : /\ runs[i][1] <= a /\ b <= End(runs[i])
                                   /\ (b = n => i = Len(runs))

LEMMA NextRunsInv ==
  ASSUME NEW seats \in SUBSET (Nat \X (Nat \ {0})), NEW r \in Nat, NEW n \in Nat \ {0}, NEW runs,
         RunsInv(seats, r, n - 1, runs)
  PROVE  RunsInv(seats, r, n, NextRuns(seats, r, runs, n))
<1> DEFINE W == {run \in Seq(Nat) : Whole(run)}
<1>0. runs \in Seq(W)
  BY DEF RunsInv
<1> HIDE DEF W
<1>1. Len(runs) \in Nat /\ \A i \in 1 .. Len(runs) : runs[i] \in W
  BY <1>0
<1>2. \A i \in 1 .. Len(runs) : /\ Whole(runs[i]) /\ runs[i][1] \in Nat /\ End(runs[i]) \in Nat
                                /\ runs[i][1] <= End(runs[i])
  BY <1>1, WholeEnds DEF W
<1>3. /\ \A i \in 1 .. Len(runs) :
           /\ 1 <= runs[i][1] /\ End(runs[i]) <= n - 1 /\ (i < Len(runs) => End(runs[i]) < n - 1)
           /\ \A c \in runs[i][1] .. End(runs[i]) : <<r, c>> \in seats
           /\ <<r, runs[i][1] - 1>> \notin seats
           /\ End(runs[i]) < n - 1 => <<r, End(runs[i]) + 1>> \notin seats
      /\ \A a \in 1 .. n - 1, b \in 1 .. n - 1 :
           a <= b /\ (\A c \in a .. b : <<r, c>> \in seats) =>
             \E i \in 1 .. Len(runs) : /\ runs[i][1] <= a /\ b <= End(runs[i])
                                       /\ (b = n - 1 => i = Len(runs))
  BY DEF RunsInv
<1>7. \A i \in 1 .. Len(runs) :
        1 <= runs[i][1] /\ End(runs[i]) <= n - 1 /\ (i < Len(runs) => End(runs[i]) < n - 1)
  BY <1>3
<1>8. \A i \in 1 .. Len(runs) : 1 <= runs[i][1] /\ End(runs[i]) <= n /\ End(runs[i]) < n
  BY <1>2, <1>7
<1>4. CASE <<r, n>> \notin seats
  <2>1. \A i \in 1 .. Len(runs) : End(runs[i]) < n => <<r, End(runs[i]) + 1>> \notin seats
    <3> SUFFICES ASSUME NEW i \in 1 .. Len(runs) PROVE <<r, End(runs[i]) + 1>> \notin seats
      OBVIOUS
    <3>1. End(runs[i]) <= n - 1 /\ End(runs[i]) \in Nat
      BY <1>2, <1>3
    <3>2. CASE End(runs[i]) = n - 1
      BY <1>4, <3>2
    <3>3. CASE End(runs[i]) < n - 1
      BY <1>3, <3>3
    <3> QED BY <3>1, <3>2, <3>3
  <2>2. ASSUME NEW a \in 1 .. n, NEW b \in 1 .. n, a <= b, \A c \in a .. b : <<r, c>> \in seats
        PROVE  b # n /\ \E i \in 1 .. Len(runs) : runs[i][1] <= a /\ b <= End(runs[i])
    <3>1. b # n
      BY <1>4, <2>2
    <3>2. a \in 1 .. n - 1 /\ b \in 1 .. n - 1
      BY <2>2, <3>1
    <3> QED BY <1>3, <2>2, <3>1, <3>2
  <2>3. \A i \in 1 .. Len(runs) : 1 <= runs[i][1] /\ End(runs[i]) <= n /\ End(runs[i]) < n
    BY <1>8
  <2>4. RunsInv(seats, r, n, runs)
    BY <1>0, <1>3, <2>1, <2>2, <2>3 DEF RunsInv, W
  <2> QED BY <1>4, <2>4 DEF NextRuns
<1>5. CASE <<r, n>> \in seats /\ runs # <<>> /\ n = End(runs[Len(runs)]) + 1
  <2> DEFINE m == Len(runs)
  <2> DEFINE last == Append(runs[m], n)
  <2> DEFINE more == [runs EXCEPT ![m] = last]
  <2>1. m \in 1 .. Len(runs)
    BY <1>0, <1>1, <1>5
  <2>2. Whole(last) /\ last[1] = runs[m][1] /\ End(last) = n
    BY <1>2, <1>5, <2>1, WholeGrows
  <2>3. last \in W
    BY <2>2 DEF W, Whole
  <2> HIDE DEF last
  <2>4. /\ more \in Seq(W) /\ Len(more) = m /\ more[m] = last
        /\ \A i \in 1 .. m : i # m => more[i] = runs[i]
    BY <1>0, <1>1, <2>1, <2>3
  <2> HIDE DEF more
  <2>5. ASSUME NEW i \in 1 .. Len(more)
        PROVE  /\ 1 <= more[i][1] /\ End(more[i]) <= n /\ (i < Len(more) => End(more[i]) < n)
               /\ \A c \in more[i][1] .. End(more[i]) : <<r, c>> \in seats
               /\ <<r, more[i][1] - 1>> \notin seats
               /\ End(more[i]) < n => <<r, End(more[i]) + 1>> \notin seats
    <3>1. CASE i = m
      <4>1. more[i] = last /\ more[i][1] = runs[m][1] /\ End(more[i]) = n
        BY <2>2, <2>4, <3>1
      <4>2. /\ 1 <= runs[m][1] /\ <<r, runs[m][1] - 1>> \notin seats /\ End(runs[m]) = n - 1
            /\ runs[m][1] \in Nat /\ runs[m][1] <= End(runs[m])
            /\ \A c \in runs[m][1] .. End(runs[m]) : <<r, c>> \in seats
        BY <1>2, <1>3, <1>5, <2>1
      <4>3. \A c \in runs[m][1] .. n : c \in runs[m][1] .. End(runs[m]) \/ c = n
        BY <4>2
      <4>4. \A c \in runs[m][1] .. n : <<r, c>> \in seats
        BY <1>5, <4>2, <4>3
      <4>5. \A c \in more[i][1] .. End(more[i]) : <<r, c>> \in seats
        BY <4>1, <4>4
      <4>6. 1 <= more[i][1] /\ <<r, more[i][1] - 1>> \notin seats
        BY <4>1, <4>2
      <4>7. End(more[i]) <= n /\ ~(i < Len(more)) /\ ~(End(more[i]) < n)
        BY <2>4, <3>1, <4>1
      <4> QED BY <4>5, <4>6, <4>7
    <3>2. CASE i # m
      <4>1. i \in 1 .. Len(runs) /\ i < Len(runs) /\ more[i] = runs[i]
        BY <1>1, <2>4, <3>2
      <4>2. End(runs[i]) < n - 1 /\ End(runs[i]) \in Nat
        BY <1>2, <1>3, <4>1
      <4> QED BY <1>3, <4>1, <4>2
    <3> QED BY <3>1, <3>2
  <2>6. ASSUME NEW a \in 1 .. n, NEW b \in 1 .. n, a <= b, \A c \in a .. b : <<r, c>> \in seats
        PROVE  \E i \in 1 .. Len(more) : more[i][1] <= a /\ b <= End(more[i]) /\ (b = n => i = Len(more))
    <3>1. more[m][1] = runs[m][1] /\ End(more[m]) = n /\ m \in 1 .. Len(more) /\ Len(more) = m
      BY <2>1, <2>2, <2>4
    <3>2. /\ End(runs[m]) = n - 1 /\ runs[m][1] \in Nat /\ runs[m][1] <= n - 1
          /\ \A i \in 1 .. m : i # m => more[i] = runs[i]
      BY <1>2, <1>5, <2>1, <2>4
    <3>3. CASE b # n
      <4>1. a \in 1 .. n - 1 /\ b \in 1 .. n - 1
        BY <2>6, <3>3
      <4>2. PICK i \in 1 .. Len(runs) : runs[i][1] <= a /\ b <= End(runs[i])
        BY <1>3, <2>6, <4>1
      <4>3. CASE i = m
        BY <3>1, <3>3, <4>2, <4>3
      <4>4. CASE i # m
        BY <3>1, <3>2, <3>3, <4>2, <4>4
      <4> QED BY <4>3, <4>4
    <3>4. CASE b = n
      <4>1. runs[m][1] <= a
        <5>1. CASE a = n
          BY <3>2, <5>1
        <5>2. CASE a # n
          <6>1. a \in 1 .. n - 1 /\ n - 1 \in 1 .. n - 1 /\ a <= n - 1 /\ \A c \in a .. n - 1 : c \in a .. b
            BY <3>4, <5>2
          <6>2. PICK i \in 1 .. Len(runs) : runs[i][1] <= a /\ i = Len(runs)
            BY <1>3, <2>6, <6>1
          <6> QED BY <6>2
        <5> QED BY <5>1, <5>2
      <4> QED BY <3>1, <3>4, <4>1
    <3> QED BY <3>3, <3>4
  <2>7. RunsInv(seats, r, n, more)
    BY <2>4, <2>5, <2>6 DEF RunsInv, W
  <2> QED BY <1>5, <2>7 DEF NextRuns, AddSeat, more, last
<1>6. CASE <<r, n>> \in seats /\ ~(runs # <<>> /\ n = End(runs[Len(runs)]) + 1)
  <2> DEFINE m == Len(runs)
  <2> DEFINE more == Append(runs, <<n>>)
  <2>1. Whole(<<n>>) /\ <<n>>[1] = n /\ End(<<n>>) = n
    BY WholeGrows
  <2>2. <<n>> \in W
    BY <2>1 DEF W, Whole
  <2> DEFINE new == <<n>>
  <2> HIDE DEF new
  <2>3. /\ more \in Seq(W) /\ Len(more) = m + 1 /\ more[m + 1] = new
        /\ \A i \in 1 .. m : more[i] = runs[i]
    <3>1. new \in W /\ more = Append(runs, new)
      BY <2>2 DEF new
    <3> HIDE DEF more
    <3> QED BY <1>0, <1>1, <3>1
  <2>4. new[1] = n /\ End(new) = n
    BY <2>1 DEF new
  <2> HIDE DEF more
  <2>5. \A i \in 1 .. m : End(runs[i]) < n - 1
    <3> SUFFICES ASSUME NEW i \in 1 .. m, End(runs[i]) = n - 1 PROVE FALSE
      BY <1>2, <1>7
    <3>1. i = m
      BY <1>1, <1>7
    <3>2. runs # <<>>
      <4>1. ASSUME runs = <<>> PROVE FALSE
        BY <4>1
      <4> QED BY <4>1
    <3> QED BY <1>6, <3>1, <3>2
  <2>6. <<r, n - 1>> \notin seats
    <3> SUFFICES ASSUME <<r, n - 1>> \in seats PROVE FALSE
      OBVIOUS
    <3>1. n - 1 \in 1 .. n - 1 /\ \A c \in n - 1 .. n - 1 : c = n - 1
      OBVIOUS
    <3>2. PICK i \in 1 .. Len(runs) : n - 1 <= End(runs[i])
      BY <1>3, <3>1
    <3> QED BY <1>2, <2>5, <3>2
  <2>7. ASSUME NEW i \in 1 .. Len(more)
        PROVE  /\ 1 <= more[i][1] /\ End(more[i]) <= n /\ (i < Len(more) => End(more[i]) < n)
               /\ \A c \in more[i][1] .. End(more[i]) : <<r, c>> \in seats
               /\ <<r, more[i][1] - 1>> \notin seats
               /\ End(more[i]) < n => <<r, End(more[i]) + 1>> \notin seats
    <3>1. CASE i = m + 1
      <4>1. more[i][1] = n /\ End(more[i]) = n /\ \A c \in n .. n : c = n
        BY <2>3, <2>4, <3>1
      <4>2. \A c \in more[i][1] .. End(more[i]) : <<r, c>> \in seats
        BY <1>6, <4>1
      <4>3. 1 <= more[i][1] /\ <<r, more[i][1] - 1>> \notin seats
        BY <2>6, <4>1
      <4>4. End(more[i]) <= n /\ ~(i < Len(more)) /\ ~(End(more[i]) < n)
        BY <1>1, <2>3, <3>1, <4>1
      <4> QED BY <4>2, <4>3, <4>4
    <3>2. CASE i \in 1 .. m
      <4>1. more[i] = runs[i] /\ End(runs[i]) < n - 1 /\ End(runs[i]) \in Nat
        BY <1>2, <2>3, <2>5, <3>2
      <4> QED BY <1>3, <3>2, <4>1
    <3> QED BY <1>1, <2>3, <3>1, <3>2
  <2>8. ASSUME NEW a \in 1 .. n, NEW b \in 1 .. n, a <= b, \A c \in a .. b : <<r, c>> \in seats
        PROVE  \E i \in 1 .. Len(more) : more[i][1] <= a /\ b <= End(more[i]) /\ (b = n => i = Len(more))
    <3>1. CASE b # n
      <4>1. a \in 1 .. n - 1 /\ b \in 1 .. n - 1
        BY <2>8, <3>1
      <4>2. PICK i \in 1 .. Len(runs) : runs[i][1] <= a /\ b <= End(runs[i])
        BY <1>3, <2>8, <4>1
      <4>3. i \in 1 .. Len(more) /\ more[i] = runs[i]
        BY <1>1, <2>3
      <4> QED BY <3>1, <4>2, <4>3
    <3>2. CASE b = n
      <4>1. a = n
        <5> SUFFICES ASSUME a # n PROVE FALSE
          OBVIOUS
        <5>1. n - 1 \in a .. b
          BY <3>2
        <5> QED BY <2>6, <2>8, <5>1
      <4>2. m + 1 \in 1 .. Len(more) /\ more[m + 1][1] = n /\ End(more[m + 1]) = n /\ m + 1 = Len(more)
        BY <1>1, <2>3, <2>4
      <4> QED BY <3>2, <4>1, <4>2
    <3> QED BY <3>1, <3>2
  <2>9. RunsInv(seats, r, n, more)
    BY <2>3, <2>7, <2>8 DEF RunsInv, W
  <2> QED BY <1>6, <2>9 DEF NextRuns, AddSeat, more
<1> QED BY <1>4, <1>5, <1>6

(* So do all the columns of a row.                                         *)
LEMMA RunsHold ==
  ASSUME NEW seats \in SUBSET Positions, NEW r \in 1 .. Rows
  PROVE  RunsInv(seats, r, Columns, Runs(seats, r))
<1> DEFINE f == RunsUpTo(seats, r)
<1> DEFINE Bad == {k \in 0 .. Columns : ~RunsInv(seats, r, k, f[k])}
<1>1. Columns \in Nat /\ Rows \in Nat /\ r \in Nat /\ seats \in SUBSET (Nat \X (Nat \ {0}))
  BY SeatingConstants DEF Positions
<1>2. f[0] = <<>> /\ \A c \in 1 .. Columns : f[c] = NextRuns(seats, r, f[c - 1], c)
  BY RunsByColumn
<1> HIDE DEF f
<1>3. SUFFICES ASSUME Bad # {} PROVE FALSE
  BY <1>1 DEF Runs, f
<1>4. PICK m \in Bad : \A k \in Bad : m <= k
  <2>1. Bad \in SUBSET Nat
    BY <1>1
  <2> HIDE DEF Bad
  <2> QED BY <1>3, <2>1, LeastNumber
<1>5. m \in 0 .. Columns /\ ~RunsInv(seats, r, m, f[m])
  OBVIOUS
<1>6. CASE m = 0
  <2>1. RunsInv(seats, r, 0, <<>>)
    BY DEF RunsInv
  <2> QED BY <1>2, <1>5, <1>6, <2>1
<1>7. CASE m # 0
  <2>1. m \in Nat \ {0} /\ m \in 1 .. Columns /\ m - 1 \in 0 .. Columns /\ ~(m <= m - 1)
    BY <1>1, <1>5, <1>7
  <2>2. RunsInv(seats, r, m - 1, f[m - 1])
    <3>1. m - 1 \notin Bad
      <4> HIDE DEF Bad
      <4> QED BY <1>4, <2>1
    <3> QED BY <2>1, <3>1
  <2>3. RunsInv(seats, r, m, NextRuns(seats, r, f[m - 1], m))
    BY <1>1, <2>1, <2>2, NextRunsInv
  <2> QED BY <1>2, <1>5, <2>1, <2>3
<1> QED BY <1>6, <1>7

(* All seats of row r from column a to column b.                           *)
Together(seats, r, a, b) == \A c \in a .. b : <<r, c>> \in seats

(* The blocks of a row are the longest runs of seats that it has: each is  *)
(* one, and what is together is in one.                                    *)
LongestRun(seats, r, block) ==
  /\ Whole(block.columns) /\ 1 <= block.columns[1] /\ End(block.columns) <= Columns
  /\ Together(seats, r, block.columns[1], End(block.columns))
  /\ <<r, block.columns[1] - 1>> \notin seats /\ <<r, End(block.columns) + 1>> \notin seats

LEMMA BlocksAreLongestRuns ==
  ASSUME NEW rows, NEW seats \in SUBSET Positions, NEW r \in 1 .. Rows
  PROVE  /\ \A block \in RowBlocks(rows, seats, r) :
              block = Block(rows, r, block.columns) /\ LongestRun(seats, r, block)
         /\ \A a \in 1 .. Columns, b \in 1 .. Columns :
              a <= b /\ Together(seats, r, a, b) =>
                \E block \in RowBlocks(rows, seats, r) : block.columns[1] <= a /\ b <= End(block.columns)
<1> DEFINE runs == Runs(seats, r)
<1> DEFINE W == {run \in Seq(Nat) : Whole(run)}
<1>1. RunsInv(seats, r, Columns, runs) /\ Columns \in Nat
  BY RunsHold, SeatingConstants
<1>2. RowBlocks(rows, seats, r) = {Block(rows, r, runs[i]) : i \in DOMAIN runs}
  BY DEF RowBlocks
<1> HIDE DEF runs
<1>3. runs \in Seq(W)
  BY <1>1 DEF RunsInv
<1>4. DOMAIN runs = 1 .. Len(runs) /\ \A i \in 1 .. Len(runs) : Whole(runs[i])
  <2> HIDE DEF W
  <2>1. DOMAIN runs = 1 .. Len(runs) /\ \A i \in 1 .. Len(runs) : runs[i] \in W
    BY <1>3
  <2> QED BY <2>1 DEF W
<1>5. ASSUME NEW i \in DOMAIN runs
      PROVE  /\ 1 <= runs[i][1] /\ End(runs[i]) <= Columns /\ End(runs[i]) \in Nat
             /\ Together(seats, r, runs[i][1], End(runs[i]))
             /\ <<r, runs[i][1] - 1>> \notin seats /\ <<r, End(runs[i]) + 1>> \notin seats
  <2>1. /\ 1 <= runs[i][1] /\ End(runs[i]) <= Columns /\ <<r, runs[i][1] - 1>> \notin seats
        /\ Together(seats, r, runs[i][1], End(runs[i]))
    BY <1>1, <1>4 DEF RunsInv, Together
  <2>2. End(runs[i]) < Columns => <<r, End(runs[i]) + 1>> \notin seats
    BY <1>1, <1>4 DEF RunsInv
  <2>3. End(runs[i]) \in Nat
    BY <1>4, WholeEnds
  <2>4. CASE End(runs[i]) = Columns
    <3>1. <<r, Columns + 1>> \notin Positions
      BY <1>1 DEF Positions
    <3> QED BY <2>1, <2>3, <2>4, <3>1
  <2> QED BY <1>1, <2>1, <2>2, <2>3, <2>4
<1>6. ASSUME NEW block \in RowBlocks(rows, seats, r)
      PROVE  block = Block(rows, r, block.columns) /\ LongestRun(seats, r, block)
  <2>1. PICK i \in DOMAIN runs : block = Block(rows, r, runs[i])
    BY <1>2
  <2>2. block.columns = runs[i]
    BY <2>1 DEF Block
  <2> QED BY <1>4, <1>5, <2>1, <2>2 DEF LongestRun
<1>7. ASSUME NEW a \in 1 .. Columns, NEW b \in 1 .. Columns, a <= b, Together(seats, r, a, b)
      PROVE  \E block \in RowBlocks(rows, seats, r) : block.columns[1] <= a /\ b <= End(block.columns)
  <2>1. PICK i \in 1 .. Len(runs) : runs[i][1] <= a /\ b <= End(runs[i])
    BY <1>1, <1>7 DEF RunsInv, Together
  <2>2. Block(rows, r, runs[i]) \in RowBlocks(rows, seats, r) /\ Block(rows, r, runs[i]).columns = runs[i]
    BY <1>2, <1>4 DEF Block
  <2> QED BY <2>1, <2>2
<1> QED BY <1>6, <1>7

(* Of blocks with a bounded score some have the greatest.                  *)
LEMMA GreatestScore ==
  ASSUME NEW S, S # {}, NEW i, NEW bound \in Nat, \A b \in S : Score(b)[i] \in 0 .. bound
  PROVE  \E a \in S : \A b \in S : Score(b)[i] <= Score(a)[i]
<1> DEFINE T == {bound - Score(b)[i] : b \in S}
<1>1. T \in SUBSET Nat /\ T # {}
  <2>1. \A b \in S : bound - Score(b)[i] \in Nat
    OBVIOUS
  <2> QED BY <2>1
<1>2. PICK m \in T : \A n \in T : m <= n
  <2> HIDE DEF T
  <2> QED BY <1>1, LeastNumber
<1>3. PICK a \in S : m = bound - Score(a)[i]
  OBVIOUS
<1>4. ASSUME NEW b \in S PROVE Score(b)[i] <= Score(a)[i]
  <2>1. bound - Score(a)[i] <= bound - Score(b)[i]
    BY <1>2, <1>3
  <2>2. Score(a)[i] \in 0 .. bound /\ Score(b)[i] \in 0 .. bound
    OBVIOUS
  <2> QED BY <2>1, <2>2
<1> QED BY <1>4

(* So blocks have a first one in the order of the summary.                 *)
LEMMA FirstExists ==
  ASSUME NEW S, S # {}, \A b \in S : \A i \in 1 .. 5 : Score(b)[i] \in 0 .. Rows + Columns + 1
  PROVE  FirstOf(S) \in S
<1> DEFINE bound == Rows + Columns + 1
<1>1. bound \in Nat
  BY SeatingConstants
<1> DEFINE Top(T, i) == {a \in T : \A b \in T : Score(b)[i] <= Score(a)[i]}
<1>2. ASSUME NEW T, T \subseteq S, T # {}, NEW i \in 1 .. 5
      PROVE  Top(T, i) # {} /\ Top(T, i) \subseteq S
  <2>1. \A b \in T : Score(b)[i] \in 0 .. bound
    BY <1>2
  <2> HIDE DEF bound
  <2>2. \E a \in T : \A b \in T : Score(b)[i] <= Score(a)[i]
    BY <1>1, <1>2, <2>1, GreatestScore
  <2> QED BY <1>2, <2>2
<1> DEFINE S1 == Top(S, 1)
<1> DEFINE S2 == Top(S1, 2)
<1> DEFINE S3 == Top(S2, 3)
<1> DEFINE S4 == Top(S3, 4)
<1> DEFINE S5 == Top(S4, 5)
<1>3. S5 # {}
  <2> HIDE DEF Top
  <2>1. S1 # {} /\ S1 \subseteq S
    BY <1>2
  <2> HIDE DEF S1
  <2>2. S2 # {} /\ S2 \subseteq S
    BY <1>2, <2>1
  <2> HIDE DEF S2
  <2>3. S3 # {} /\ S3 \subseteq S
    BY <1>2, <2>2
  <2> HIDE DEF S3
  <2>4. S4 # {} /\ S4 \subseteq S
    BY <1>2, <2>3
  <2> HIDE DEF S4
  <2> QED BY <1>2, <2>4
<1>4. PICK a \in S5 : TRUE
  BY <1>3
<1>5. /\ a \in S4 /\ a \in S3 /\ a \in S2 /\ a \in S1 /\ a \in S
      /\ \A b \in S4 : Score(b)[5] <= Score(a)[5]
      /\ \A b \in S3 : Score(b)[4] <= Score(a)[4]
      /\ \A b \in S2 : Score(b)[3] <= Score(a)[3]
      /\ \A b \in S1 : Score(b)[2] <= Score(a)[2]
      /\ \A b \in S : Score(b)[1] <= Score(a)[1]
  OBVIOUS
<1>6. ASSUME NEW b \in S, Better(b, a) PROVE FALSE
  <2>1. PICK i \in 1 .. 5 : Score(b)[i] > Score(a)[i] /\ \A j \in 1 .. i - 1 : Score(b)[j] = Score(a)[j]
    BY <1>6 DEF Better
  <2>2. \A k \in 1 .. 5 : Score(a)[k] \in Int /\ Score(b)[k] \in Int
    BY <1>5, SeatingConstants
  <2>3. \A k \in 1 .. 5 : k < i => Score(b)[k] = Score(a)[k]
    BY <2>1
  <2>4. ASSUME NEW T, NEW k \in 1 .. 5, k < i, a \in Top(T, k), b \in T PROVE b \in Top(T, k)
    BY <2>3, <2>4
  <2>5. ASSUME NEW T, a \in Top(T, i), b \in T PROVE FALSE
    BY <2>1, <2>2, <2>5
  <2> HIDE DEF Top
  <2>6. a \in Top(S, 1) /\ a \in Top(S1, 2) /\ a \in Top(S2, 3) /\ a \in Top(S3, 4) /\ a \in Top(S4, 5)
    BY <1>4, <1>5
  <2>7. i # 1 /\ b \in S1
    BY <2>4, <2>5, <2>6
  <2> HIDE DEF S1
  <2>8. i # 2 /\ b \in S2
    BY <2>4, <2>5, <2>6, <2>7
  <2> HIDE DEF S2
  <2>9. i # 3 /\ b \in S3
    BY <2>4, <2>5, <2>6, <2>7, <2>8
  <2> HIDE DEF S3
  <2>10. i # 4 /\ b \in S4
    BY <2>4, <2>5, <2>6, <2>7, <2>8, <2>9
  <2> HIDE DEF S4
  <2>11. i # 5
    BY <2>5, <2>6, <2>10
  <2> QED BY <2>7, <2>8, <2>9, <2>10, <2>11
<1>7. \E first \in S : \A b \in S : ~Better(b, first)
  BY <1>5, <1>6
<1> QED BY <1>7 DEF FirstOf

(* A summary's blocks are the longest runs of its rows.                    *)
LEMMA SummaryBlocks ==
  ASSUME NEW room, NEW acceptable, DOMAIN room \in SUBSET Positions
  PROVE  LET seats == FreeSeats(room) \intersect acceptable IN
           /\ seats \in SUBSET Positions
           /\ \A block \in Summary(room, acceptable) :
                block.row \in 1 .. Rows /\ block = Block(RowsOf(room), block.row, block.columns) /\ LongestRun(seats, block.row, block)
           /\ \A r \in 1 .. Rows, a \in 1 .. Columns, b \in 1 .. Columns :
                a <= b /\ Together(seats, r, a, b) =>
                  \E block \in Summary(room, acceptable) :
                    block.row = r /\ block.columns[1] <= a /\ b <= End(block.columns)
<1> DEFINE seats == FreeSeats(room) \intersect acceptable
<1>1. seats \in SUBSET Positions
  BY DEF FreeSeats
<1>0. RowsOf(room) \subseteq 1 .. Rows
  BY DEF RowsOf, Positions
<1>2. Summary(room, acceptable) = UNION {RowBlocks(RowsOf(room), seats, r) : r \in RowsOf(room)}
  BY DEF Summary
<1> HIDE DEF seats
<1>3. ASSUME NEW block \in Summary(room, acceptable)
      PROVE  block.row \in 1 .. Rows /\ block = Block(RowsOf(room), block.row, block.columns) /\ LongestRun(seats, block.row, block)
  <2>1. PICK r \in RowsOf(room) : block \in RowBlocks(RowsOf(room), seats, r)
    BY <1>2
  <2>2. block = Block(RowsOf(room), r, block.columns) /\ LongestRun(seats, r, block)
    BY <1>0, <1>1, <2>1, BlocksAreLongestRuns
  <2>3. block.row = r
    <3>1. Block(RowsOf(room), r, block.columns).row = r
      BY DEF Block
    <3> QED BY <2>2, <3>1
  <2> QED BY <1>0, <2>2, <2>3
<1>4. ASSUME NEW r \in 1 .. Rows, NEW a \in 1 .. Columns, NEW b \in 1 .. Columns, a <= b, Together(seats, r, a, b)
      PROVE  \E block \in Summary(room, acceptable) : block.row = r /\ block.columns[1] <= a /\ b <= End(block.columns)
  <2>1. PICK block \in RowBlocks(RowsOf(room), seats, r) : block.columns[1] <= a /\ b <= End(block.columns)
    BY <1>1, <1>4, BlocksAreLongestRuns
  <2>2. block = Block(RowsOf(room), r, block.columns)
    BY <1>1, BlocksAreLongestRuns
  <2>3. block.row = r
    <3>1. Block(RowsOf(room), r, block.columns).row = r
      BY DEF Block
    <3> QED BY <2>2, <3>1
  <2>4. r \in RowsOf(room)
    <3>1. <<r, a>> \in seats
      BY <1>4 DEF Together
    <3>2. <<r, a>> \in DOMAIN room
      BY <3>1 DEF seats, FreeSeats
    <3> QED BY <3>2 DEF RowsOf
  <2> QED BY <1>2, <2>1, <2>3, <2>4
<1> QED BY <1>1, <1>3, <1>4 DEF seats

(* What is known of the room and the watch.                                *)
RoomInv ==
  /\ fetch \in Payloads /\ DOMAIN map = DOMAIN fetch.room
  /\ watch \in [seating : Preferences, partySize : Parties]

LEMMA RoomInvariant == RoomSpec => []RoomInv
<1>1. RoomInit => RoomInv
  BY DEF RoomInit, RoomInv
<1>2. RoomInv /\ [RoomNext]_roomVars => RoomInv'
  BY DEF RoomInv, RoomNext, SeatChanges, OtherRoom, putPrefs, EditWatch, roomVars
<1> QED BY <1>1, <1>2, PTL DEF RoomSpec

(* A room lies in the layout, and a party is of one at least.              *)
LEMMA RoomFacts ==
  ASSUME RoomInv
  PROVE  DOMAIN map \in SUBSET Positions /\ watch.partySize \in Nat \ {0}
  BY SeatingConstants DEF RoomInv

(* What the summary of the slot is made of.                                *)
LEMMA SeatingBlocks ==
  ASSUME RoomInv
  PROVE  /\ Free \intersect Acceptable \in SUBSET Positions
         /\ \A block \in Seating :
              /\ block.row \in 1 .. Rows /\ block = Block(RowsOf(map), block.row, block.columns)
              /\ LongestRun(Free \intersect Acceptable, block.row, block)
         /\ \A r \in 1 .. Rows, a \in 1 .. Columns, b \in 1 .. Columns :
              a <= b /\ Together(Free \intersect Acceptable, r, a, b) =>
                \E block \in Seating : block.row = r /\ block.columns[1] <= a /\ b <= End(block.columns)
<1>1. DOMAIN map \in SUBSET Positions
  BY RoomFacts
<1> QED BY <1>1, SummaryBlocks DEF Seating, Free

(* The gate opens exactly when the party finds seats next to one another,  *)
(* free and acceptable, in one row: such seats are in one block.           *)
THEOREM GateIsExact == RoomSpec => []GateSeatsTheParty
<1>1. ASSUME RoomInv PROVE GateSeatsTheParty
  <2> DEFINE seats == Free \intersect Acceptable
  <2> DEFINE party == watch.partySize
  <2>1. /\ seats \in SUBSET Positions /\ party \in Nat \ {0} /\ Columns \in Nat
        /\ \A block \in Seating : /\ block.row \in 1 .. Rows /\ block = Block(RowsOf(map), block.row, block.columns)
                                  /\ LongestRun(seats, block.row, block)
        /\ \A r \in 1 .. Rows, a \in 1 .. Columns, b \in 1 .. Columns :
             a <= b /\ Together(seats, r, a, b) =>
               \E block \in Seating : block.row = r /\ block.columns[1] <= a /\ b <= End(block.columns)
    BY <1>1, SeatingBlocks, RoomFacts, SeatingConstants
  <2> HIDE DEF seats, party
  <2>2. ASSUME NEW block \in Seating
        PROVE  /\ block.size = End(block.columns) - block.columns[1] + 1
               /\ block.columns[1] \in 1 .. Columns /\ End(block.columns) \in 1 .. Columns
    <3>1. Whole(block.columns) /\ 1 <= block.columns[1] /\ End(block.columns) <= Columns
      BY <2>1 DEF LongestRun
    <3>2. block.size = Len(block.columns)
      <4>1. Block(RowsOf(map), block.row, block.columns).size = Len(block.columns)
        BY DEF Block
      <4> QED BY <2>1, <4>1
    <3> QED BY <2>1, <3>1, <3>2, WholeEnds
  <2>3. ASSUME NEW block \in Seating, block.size >= party
        PROVE  \E r \in 1 .. Rows, first \in 1 .. Columns :
                 \A c \in first .. first + party - 1 : <<r, c>> \in seats
    <3>1. block.columns[1] + party - 1 <= End(block.columns)
      BY <2>1, <2>2, <2>3
    <3>2. Together(seats, block.row, block.columns[1], End(block.columns))
      BY <2>1 DEF LongestRun
    <3>3. \A c \in block.columns[1] .. block.columns[1] + party - 1 : <<block.row, c>> \in seats
      BY <2>1, <2>2, <3>1, <3>2 DEF Together
    <3> QED BY <2>1, <2>2, <3>3
  <2>4. ASSUME NEW r \in 1 .. Rows, NEW first \in 1 .. Columns,
               \A c \in first .. first + party - 1 : <<r, c>> \in seats
        PROVE  \E block \in Seating : block.size >= party
    <3> DEFINE b == first + party - 1
    <3>1. b \in 1 .. Columns /\ first <= b
      <4>1. b \in first .. b /\ first <= b
        BY <2>1
      <4>2. <<r, b>> \in Positions
        BY <2>1, <2>4, <4>1
      <4> QED BY <4>1, <4>2 DEF Positions
    <3>2. Together(seats, r, first, b)
      BY <2>4 DEF Together
    <3>3. PICK block \in Seating : block.columns[1] <= first /\ b <= End(block.columns)
      BY <2>1, <3>1, <3>2
    <3>4. block.size >= party
      BY <2>1, <2>2, <3>3
    <3> QED BY <3>4
  <2>5. Alerts <=> \E block \in Seating : block.size >= party
    BY DEF Alerts, passesSeatingGate, party
  <2> QED BY <2>3, <2>4, <2>5 DEF GateSeatsTheParty, seats, party
<1> QED BY <1>1, RoomInvariant, PTL

(* A link holds the user's seats: the first block of the order is one of   *)
(* the summary's, and every seat of it is free and acceptable.             *)
THEOREM LinkIsTheUsers == RoomSpec => []LinkHoldsUsersSeats
<1>1. ASSUME RoomInv PROVE LinkHoldsUsersSeats
  <2> DEFINE seats == Free \intersect Acceptable
  <2>1. \A block \in Seating : /\ block.row \in 1 .. Rows /\ block = Block(RowsOf(map), block.row, block.columns)
                               /\ LongestRun(seats, block.row, block)
    BY <1>1, SeatingBlocks
  <2> HIDE DEF seats
  <2>2. ASSUME NEW block \in Seating
        PROVE  \A i \in 1 .. 5 : Score(block)[i] \in 0 .. Rows + Columns + 1
    <3> DEFINE columns == block.columns
    <3>1. Whole(columns) /\ 1 <= columns[1] /\ End(columns) <= Columns /\ block.row \in 1 .. Rows
      BY <2>1 DEF LongestRun
    <3>2. Rows \in Nat /\ Columns \in Nat
      BY SeatingConstants
    <3>3. Len(columns) \in 0 .. Columns /\ columns[1] \in 1 .. Columns
      BY <3>1, <3>2, WholeEnds
    <3>4. block.size = Len(columns)
      <4>1. Block(RowsOf(map), block.row, block.columns).size = Len(block.columns)
        BY DEF Block
      <4> QED BY <2>1, <4>1
    <3> DEFINE high == Rows + Columns + 1
    <3>5. /\ Score(block)[1] \in {0, 1} /\ Score(block)[2] \in {0, 1} /\ Score(block)[3] = block.size
          /\ Score(block)[4] = block.row /\ Score(block)[5] = Columns - columns[1]
      BY DEF Score
    <3>6. high \in Nat /\ 1 <= high /\ Columns <= high /\ Rows <= high
      BY <3>2, SeatingConstants
    <3> HIDE DEF high
    <3>7. Score(block)[1] \in 0 .. high /\ Score(block)[2] \in 0 .. high
      BY <3>5, <3>6
    <3>8. Score(block)[3] \in 0 .. high
      BY <3>2, <3>3, <3>4, <3>5, <3>6
    <3>9. Score(block)[4] \in 0 .. high
      BY <3>1, <3>2, <3>5, <3>6
    <3>10. Score(block)[5] \in 0 .. high
      BY <3>2, <3>3, <3>5, <3>6
    <3>11. ASSUME NEW i \in 1 .. 5 PROVE Score(block)[i] \in 0 .. high
      <4>1. i = 1 \/ i = 2 \/ i = 3 \/ i = 4 \/ i = 5
        OBVIOUS
      <4> QED BY <3>7, <3>8, <3>9, <3>10, <4>1
    <3> QED BY <3>11 DEF high
  <2>3. Seating # {} => FirstOf(Seating) \in Seating
    BY <2>2, FirstExists
  <2>4. ASSUME NEW block \in Seating, NEW n \in DOMAIN block.columns
        PROVE  <<block.row, block.columns[n]>> \in seats
    <3>1. Whole(block.columns) /\ Together(seats, block.row, block.columns[1], End(block.columns))
      BY <2>1 DEF LongestRun
    <3>2. n \in 1 .. Len(block.columns)
      BY <3>1 DEF Whole
    <3>3. block.columns[n] \in block.columns[1] .. End(block.columns)
      BY <3>1, <3>2, WholeEnds
    <3> QED BY <3>1, <3>3 DEF Together
  <2>5. ASSUME NEW block \in Seating PROVE 1 \in DOMAIN block.columns
    <3>1. Whole(block.columns)
      BY <2>1 DEF LongestRun
    <3> QED BY <3>1, WholeEnds DEF Whole
  <2>6. Preselected \subseteq seats
    BY <2>3, <2>4 DEF Preselected
  <2>7. Alerts => Preselected # {}
    <3> SUFFICES ASSUME Alerts PROVE Preselected # {}
      OBVIOUS
    <3>1. Seating # {}
      BY DEF Alerts, passesSeatingGate
    <3>2. 1 \in DOMAIN FirstOf(Seating).columns
      BY <2>3, <2>5, <3>1
    <3> QED BY <3>1, <3>2 DEF Preselected
  <2> QED BY <2>6, <2>7 DEF LinkHoldsUsersSeats, seats
<1> QED BY <1>1, RoomInvariant, PTL

(* Turned around a span lies in the opposite zone.                         *)
LEMMA ZoneTurned ==
  ASSUME NEW a \in 1 .. Columns, NEW b \in 1 .. Columns
  PROVE  zoneOf(Columns + 1 - b, Columns + 1 - a) = TurnedZone(zoneOf(a, b))
<1>1. Columns \in Nat \ {0}
  BY SeatingConstants
<1> DEFINE x == 3 * (a + b - 1)
<1> DEFINE y == 3 * ((Columns + 1 - b) + (Columns + 1 - a) - 1)
<1>2. x \in Int /\ y \in Int /\ y = 6 * Columns - x
  BY <1>1
<1>3. (y < 2 * Columns <=> x > 4 * Columns) /\ (y > 4 * Columns <=> x < 2 * Columns)
  BY <1>1, <1>2
<1>4. ~(x < 2 * Columns /\ x > 4 * Columns)
  BY <1>1, <1>2
<1>5. /\ x < 2 * Columns => zoneOf(a, b) = "left"
      /\ x > 4 * Columns => zoneOf(a, b) = "right"
      /\ ~(x < 2 * Columns) /\ ~(x > 4 * Columns) => zoneOf(a, b) = "center"
  BY <1>4 DEF zoneOf
<1>6. /\ y < 2 * Columns => zoneOf(Columns + 1 - b, Columns + 1 - a) = "left"
      /\ y > 4 * Columns => zoneOf(Columns + 1 - b, Columns + 1 - a) = "right"
      /\ ~(y < 2 * Columns) /\ ~(y > 4 * Columns) => zoneOf(Columns + 1 - b, Columns + 1 - a) = "center"
  BY <1>3, <1>4 DEF zoneOf
<1> HIDE DEF x, y
<1> QED BY <1>3, <1>4, <1>5, <1>6 DEF TurnedZone

(* Rows turned around are as many.                                         *)
LEMMA TurnedRows ==
  ASSUME NEW S \in SUBSET (1 .. Rows)
  PROVE  /\ IsFiniteSet(S) /\ Cardinality(S) \in Nat
         /\ Cardinality({Rows + 1 - q : q \in S}) = Cardinality(S)
<1> DEFINE T == {Rows + 1 - q : q \in S}
<1> DEFINE f == [q \in S |-> Rows + 1 - q]
<1>1. Rows \in Nat
  BY SeatingConstants
<1>2. IsFiniteSet(S)
  <2>1. IsFiniteSet(1 .. Rows)
    BY <1>1, FS_Interval
  <2> QED BY <2>1, FS_Subset
<1>3. f \in [S -> T] /\ \A t \in T : \E q \in S : f[q] = t
  OBVIOUS
<1>4. \A q, u \in S : f[q] = f[u] => q = u
  BY <1>1
<1>5. f \in Bijection(S, T)
  BY <1>3, <1>4 DEF Bijection, Injection, Surjection, IsInjective
<1> QED BY <1>2, <1>5, FS_Bijection, FS_CardinalityType DEF ExistsBijection

(* Turned around a row lies in the opposite third of the rows.             *)
LEMMA DepthTurned ==
  ASSUME NEW rows \in SUBSET (1 .. Rows), NEW r \in rows
  PROVE  Depth({Rows + 1 - q : q \in rows}, Rows + 1 - r) = TurnedDepth(Depth(rows, r))
<1> DEFINE before == {q \in rows : q < r}
<1> DEFINE behind == {q \in rows : r < q}
<1> DEFINE turned == {Rows + 1 - q : q \in rows}
<1>1. Rows \in Nat /\ r \in 1 .. Rows
  BY SeatingConstants
<1> DEFINE n == Cardinality(rows)
<1> DEFINE i == Cardinality(before)
<1> DEFINE j == Cardinality(behind)
<1>2. n \in Nat /\ i \in Nat /\ j \in Nat /\ IsFiniteSet(before) /\ IsFiniteSet(behind)
  <2>1. before \in SUBSET (1 .. Rows) /\ behind \in SUBSET (1 .. Rows)
    OBVIOUS
  <2> QED BY <2>1, TurnedRows
<1>3. n = i + j + 1
  <2>0. \A q \in rows : /\ q \in before \/ q = r \/ q \in behind
                        /\ q \in before => q \notin behind
                        /\ r \notin before /\ r \notin behind
    BY <1>1
  <2>1. rows = (before \cup {r}) \cup behind
    BY <2>0
  <2>2. (before \cup {r}) \cap behind = {} /\ r \notin before
    BY <2>0
  <2> HIDE DEF before, behind
  <2>3. IsFiniteSet(before \cup {r}) /\ Cardinality(before \cup {r}) = i + 1
    BY <1>2, <2>2, FS_AddElement
  <2>4. Cardinality({}) = 0
    BY FS_EmptySet
  <2>5. Cardinality((before \cup {r}) \cup behind)
          = Cardinality(before \cup {r}) + Cardinality(behind) - Cardinality((before \cup {r}) \cap behind)
    BY <1>2, <2>3, FS_Union
  <2>6. n = (i + 1) + j - 0
    BY <2>1, <2>2, <2>3, <2>4, <2>5
  <2> HIDE DEF n, i, j
  <2> QED BY <1>2, <2>6
<1>4. Cardinality(turned) = n
  BY TurnedRows
<1>5. rowIndex(turned, Rows + 1 - r) = j
  <2>1. {q \in turned : q < Rows + 1 - r} = {Rows + 1 - q : q \in behind}
    BY <1>1
  <2>2. behind \in SUBSET (1 .. Rows)
    OBVIOUS
  <2> QED BY <2>1, <2>2, TurnedRows DEF rowIndex
<1>6. rowIndex(rows, r) = i
  BY DEF rowIndex
<1> HIDE DEF n, i, j, turned
<1>7. depthOf(j, n) = TurnedDepth(depthOf(i, n))
  <2> DEFINE x == 3 * (2 * i + 1)
  <2> DEFINE y == 3 * (2 * j + 1)
  <2>1. x \in Int /\ y \in Int /\ y = 6 * n - x /\ n > 0
    BY <1>2, <1>3
  <2>2. (y < 2 * n <=> x > 4 * n) /\ (y > 4 * n <=> x < 2 * n) /\ ~(x < 2 * n /\ x > 4 * n)
    BY <1>2, <2>1
  <2>3. /\ x < 2 * n => depthOf(i, n) = "front"
        /\ x > 4 * n => depthOf(i, n) = "back"
        /\ ~(x < 2 * n) /\ ~(x > 4 * n) => depthOf(i, n) = "middle"
    BY <2>2 DEF depthOf
  <2>4. /\ y < 2 * n => depthOf(j, n) = "front"
        /\ y > 4 * n => depthOf(j, n) = "back"
        /\ ~(y < 2 * n) /\ ~(y > 4 * n) => depthOf(j, n) = "middle"
    BY <2>2 DEF depthOf
  <2> HIDE DEF x, y
  <2> QED BY <2>2, <2>3, <2>4 DEF TurnedDepth
<1> QED BY <1>4, <1>5, <1>6, <1>7 DEF Depth, n, turned

(* No third of a room is favoured: every block of a room has its image     *)
(* among the blocks of the room turned around.                             *)
THEOREM NoSideIsFavoured == RoomSpec => []ZonesAreSymmetric
<1>1. ASSUME RoomInv PROVE ZonesAreSymmetric
  <2> DEFINE turned == {Turned(q) : q \in DOMAIN map}
  <2> DEFINE image == [p \in turned |-> map[Turned(p)]]
  <2> DEFINE seats == FreeSeats(map) \intersect Positions
  <2> DEFINE others == FreeSeats(image) \intersect Positions
  <2>1. DOMAIN map \in SUBSET Positions /\ Columns \in Nat /\ Rows \in Nat
    BY <1>1, RoomFacts, SeatingConstants
  <2>0. ASSUME NEW p \in Positions
        PROVE  Turned(p) \in Positions /\ Turned(Turned(p)) = p
    <3>1. p[1] \in 1 .. Rows /\ p[2] \in 1 .. Columns /\ p = <<p[1], p[2]>>
      BY DEF Positions
    <3>2. /\ Rows + 1 - p[1] \in 1 .. Rows /\ Rows + 1 - (Rows + 1 - p[1]) = p[1]
          /\ Columns + 1 - p[2] \in 1 .. Columns /\ Columns + 1 - (Columns + 1 - p[2]) = p[2]
      BY <2>1, <3>1
    <3> QED BY <3>1, <3>2 DEF Turned, Positions
  <2>2. DOMAIN image \in SUBSET Positions
    BY <2>0, <2>1
  <2>3. ASSUME NEW p \in Positions
        PROVE  p \in others <=> Turned(p) \in seats
    <3>1. p \in turned <=> Turned(p) \in DOMAIN map
      BY <2>0, <2>1
    <3>2. p \in turned => image[p] = map[Turned(p)]
      OBVIOUS
    <3> QED BY <2>0, <3>1, <3>2 DEF FreeSeats
  <2>7. RowsOf(map) \in SUBSET (1 .. Rows) /\ RowsOf(image) = {Rows + 1 - q : q \in RowsOf(map)}
    <3>1. RowsOf(map) \in SUBSET (1 .. Rows)
      BY <2>1 DEF RowsOf, Positions
    <3>2. RowsOf(image) = {Turned(q)[1] : q \in DOMAIN map}
      BY DEF RowsOf
    <3>3. \A q : Turned(q)[1] = Rows + 1 - q[1]
      BY DEF Turned
    <3> QED BY <3>1, <3>2, <3>3 DEF RowsOf
  <2> HIDE DEF image
  <2>4. /\ seats \in SUBSET Positions
        /\ \A block \in Summary(map, Positions) :
             block.row \in 1 .. Rows /\ block = Block(RowsOf(map), block.row, block.columns) /\ LongestRun(seats, block.row, block)
    BY <2>1, SummaryBlocks
  <2>5. /\ \A block \in Summary(image, Positions) :
             block.row \in 1 .. Rows /\ block = Block(RowsOf(image), block.row, block.columns) /\ LongestRun(others, block.row, block)
        /\ \A r \in 1 .. Rows, a \in 1 .. Columns, b \in 1 .. Columns :
             a <= b /\ Together(others, r, a, b) =>
               \E block \in Summary(image, Positions) :
                 block.row = r /\ block.columns[1] <= a /\ b <= End(block.columns)
    BY <2>2, SummaryBlocks
  <2>8. others \in SUBSET Positions
    OBVIOUS
  <2> HIDE DEF seats, others
  <2>6. ASSUME NEW block \in Summary(map, Positions)
        PROVE  \E other \in Summary(image, Positions) :
                 /\ <<other.row, other.columns[1]>> = Turned(<<block.row, End(block.columns)>>)
                 /\ other.size = block.size
                 /\ other.depth = TurnedDepth(block.depth)
                 /\ other.position = TurnedZone(block.position)
    <3> DEFINE r == block.row
    <3> DEFINE a == block.columns[1]
    <3> DEFINE b == End(block.columns)
    <3>1. /\ r \in 1 .. Rows /\ Whole(block.columns) /\ 1 <= a /\ b <= Columns /\ Together(seats, r, a, b)
          /\ <<r, a - 1>> \notin seats /\ <<r, b + 1>> \notin seats
      BY <2>4 DEF LongestRun
    <3>2. a \in 1 .. Columns /\ b \in 1 .. Columns /\ a <= b /\ Len(block.columns) = b - a + 1
      BY <2>1, <3>1, WholeEnds
    <3> HIDE DEF r, a, b
    <3> DEFINE q == Rows + 1 - r
    <3>0. q \in 1 .. Rows /\ Rows + 1 - q = r
      BY <2>1, <3>1
    <3> DEFINE a2 == Columns + 1 - b
    <3> DEFINE b2 == Columns + 1 - a
    <3>3. a2 \in 1 .. Columns /\ b2 \in 1 .. Columns /\ a2 <= b2
      BY <2>1, <3>2
    <3>4. Together(others, q, a2, b2)
      <4> SUFFICES ASSUME NEW c \in a2 .. b2 PROVE <<q, c>> \in others
        BY DEF Together
      <4>1. c \in Int /\ Columns + 1 - c \in a .. b
        BY <2>1, <3>2
      <4>2. <<r, Columns + 1 - c>> \in seats
        BY <3>1, <4>1 DEF Together
      <4>3. <<q, c>> \in Positions /\ Turned(<<q, c>>) = <<r, Columns + 1 - c>>
        BY <2>1, <3>0, <3>3 DEF Positions, Turned
      <4> QED BY <2>3, <4>2, <4>3
    <3>5. PICK other \in Summary(image, Positions) :
            other.row = q /\ other.columns[1] <= a2 /\ b2 <= End(other.columns)
      BY <2>5, <3>0, <3>3, <3>4
    <3> DEFINE a3 == other.columns[1]
    <3> DEFINE b3 == End(other.columns)
    <3>6. Whole(other.columns) /\ Together(others, q, a3, b3)
      BY <2>5, <3>5 DEF LongestRun
    <3>7. a3 \in Int /\ b3 \in Int /\ a3 <= b3 /\ Len(other.columns) = b3 - a3 + 1 /\ a3 <= a2 /\ b2 <= b3
      BY <3>5, <3>6, WholeEnds
    <3> HIDE DEF a3, b3
    <3>8. a3 = a2
      <4> SUFFICES ASSUME a3 # a2 PROVE FALSE
        OBVIOUS
      <4>1. a2 - 1 \in a3 .. b3 /\ a2 - 1 \in Int /\ Columns + 1 - (a2 - 1) = b + 1
        BY <2>1, <3>2, <3>3, <3>7
      <4>2. <<q, a2 - 1>> \in others
        BY <3>6, <4>1 DEF Together
      <4>3. <<q, a2 - 1>> \in Positions /\ Turned(<<q, a2 - 1>>) = <<r, b + 1>>
        BY <2>8, <3>0, <4>1, <4>2 DEF Turned
      <4>4. <<r, b + 1>> \in seats
        BY <2>3, <4>2, <4>3
      <4> QED BY <3>1, <4>4
    <3>9. b3 = b2
      <4> SUFFICES ASSUME b3 # b2 PROVE FALSE
        OBVIOUS
      <4>1. b2 + 1 \in a3 .. b3 /\ b2 + 1 \in Int /\ Columns + 1 - (b2 + 1) = a - 1
        BY <2>1, <3>2, <3>3, <3>7
      <4>2. <<q, b2 + 1>> \in others
        BY <3>6, <4>1 DEF Together
      <4>3. <<q, b2 + 1>> \in Positions /\ Turned(<<q, b2 + 1>>) = <<r, a - 1>>
        BY <2>8, <3>0, <4>1, <4>2 DEF Turned
      <4>4. <<r, a - 1>> \in seats
        BY <2>3, <4>2, <4>3
      <4> QED BY <3>1, <4>4
    <3>10. /\ block.size = Len(block.columns) /\ block.depth = Depth(RowsOf(map), r)
           /\ block.position = zoneOf(a, b)
           /\ other.size = Len(other.columns) /\ other.depth = Depth(RowsOf(image), q)
           /\ other.position = zoneOf(a3, b3)
      <4>1. /\ block = Block(RowsOf(map), block.row, block.columns)
            /\ other = Block(RowsOf(image), other.row, other.columns)
        BY <2>4, <2>5
      <4>2. \A rows, u, run : /\ Block(rows, u, run).size = Len(run)
                              /\ Block(rows, u, run).depth = Depth(rows, u)
                              /\ Block(rows, u, run).position = zoneOf(run[1], End(run))
        BY DEF Block
      <4> QED BY <3>5, <4>1, <4>2 DEF r, a, b, a3, b3
    <3>11. other.size = block.size
      BY <2>1, <3>2, <3>7, <3>8, <3>9, <3>10
    <3>12. other.position = TurnedZone(block.position)
      BY <3>2, <3>8, <3>9, <3>10, ZoneTurned
    <3>13. other.depth = TurnedDepth(block.depth)
      <4>1. r \in RowsOf(map)
        <5>1. <<r, a>> \in seats
          BY <3>1, <3>2 DEF Together
        <5>2. <<r, a>> \in DOMAIN map
          BY <5>1 DEF seats, FreeSeats
        <5> QED BY <5>2 DEF RowsOf
      <4> QED BY <2>7, <3>10, <4>1, DepthTurned
    <3>14. <<other.row, other.columns[1]>> = Turned(<<r, b>>)
      BY <3>5, <3>8 DEF Turned, a3
    <3> QED BY <3>5, <3>11, <3>12, <3>13, <3>14 DEF r, b
  <2> QED BY <2>6 DEF ZonesAreSymmetric, image
<1> QED BY <1>1, RoomInvariant, PTL

=============================================================================

-------------------------- MODULE RedisStreamProofs --------------------------
(***************************************************************************)
(* Proofs about RedisStream, for any clients and callers, buffer, batch    *)
(* and lives of the keys, and any number of entries.                       *)
(***************************************************************************)
EXTENDS RedisStream, WellFoundedInduction, TLAPS

-----------------------------------------------------------------------------
(* The inductive invariant.                                                *)

Entry == [kind : {"token"} \cup Terminal, offset : Nat, epoch : Nat]

ReaderState == [pc     : {"idle", "live", "ended", "failed"},
                from   : Nat,
                cursor : Nat,
                queue  : SUBSET Nat]

Typed ==
    /\ entries \in Seq(Entry)
    /\ gone \in 0..Len(entries)
    /\ counter \in Nat /\ epoch \in Nat
    /\ life \in [Key -> 0..NoExpiry]
    /\ life["counter"] # NoExpiry /\ life["privacy"] # NoExpiry
    /\ marking \in [Caller -> Key \cup {"none"}]
    /\ torn \in BOOLEAN
    /\ reader \in [Client -> ReaderState]
    /\ resume \in [Client -> Nat]
    /\ seen \in [Client -> Seq(0..Len(entries))]
    /\ lost \in [Client -> SUBSET (1..Len(entries))]

(* A key is present exactly while it has a life.                           *)
Present ==
    /\ (life["stream"] = 0) = (Retained = {})
    /\ (life["counter"] = 0) = (counter = 0)

(* Offsets ascend within the life of a counter, lives come one after the   *)
(* other, and the counter is ahead of the offsets it gave.                 *)
Numbered ==
    \A i \in 1..Len(entries) : IsToken(i) =>
        /\ entries[i].epoch <= epoch
        /\ entries[i].epoch = epoch => entries[i].offset < counter
        /\ \A j \in i + 1 .. Len(entries) : IsToken(j) =>
              /\ entries[i].epoch <= entries[j].epoch
              /\ entries[i].epoch = entries[j].epoch =>
                    entries[i].offset < entries[j].offset

(* Some call of mark_terminal sends one of these PEXPIREs next.            *)
Marking(keys) == \E e \in Caller : marking[e] \in keys

(* As long as nothing was torn: the counter of the tokens that are there   *)
(* is there, and lives as long as they do, but for a PEXPIRE that is about *)
(* to be sent.                                                             *)
InStep ==
    /\ \A i \in Tokens : entries[i].epoch = epoch
    /\ (counter = 0) = (Tokens = {})
    /\ counter # 0 => /\ life["stream"] # NoExpiry
                      /\ life["counter"] = life["stream"] \/ Marking({"counter"})
    /\ life["stream"] = NoExpiry => Marking({"stream"})
    /\ Marking({"counter", "privacy"}) =>
          life["stream"] \in {0, CompletedTtl, NoExpiry}
    /\ life["privacy"] # 0 => life["privacy"] >= life["stream"] \/ Marking(Key)

KeysOK == Typed /\ Present /\ Numbered /\ (torn \/ InStep)

-----------------------------------------------------------------------------
(* What a client was given.                                                *)
Given(c) == ToSet(seen[c])

(* What a connected reader has still to pass on, or to read.               *)
Coming(c) == reader[c].queue \cup {i \in Retained : i > reader[c].cursor}

(* A reader has read as far as its cursor, and no further than the first   *)
(* end, which it has yet to pass on; it is ahead of what its client has.   *)
CursorOK(c) ==
    /\ reader[c].cursor <= Len(entries)
    /\ reader[c].queue \subseteq 0..reader[c].cursor
    /\ Reading(c) => /\ \A i \in reader[c].queue, e \in Ends : i <= e
                     /\ \A e \in Ends : e <= reader[c].cursor => e \in reader[c].queue
                     /\ \A i \in Given(c) : i <= reader[c].cursor \/ i <= gone
    /\ reader[c].pc # "ended" => \A i \in Given(c), e \in Ends : i < e
    /\ reader[c].pc = "ended" => /\ seen[c] # <<>>
                                 /\ \A e \in Ends : Last(seen[c]) <= e

(* Nothing is asked for again.                                             *)
ResumeOK(c) ==
    /\ \A i \in Given(c) : i > gone /\ IsToken(i) => entries[i].offset < resume[c]
    /\ Reading(c) => \A i \in Given(c), j \in reader[c].queue :
                        IsToken(i) /\ IsToken(j) => i < j

(* Where the client is now: the token it was given last, if no gap is due. *)
GivenLast(c) == IF Gap \in reader[c].queue THEN {}
                ELSE {i \in Given(c) : i = Last(seen[c])}

(* The tokens numbered after i by the same counter are still to come or    *)
(* were lost, or none of that counter is to come any more after them.      *)
Follows(c, i) ==
    \A m \in i + 1 .. Len(entries) :
        IsToken(m) /\ entries[m].epoch = entries[i].epoch =>
            \/ m \in lost[c] \/ m \in Coming(c)
            \/ /\ entries[i].epoch # epoch
               /\ \A j \in Coming(c) : j > m /\ IsToken(j) =>
                     entries[j].epoch # entries[i].epoch

SeamOK(c) ==
    Reading(c) => \A i \in GivenLast(c) \cup reader[c].queue :
                      IsToken(i) => Follows(c, i)

ReaderOK(c) ==
    /\ CursorOK(c)
    /\ seen[c] # <<>> /\ IsToken(Last(seen[c])) => resume[c] = After(Last(seen[c]))
    /\ torn \/ (ResumeOK(c) /\ SeamOK(c))

IInv == /\ KeysOK
        /\ \A c \in Client : ReaderOK(c)
        /\ NothingRetainedIsSkipped
        /\ OnlyLagLosesSilently

-----------------------------------------------------------------------------
(* Least and greatest members.                                             *)

(* A set of naturals that is not empty has a least member, which is Min.   *)
LEMMA MinIsLeast ==
    ASSUME NEW T \in SUBSET Nat, T # {}
    PROVE  Min(T) \in T /\ \A k \in T : Min(T) <= k
<1> DEFINE R == OpToRel(<, Nat)
<1>1. IsWellFoundedOn(R, Nat)
  BY NatLessThanWellFounded
<1>2. \A x, y \in Nat : y < x => <<y, x>> \in R
  BY DEF OpToRel
<1> HIDE DEF R
<1>3. PICK m \in T : \A y \in T : ~(<<y, m>> \in R)
  BY <1>1, WFMin
<1>4. \A k \in T : m <= k
  <2>1. \A k \in T : ~(k < m)
    BY <1>2, <1>3
  <2>2. QED BY <2>1
<1>5. QED BY <1>4 DEF Min

(* A set of naturals up to n that is not empty has a greatest one, Max.    *)
LEMMA MaxIsGreatest ==
    ASSUME NEW n \in Nat, NEW T \in SUBSET (0..n), T # {}
    PROVE  Max(T) \in T /\ \A k \in T : k <= Max(T)
<1> DEFINE Below == {n - k : k \in T}
<1>1. Below \in SUBSET Nat /\ Below # {}
  <2>1. \A k \in T : n - k \in Nat
    OBVIOUS
  <2>2. QED BY <2>1
<1>2. Min(Below) \in Below /\ \A d \in Below : Min(Below) <= d
  BY <1>1, MinIsLeast
<1>3. PICK m \in T : Min(Below) = n - m
  BY <1>2
<1>4. \A k \in T : k <= m
  <2> SUFFICES ASSUME NEW k \in T PROVE k <= m
    OBVIOUS
  <2>1. n - m <= n - k
    BY <1>2, <1>3
  <2>2. QED BY <2>1
<1>5. QED BY <1>4 DEF Max

LEMMA MaxOfTwo ==
    ASSUME NEW a \in Nat, NEW b \in Int
    PROVE  /\ Max({a, b}) \in {a, b}
           /\ a <= Max({a, b}) /\ b <= Max({a, b})
BY DEF Max

-----------------------------------------------------------------------------
(* The keys, operation by operation.                                       *)

(* What an operation on the keys leaves of the readers' types.             *)
LEMMA ReadersTyped ==
    ASSUME Typed, UNCHANGED <<reader, resume, seen>>,
           entries' \in Seq(Entry), Len(entries) <= Len(entries'),
           gone' \in 0..Len(entries'),
           Losing(gone + 1 .. gone') \/ UNCHANGED lost
    PROVE  /\ reader' \in [Client -> ReaderState]
           /\ resume' \in [Client -> Nat]
           /\ seen' \in [Client -> Seq(0..Len(entries'))]
           /\ lost' \in [Client -> SUBSET (1..Len(entries'))]
<1>1. gone + 1 .. gone' \subseteq 1..Len(entries')
  BY DEF Typed
<1>2. lost' \in [Client -> SUBSET (1..Len(entries'))]
  <2>1. \A c \in Client : lost[c] \subseteq 1..Len(entries')
    BY DEF Typed
  <2>2. CASE UNCHANGED lost
    BY <2>1, <2>2 DEF Typed
  <2>3. CASE Losing(gone + 1 .. gone')
    BY <1>1, <2>1, <2>3 DEF Losing
  <2>4. QED BY <2>2, <2>3
<1>3. seen' \in [Client -> Seq(0..Len(entries'))]
  <2>1. 0..Len(entries) \subseteq 0..Len(entries')
    BY DEF Typed
  <2>2. \A c \in Client : seen[c] \in Seq(0..Len(entries'))
    BY <2>1 DEF Typed
  <2>3. QED BY <2>2 DEF Typed
<1>4. QED BY <1>2, <1>3 DEF Typed


(* One more entry.                                                         *)
LEMMA Appended ==
    ASSUME Typed, NEW e \in Entry, entries' = Append(entries, e)
    PROVE  /\ Len(entries) \in Nat
           /\ entries' \in Seq(Entry)
           /\ Len(entries') = Len(entries) + 1
           /\ \A i \in 1..Len(entries) : entries'[i] = entries[i]
           /\ entries'[Len(entries) + 1] = e
BY DEF Typed

LEMMA EndIsEntry ==
    ASSUME NEW kind \in Terminal
    PROVE  End(kind) \in Entry /\ End(kind).kind \in Terminal /\ End(kind).kind # "token"
BY DEF End, Entry, Terminal

(* No command that adds no token and leaves the counter changes numbers.   *)
LEMMA NumberedStays ==
    ASSUME Typed, Numbered, UNCHANGED <<counter, epoch>>,
           \/ UNCHANGED entries
           \/ \E kind \in Terminal : entries' = Append(entries, End(kind))
    PROVE  Numbered'
<1>1. CASE UNCHANGED entries
  BY <1>1 DEF Numbered, IsToken
<1>2. ASSUME NEW kind \in Terminal, entries' = Append(entries, End(kind))
      PROVE  Numbered'
  <2>1. PICK e \in Entry : e = End(kind) /\ e.kind # "token"
    BY EndIsEntry
  <2>2. /\ Len(entries) \in Nat
        /\ Len(entries') = Len(entries) + 1
        /\ \A i \in 1..Len(entries) : entries'[i] = entries[i]
        /\ entries'[Len(entries) + 1].kind # "token"
    BY <1>2, <2>1, Appended
  <2>3. \A i \in 1..Len(entries') :
           IsToken(i)' => i \in 1..Len(entries) /\ IsToken(i) /\ entries'[i] = entries[i]
    BY <2>2 DEF IsToken
  <2>4. QED BY <2>2, <2>3 DEF Numbered
<1>3. QED BY <1>1, <1>2

(* A publish adds the next offset, trims what MAXLEN allows, and refreshes *)
(* all three lives.                                                        *)
LEMMA PublishFacts ==
    ASSUME KeysOK, Publish
    PROVE  /\ Len(entries) \in Nat
           /\ entries' \in Seq(Entry) /\ Len(entries') = Len(entries) + 1
           /\ \A i \in 1..Len(entries) : entries'[i] = entries[i]
           /\ entries'[Len(entries) + 1] = Token(counter)
           /\ gone' \in gone..Len(entries)
           /\ life' \in [Key -> 0..NoExpiry]
           /\ life'["stream"] = IdleTtl /\ life'["counter"] = IdleTtl
           /\ life'["privacy"] \in {0, IdleTtl}
<1>1. Token(counter) \in Entry
  BY DEF Token, Entry, KeysOK, Typed
<1>2. PICK e \in Entry : e = Token(counter)
  BY <1>1
<1>3. entries' = Append(entries, e)
  BY <1>2 DEF Publish
<1>4. /\ Len(entries) \in Nat
      /\ entries' \in Seq(Entry) /\ Len(entries') = Len(entries) + 1
      /\ \A i \in 1..Len(entries) : entries'[i] = entries[i]
      /\ entries'[Len(entries) + 1] = Token(counter)
  BY <1>2, <1>3, Appended DEF KeysOK
<1>5. gone' \in gone..Len(entries)
  <2>1. gone \in Nat /\ gone <= Len(entries) /\ Len(entries) + 1 - MaxBuffer \in Int
    BY <1>4, RedisAssumption DEF KeysOK, Typed
  <2>2. KeptFrom \in Int /\ KeptFrom <= Len(entries)
    <3>1. KeptFrom \in {gone, Len(entries) + 1 - MaxBuffer}
      BY <2>1, MaxOfTwo DEF KeptFrom
    <3>2. QED BY <1>4, <2>1, <3>1, RedisAssumption
  <2>3. QED BY <1>4, <2>1, <2>2 DEF Publish
<1>6. /\ life' \in [Key -> 0..NoExpiry]
      /\ life'["stream"] = IdleTtl /\ life'["counter"] = IdleTtl
      /\ life'["privacy"] \in {0, IdleTtl}
  <2>1. life' = Refreshed
    BY DEF Publish
  <2>2. IdleTtl \in 0..NoExpiry /\ 0 \in 0..NoExpiry
    BY RedisAssumption DEF NoExpiry
  <2>3. QED BY <2>1, <2>2 DEF Refreshed, Key
<1>7. QED BY <1>4, <1>5, <1>6

LEMMA PublishKeys ==
    ASSUME KeysOK, Publish
    PROVE  KeysOK'
<1>0. Typed /\ Present /\ Numbered /\ (torn \/ InStep)
  BY DEF KeysOK
<1>1. /\ Len(entries) \in Nat /\ gone \in Nat /\ counter \in Nat /\ epoch \in Nat
      /\ entries' \in Seq(Entry) /\ Len(entries') = Len(entries) + 1
      /\ \A i \in 1..Len(entries) : entries'[i] = entries[i]
      /\ entries'[Len(entries) + 1] = Token(counter)
      /\ gone' \in gone..Len(entries)
      /\ life' \in [Key -> 0..NoExpiry]
      /\ life'["stream"] = IdleTtl /\ life'["counter"] = IdleTtl
      /\ life'["privacy"] \in {0, IdleTtl}
  BY <1>0, PublishFacts DEF Typed
<1>2. /\ counter' = counter + 1 /\ Losing(gone + 1 .. gone')
      /\ torn' = (torn \/ Marking({"counter", "privacy"}))
      /\ UNCHANGED <<epoch, marking, reader, resume, seen>>
  BY DEF Publish, Marking
<1>3. IdleTtl \in Nat /\ IdleTtl > 0 /\ NoExpiry = IdleTtl + 1
  BY RedisAssumption DEF NoExpiry
<1>4. Typed'
  <2>1. gone' \in 0..Len(entries')
    BY <1>1
  <2>2. /\ reader' \in [Client -> ReaderState]
        /\ resume' \in [Client -> Nat]
        /\ seen' \in [Client -> Seq(0..Len(entries'))]
        /\ lost' \in [Client -> SUBSET (1..Len(entries'))]
    BY <1>0, <1>1, <1>2, <2>1, ReadersTyped
  <2>3. torn' \in BOOLEAN
    BY <1>2
  <2>4. QED BY <1>0, <1>1, <1>2, <1>3, <2>1, <2>2, <2>3 DEF Typed
<1>5. /\ entries'[Len(entries) + 1].kind = "token"
      /\ entries'[Len(entries) + 1].offset = counter
      /\ entries'[Len(entries) + 1].epoch = epoch
  BY <1>1 DEF Token
<1>6. Len(entries) + 1 \in Tokens'
  BY <1>1, <1>5 DEF Tokens, Retained, IsToken, Gap
<1>7. Present'
  <2>1. Retained' # {}
    BY <1>6 DEF Tokens
  <2>2. QED BY <1>1, <1>2, <1>3, <2>1 DEF Present
<1>8. Numbered'
  <2>1. \A i \in 1..Len(entries) : IsToken(i)' => IsToken(i)
    BY <1>1 DEF IsToken
  <2>2. \A i \in 1..Len(entries) : IsToken(i) =>
           /\ entries[i].epoch <= epoch
           /\ entries[i].epoch = epoch => entries[i].offset < counter
    BY <1>0 DEF Numbered
  <2>3. \A i \in 1..Len(entries) : \A j \in i + 1 .. Len(entries) :
           IsToken(i) /\ IsToken(j) =>
              /\ entries[i].epoch <= entries[j].epoch
              /\ entries[i].epoch = entries[j].epoch =>
                    entries[i].offset < entries[j].offset
    BY <1>0 DEF Numbered
  <2>4. \A i \in 1..Len(entries) : entries[i].offset \in Nat /\ entries[i].epoch \in Nat
    <3>1. \A i \in 1..Len(entries) : entries[i] \in Entry
      BY <1>0 DEF Typed
    <3>2. QED BY <3>1 DEF Entry
  <2>5. ASSUME NEW i \in 1..Len(entries'), IsToken(i)'
        PROVE  /\ entries'[i].epoch <= epoch'
               /\ entries'[i].epoch = epoch' => entries'[i].offset < counter'
    <3>1. CASE i = Len(entries) + 1
      BY <1>1, <1>2, <1>5, <3>1
    <3>2. CASE i \in 1..Len(entries)
      <4>1. IsToken(i)
        BY <2>1, <2>5, <3>2
      <4>2. /\ entries[i].epoch <= epoch
            /\ entries[i].epoch = epoch => entries[i].offset < counter
            /\ entries[i].offset \in Nat /\ counter \in Nat
        BY <1>1, <2>2, <2>4, <3>2, <4>1
      <4>3. entries'[i] = entries[i] /\ epoch' = epoch /\ counter' = counter + 1
        BY <1>1, <1>2, <3>2
      <4>4. QED BY <4>2, <4>3
    <3>3. QED BY <1>1, <3>1, <3>2
  <2>6. ASSUME NEW i \in 1..Len(entries'), IsToken(i)',
               NEW j \in i + 1 .. Len(entries'), IsToken(j)'
        PROVE  /\ entries'[i].epoch <= entries'[j].epoch
               /\ entries'[i].epoch = entries'[j].epoch =>
                     entries'[i].offset < entries'[j].offset
    <3>1. i \in 1..Len(entries) /\ entries'[i] = entries[i] /\ IsToken(i)
      BY <1>1, <2>1, <2>6
    <3>2. CASE j = Len(entries) + 1
      BY <1>1, <1>5, <2>2, <3>1, <3>2
    <3>3. CASE j \in i + 1 .. Len(entries)
      <4>1. entries'[j] = entries[j] /\ IsToken(j)
        BY <1>1, <2>1, <2>6, <3>1, <3>3
      <4>2. QED BY <2>3, <3>1, <3>3, <4>1
    <3>4. QED BY <1>1, <3>1, <3>2, <3>3
  <2>7. QED BY <2>5, <2>6 DEF Numbered
<1>9. torn' \/ InStep'
  <2> SUFFICES ASSUME ~torn' PROVE InStep'
    OBVIOUS
  <2>1. ~torn /\ InStep /\ ~Marking({"counter", "privacy"})
    BY <1>0, <1>2
  <2>2. ~Marking({"counter", "privacy"})'
    BY <1>2, <2>1 DEF Marking
  <2>3. \A i \in Tokens' : entries'[i].epoch = epoch'
    <3> SUFFICES ASSUME NEW i \in Tokens' PROVE entries'[i].epoch = epoch'
      OBVIOUS
    <3>1. CASE i = Len(entries) + 1
      BY <1>2, <1>5, <3>1
    <3>2. CASE i # Len(entries) + 1
      <4>1. i \in 1..Len(entries) /\ i \in Tokens
        BY <1>1, <3>2 DEF Tokens, Retained, IsToken
      <4>2. QED BY <1>1, <1>2, <2>1, <4>1 DEF InStep
    <3>3. QED BY <3>1, <3>2
  <2>4. Tokens' # {} /\ counter' # 0
    BY <1>1, <1>2, <1>6
  <2>5. QED BY <1>1, <1>2, <1>3, <2>2, <2>3, <2>4 DEF InStep
<1>10. QED BY <1>4, <1>7, <1>8, <1>9 DEF KeysOK


LEMMA SameEntries ==
    ASSUME UNCHANGED <<entries, gone>>
    PROVE  Retained' = Retained /\ Tokens' = Tokens /\ Ends' = Ends
BY DEF Retained, Tokens, Ends, IsToken, IsEnd

LEMMA SetPrivateKeys ==
    ASSUME KeysOK, SetPrivate
    PROVE  KeysOK'
<1>0. Typed /\ Present /\ Numbered /\ (torn \/ InStep)
  BY DEF KeysOK
<1>1. /\ UNCHANGED <<entries, gone, counter, epoch, marking, torn, reader, resume, seen, lost>>
      /\ life' = [life EXCEPT !["privacy"] = IdleTtl]
  BY DEF SetPrivate
<1>2. IdleTtl \in Nat /\ IdleTtl # NoExpiry /\ IdleTtl \in 0..NoExpiry /\ NoExpiry = IdleTtl + 1
  BY RedisAssumption DEF NoExpiry
<1>3. /\ life \in [Key -> 0..NoExpiry]
      /\ life'["stream"] = life["stream"] /\ life'["counter"] = life["counter"]
      /\ life'["privacy"] = IdleTtl /\ life' \in [Key -> 0..NoExpiry]
  BY <1>0, <1>1, <1>2 DEF Typed, Key
<1>4. Typed'
  <2>1. Len(entries') = Len(entries)
    BY <1>1
  <2>2. QED BY <1>0, <1>1, <1>2, <1>3, <2>1 DEF Typed
<1>5. Retained' = Retained /\ Tokens' = Tokens
  BY <1>1, SameEntries
<1>6. Present'
  BY <1>0, <1>1, <1>3, <1>5 DEF Present
<1>7. Numbered'
  BY <1>0, <1>1, NumberedStays
<1>8. ASSUME InStep PROVE InStep'
  <2>1. /\ Marking({"counter"})' = Marking({"counter"})
        /\ Marking({"stream"})' = Marking({"stream"})
        /\ Marking({"counter", "privacy"})' = Marking({"counter", "privacy"})
    BY <1>1 DEF Marking
  <2>2. life["stream"] = NoExpiry => Marking(Key)'
    BY <1>1, <1>8 DEF InStep, Marking, Key
  <2>3. life["stream"] \in 0..NoExpiry
    BY <1>3 DEF Key
  <2>4. IdleTtl >= life["stream"] \/ Marking(Key)'
    BY <1>2, <2>2, <2>3
  <2>5. QED BY <1>1, <1>3, <1>5, <1>8, <2>1, <2>4 DEF InStep
<1>9. QED BY <1>0, <1>1, <1>4, <1>6, <1>7, <1>8 DEF KeysOK

(* A terminal is no token, and is there as soon as it is added.            *)
LEMMA MarkFacts ==
    ASSUME KeysOK, NEW e \in Caller, NEW kind \in Terminal, MarkTerminal(e, kind)
    PROVE  /\ Len(entries) \in Nat
           /\ entries' \in Seq(Entry) /\ Len(entries') = Len(entries) + 1
           /\ \A i \in 1..Len(entries) : entries'[i] = entries[i]
           /\ entries'[Len(entries) + 1].kind # "token"
           /\ Retained' # {}
           /\ Tokens' = Tokens
<1>1. PICK x \in Entry : x = End(kind) /\ x.kind # "token"
  BY EndIsEntry
<1>2. /\ Len(entries) \in Nat
      /\ entries' \in Seq(Entry) /\ Len(entries') = Len(entries) + 1
      /\ \A i \in 1..Len(entries) : entries'[i] = entries[i]
      /\ entries'[Len(entries) + 1].kind # "token"
  BY <1>1, Appended DEF KeysOK, MarkTerminal
<1>3. gone' = gone /\ gone \in 0..Len(entries)
  BY DEF MarkTerminal, KeysOK, Typed
<1>4. Len(entries) + 1 \in Retained'
  BY <1>2, <1>3 DEF Retained
<1>5. Tokens' = Tokens
  BY <1>2, <1>3 DEF Tokens, Retained, IsToken
<1>6. QED BY <1>2, <1>4, <1>5


LEMMA MarkKeys ==
    ASSUME KeysOK, NEW e \in Caller, NEW kind \in Terminal, MarkTerminal(e, kind)
    PROVE  KeysOK'
<1>0. Typed /\ Present /\ Numbered /\ (torn \/ InStep)
  BY DEF KeysOK
<1>1. /\ Len(entries) \in Nat
      /\ entries' \in Seq(Entry) /\ Len(entries') = Len(entries) + 1
      /\ \A i \in 1..Len(entries) : entries'[i] = entries[i]
      /\ Retained' # {}
      /\ Tokens' = Tokens
  BY MarkFacts
<1>2. /\ marking[e] = "none"
      /\ marking' = [marking EXCEPT ![e] = "stream"]
      /\ life' = [life EXCEPT !["stream"] = IF @ = 0 THEN NoExpiry ELSE @]
      /\ UNCHANGED <<gone, counter, epoch, torn, reader, resume, seen, lost>>
  BY DEF MarkTerminal
<1>3. /\ IdleTtl \in Nat /\ NoExpiry = IdleTtl + 1 /\ NoExpiry # 0
      /\ NoExpiry \in 0..NoExpiry
  BY RedisAssumption DEF NoExpiry
<1>4. /\ life \in [Key -> 0..NoExpiry] /\ life' \in [Key -> 0..NoExpiry]
      /\ life'["counter"] = life["counter"] /\ life'["privacy"] = life["privacy"]
      /\ life["stream"] = 0 => life'["stream"] = NoExpiry
      /\ life["stream"] # 0 => life'["stream"] = life["stream"]
  BY <1>0, <1>2, <1>3 DEF Typed, Key
<1>5. /\ marking' \in [Caller -> Key \cup {"none"}]
      /\ marking'[e] = "stream"
      /\ \A x \in Caller : x # e => marking'[x] = marking[x]
  BY <1>0, <1>2 DEF Typed, Key
<1>6. Typed'
  <2>1. gone' \in 0..Len(entries')
    BY <1>0, <1>1, <1>2 DEF Typed
  <2>2. /\ reader' \in [Client -> ReaderState]
        /\ resume' \in [Client -> Nat]
        /\ seen' \in [Client -> Seq(0..Len(entries'))]
        /\ lost' \in [Client -> SUBSET (1..Len(entries'))]
    BY <1>0, <1>1, <1>2, <2>1, ReadersTyped
  <2>3. QED BY <1>0, <1>1, <1>2, <1>4, <1>5, <2>1, <2>2 DEF Typed
<1>7. Present'
  BY <1>0, <1>1, <1>2, <1>3, <1>4 DEF Present
<1>8. Numbered'
  BY <1>0, NumberedStays DEF MarkTerminal
<1>9. ASSUME InStep PROVE InStep'
  <2>1. /\ Marking({"stream"})' /\ Marking(Key)'
        /\ Marking({"counter"}) => Marking({"counter"})'
        /\ Marking({"counter", "privacy"})' => Marking({"counter", "privacy"})
    BY <1>2, <1>5 DEF Marking, Key
  <2>2. \A i \in Tokens : entries'[i] = entries[i]
    BY <1>0, <1>1 DEF Tokens, Retained, Typed
  <2>3. \A i \in Tokens' : entries'[i].epoch = epoch'
    BY <1>1, <1>2, <1>9, <2>2 DEF InStep
  <2>4. counter # 0 => life["stream"] # 0
    BY <1>0, <1>9 DEF InStep, Present, Tokens
  <2>5. QED BY <1>1, <1>2, <1>3, <1>4, <1>9, <2>1, <2>3, <2>4 DEF InStep
<1>10. QED BY <1>0, <1>2, <1>6, <1>7, <1>8, <1>9 DEF KeysOK

LEMMA PexpireKeys ==
    ASSUME KeysOK, NEW e \in Caller, Pexpire(e)
    PROVE  KeysOK'
<1>0. Typed /\ Present /\ Numbered /\ (torn \/ InStep)
  BY DEF KeysOK
<1>1. /\ marking[e] \in Key
      /\ (life' = Shortened(marking[e]) /\ torn' = torn) \/ (life' = life /\ torn' = TRUE)
      /\ marking' = [marking EXCEPT ![e] = Following(marking[e])]
      /\ UNCHANGED <<entries, gone, counter, epoch, reader, resume, seen, lost>>
  BY DEF Pexpire
<1>2. /\ IdleTtl \in Nat /\ NoExpiry = IdleTtl + 1 /\ CompletedTtl \in 0..NoExpiry
      /\ CompletedTtl # NoExpiry /\ CompletedTtl # 0 /\ CompletedTtl \in Nat
  BY RedisAssumption DEF NoExpiry
<1>3. life \in [Key -> 0..NoExpiry]
  BY <1>0 DEF Typed
<1>4. \A key \in Key : life' = Shortened(key) =>
         /\ life' \in [Key -> 0..NoExpiry]
         /\ \A k \in Key : k # key => life'[k] = life[k]
         /\ life[key] = 0 => life'[key] = 0
         /\ life[key] # 0 => life'[key] = CompletedTtl
  BY <1>2, <1>3 DEF Shortened
<1>5. /\ life' \in [Key -> 0..NoExpiry]
      /\ life'["counter"] # NoExpiry /\ life'["privacy"] # NoExpiry
      /\ (life'["stream"] = 0) = (life["stream"] = 0)
      /\ (life'["counter"] = 0) = (life["counter"] = 0)
  BY <1>0, <1>1, <1>2, <1>3, <1>4 DEF Typed, Key
<1>6. /\ marking' \in [Caller -> Key \cup {"none"}]
      /\ marking'[e] = Following(marking[e])
      /\ \A x \in Caller : x # e => marking'[x] = marking[x]
  BY <1>0, <1>1 DEF Typed, Key, Following
<1>7. Typed'
  <2>1. Len(entries') = Len(entries) /\ torn' \in BOOLEAN
    BY <1>0, <1>1 DEF Typed
  <2>2. QED BY <1>0, <1>1, <1>5, <1>6, <2>1 DEF Typed
<1>8. Retained' = Retained /\ Tokens' = Tokens
  BY <1>1, SameEntries
<1>9. Present'
  BY <1>0, <1>1, <1>5, <1>8 DEF Present
<1>10. Numbered'
  BY <1>0, <1>1, NumberedStays
<1>11. ASSUME InStep, life' = Shortened(marking[e]) PROVE InStep'
  <2>1. \A i \in Tokens' : entries'[i].epoch = epoch'
    BY <1>1, <1>8, <1>11 DEF InStep
  <2>2. (counter' = 0) = (Tokens' = {})
    BY <1>1, <1>8, <1>11 DEF InStep
  <2>3. counter # 0 => life["stream"] # 0 /\ life["counter"] # 0
    BY <1>0, <1>11 DEF InStep, Present, Tokens
  <2>4. CASE marking[e] = "stream"
    <3>1. Marking({"counter"})' /\ Marking(Key)'
      BY <1>6, <2>4 DEF Marking, Following, Key
    <3>2. life'["stream"] \in {0, CompletedTtl}
      BY <1>4, <1>11, <2>4 DEF Key
    <3>3. QED BY <1>2, <2>1, <2>2, <3>1, <3>2 DEF InStep
  <2>5. CASE marking[e] = "counter"
    <3>1. /\ Marking(Key)' /\ Marking({"counter", "privacy"})
          /\ Marking({"stream"}) => Marking({"stream"})'
      BY <1>6, <2>5 DEF Marking, Following, Key
    <3>2. /\ life'["stream"] = life["stream"]
          /\ life["counter"] # 0 => life'["counter"] = CompletedTtl
      BY <1>4, <1>11, <2>5 DEF Key
    <3>3. QED BY <1>1, <1>2, <1>11, <2>1, <2>2, <2>3, <3>1, <3>2 DEF InStep
  <2>6. CASE marking[e] = "privacy"
    <3>1. /\ Marking({"counter", "privacy"})
          /\ Marking({"stream"}) => Marking({"stream"})' /\ Marking(Key)'
          /\ Marking({"counter"}) => Marking({"counter"})'
      BY <1>6, <2>6 DEF Marking, Following, Key
    <3>2. /\ life'["stream"] = life["stream"] /\ life'["counter"] = life["counter"]
          /\ life'["privacy"] \in {0, CompletedTtl}
      BY <1>4, <1>11, <2>6 DEF Key
    <3>3. life["stream"] \in {0, CompletedTtl} \/ Marking(Key)'
      BY <1>11, <3>1 DEF InStep
    <3>4. QED BY <1>1, <1>2, <1>11, <2>1, <2>2, <2>3, <3>1, <3>2, <3>3 DEF InStep
  <2>7. QED BY <1>1, <2>4, <2>5, <2>6 DEF Key
<1>12. QED BY <1>0, <1>1, <1>7, <1>9, <1>10, <1>11 DEF KeysOK

LEMMA CutKeys ==
    ASSUME KeysOK, NEW e \in Caller, Cut(e)
    PROVE  KeysOK'
<1>1. /\ UNCHANGED <<entries, gone, counter, epoch, life, reader, resume, seen, lost>>
      /\ marking' = [marking EXCEPT ![e] = "none"] /\ torn' = TRUE
  BY DEF Cut
<1>2. marking' \in [Caller -> Key \cup {"none"}] /\ Len(entries') = Len(entries)
  BY <1>1 DEF KeysOK, Typed, Key
<1>3. Typed'
  BY <1>1, <1>2 DEF KeysOK, Typed
<1>4. Present'
  BY <1>1, SameEntries DEF KeysOK, Present
<1>5. Numbered'
  BY <1>1, NumberedStays DEF KeysOK
<1>6. QED BY <1>1, <1>3, <1>4, <1>5 DEF KeysOK


(* The keys that expire or are deleted: what is left of entries & counter. *)
LEMMA ForgetFacts ==
    ASSUME KeysOK, NEW absent, Forget(absent), UNCHANGED entries
    PROVE  /\ gone' \in gone..Len(entries)
           /\ Retained' \subseteq Retained /\ Tokens' \subseteq Tokens
           /\ "stream" \in absent => Retained' = {} /\ Tokens' = {}
           /\ "stream" \notin absent => Retained' = Retained /\ Tokens' = Tokens
           /\ counter' \in Nat /\ epoch' \in Nat
           /\ Numbered'
<1>1. /\ Len(entries) \in Nat /\ gone \in 0..Len(entries)
      /\ counter \in Nat /\ epoch \in Nat /\ Numbered
  BY DEF KeysOK, Typed
<1>2. gone' \in gone..Len(entries)
  BY <1>1 DEF Forget
<1>3. Retained' \subseteq Retained /\ Tokens' \subseteq Tokens
  BY <1>1, <1>2 DEF Retained, Tokens, IsToken
<1>4. ASSUME "stream" \in absent PROVE Retained' = {} /\ Tokens' = {}
  BY <1>1, <1>4 DEF Forget, Retained, Tokens
<1>5. ASSUME "stream" \notin absent PROVE Retained' = Retained /\ Tokens' = Tokens
  <2>1. gone' = gone
    BY <1>5 DEF Forget
  <2>2. QED BY <2>1, SameEntries
<1>6. /\ counter' \in Nat /\ epoch' \in Nat /\ epoch <= epoch'
      /\ epoch' = epoch => counter' = counter
  BY <1>1 DEF Forget
<1>7. \A i \in 1..Len(entries) : entries[i].epoch \in Nat
  <2>1. \A i \in 1..Len(entries) : entries[i] \in Entry
    BY DEF KeysOK, Typed
  <2>2. QED BY <2>1 DEF Entry
<1>8. Numbered'
  BY <1>1, <1>6, <1>7 DEF Numbered, IsToken
<1>9. QED BY <1>2, <1>3, <1>4, <1>5, <1>6, <1>8

LEMMA DeleteKeys ==
    ASSUME KeysOK, Delete
    PROVE  KeysOK'
<1>1. /\ Forget(Key) /\ life' = [key \in Key |-> 0]
      /\ UNCHANGED <<entries, marking, torn, reader, resume, seen>>
  BY DEF Delete
<1>2. /\ gone' \in gone..Len(entries) /\ Retained' = {} /\ Tokens' = {}
      /\ counter' = 0 /\ epoch' \in Nat /\ Numbered'
  BY <1>1, ForgetFacts DEF Forget, Key
<1>3. /\ IdleTtl \in Nat /\ NoExpiry \in Nat /\ NoExpiry # 0
  BY RedisAssumption DEF NoExpiry
<1>4. Typed'
  <2>1. gone' \in 0..Len(entries') /\ Len(entries') = Len(entries) /\ entries' \in Seq(Entry)
    BY <1>1, <1>2 DEF KeysOK, Typed
  <2>2. /\ reader' \in [Client -> ReaderState]
        /\ resume' \in [Client -> Nat]
        /\ seen' \in [Client -> Seq(0..Len(entries'))]
        /\ lost' \in [Client -> SUBSET (1..Len(entries'))]
    <3>1. Losing(gone + 1 .. gone')
      BY <1>1 DEF Forget
    <3>2. QED BY <1>1, <2>1, <3>1, ReadersTyped DEF KeysOK, Typed
  <2>3. QED BY <1>1, <1>2, <1>3, <2>1, <2>2 DEF KeysOK, Typed, Key
<1>5. life'["stream"] = 0 /\ life'["counter"] = 0 /\ life'["privacy"] = 0
  BY <1>1 DEF Key
<1>6. Present'
  BY <1>2, <1>5 DEF Present
<1>7. InStep'
  BY <1>2, <1>3, <1>5 DEF InStep
<1>8. QED BY <1>2, <1>4, <1>6, <1>7 DEF KeysOK

LEMMA TickKeys ==
    ASSUME KeysOK, Tick
    PROVE  KeysOK'
<1> DEFINE absent == {key \in Key : life'[key] = 0}
<1>0. Typed /\ Present /\ Numbered /\ (torn \/ InStep)
  BY DEF KeysOK
<1>1. /\ \A e \in Caller : marking[e] = "none"
      /\ life' = [key \in Key |-> IF life[key] \in 1..IdleTtl THEN life[key] - 1
                                  ELSE life[key]]
      /\ Forget(absent)
      /\ UNCHANGED <<entries, marking, torn, reader, resume, seen>>
  BY DEF Tick
<1>2. /\ gone' \in gone..Len(entries)
      /\ Tokens' \subseteq Tokens
      /\ "stream" \in absent => Retained' = {} /\ Tokens' = {}
      /\ "stream" \notin absent => Retained' = Retained /\ Tokens' = Tokens
      /\ counter' \in Nat /\ epoch' \in Nat
      /\ Numbered'
  BY <1>0, <1>1, ForgetFacts DEF KeysOK
<1>3. IdleTtl \in Nat /\ NoExpiry = IdleTtl + 1
  BY RedisAssumption DEF NoExpiry
<1>4. /\ life \in [Key -> 0..NoExpiry] /\ life' \in [Key -> 0..NoExpiry]
      /\ \A key \in Key : life'[key] = IF life[key] \in 1..IdleTtl THEN life[key] - 1
                                       ELSE life[key]
  BY <1>0, <1>1, <1>3 DEF Typed
<1>5. Typed'
  <2>1. gone' \in 0..Len(entries') /\ Len(entries') = Len(entries) /\ entries' \in Seq(Entry)
    BY <1>0, <1>1, <1>2 DEF Typed
  <2>2. /\ reader' \in [Client -> ReaderState]
        /\ resume' \in [Client -> Nat]
        /\ seen' \in [Client -> Seq(0..Len(entries'))]
        /\ lost' \in [Client -> SUBSET (1..Len(entries'))]
    <3>1. Losing(gone + 1 .. gone')
      BY <1>1 DEF Forget
    <3>2. QED BY <1>0, <1>1, <2>1, <3>1, ReadersTyped DEF Typed
  <2>3. life'["counter"] # NoExpiry /\ life'["privacy"] # NoExpiry
    BY <1>0, <1>3, <1>4 DEF Typed, Key
  <2>4. QED BY <1>0, <1>1, <1>2, <1>4, <2>1, <2>2, <2>3 DEF Typed
<1>6. /\ counter' = IF life'["counter"] = 0 THEN 0 ELSE counter
      /\ epoch' = IF life'["counter"] = 0 /\ counter # 0 THEN epoch + 1 ELSE epoch
  BY <1>1 DEF Forget, Key
<1>7. life["counter"] \in 0..NoExpiry /\ life["stream"] \in 0..NoExpiry
      /\ life["privacy"] \in 0..NoExpiry
  BY <1>4 DEF Key
<1>8. Present'
  <2>1. (life'["stream"] = 0) = (Retained' = {})
    BY <1>0, <1>2, <1>3, <1>4, <1>7 DEF Present, Key
  <2>2. (life'["counter"] = 0) = (counter' = 0)
    BY <1>0, <1>3, <1>4, <1>6, <1>7 DEF Present, Key
  <2>3. QED BY <2>1, <2>2 DEF Present
<1>9. ASSUME InStep PROVE InStep'
  <2>1. \A keys \in SUBSET Key : ~Marking(keys)
    BY <1>1 DEF Marking, Key
  <2>2. /\ life["stream"] # NoExpiry
        /\ life["privacy"] # 0 => life["privacy"] >= life["stream"]
        /\ counter # 0 => life["counter"] = life["stream"]
    BY <1>9, <2>1 DEF InStep, Key
  <2>3. /\ life'["stream"] # NoExpiry
        /\ life'["privacy"] # 0 => life'["privacy"] >= life'["stream"]
        /\ counter # 0 => life'["counter"] = life'["stream"]
    BY <1>0, <1>3, <1>4, <1>7, <2>2 DEF Key, Typed
  <2>4. CASE life'["counter"] = 0
    <3>1. Tokens' = {}
      BY <1>2, <1>9, <2>3, <2>4 DEF InStep, Key
    <3>2. QED BY <1>1, <1>6, <2>1, <2>3, <2>4, <3>1 DEF InStep, Marking, Key
  <2>5. CASE life'["counter"] # 0
    <3>1. Tokens' = Tokens
      <4>1. CASE counter = 0
        BY <1>2, <1>9, <4>1 DEF InStep
      <4>2. CASE counter # 0
        BY <1>2, <2>3, <2>5, <4>2
      <4>3. QED BY <4>1, <4>2
    <3>2. epoch' = epoch /\ counter' = counter
      BY <1>6, <2>5
    <3>3. QED BY <1>1, <1>9, <2>1, <2>3, <3>1, <3>2 DEF InStep, Marking, Key
  <2>6. QED BY <2>4, <2>5
<1>10. QED BY <1>0, <1>1, <1>2, <1>5, <1>8, <1>9 DEF KeysOK


-----------------------------------------------------------------------------
(* What readers see of an operation on the keys: entries are added at the  *)
(* end, tokens with the current epoch, and removed from the front; what is *)
(* removed ahead of a connected reader is lost to it.                      *)
Written ==
    /\ UNCHANGED <<reader, resume, seen>>
    /\ Len(entries) <= Len(entries')
    /\ \A i \in 1..Len(entries) : entries'[i] = entries[i]
    /\ gone <= gone' /\ gone' <= Len(entries)
    /\ epoch <= epoch'
    /\ \A i \in Len(entries) + 1 .. Len(entries') :
          entries'[i].kind = "token" => entries'[i].epoch = epoch'
    /\ \A c \in Client :
          /\ lost[c] \subseteq lost'[c]
          /\ Reading(c) => {i \in gone + 1 .. gone' : i > reader[c].cursor} \subseteq lost'[c]
    /\ torn => torn'

LEMMA LosingLoses ==
    ASSUME Losing(gone + 1 .. gone')
    PROVE  \A c \in Client :
              /\ lost[c] \subseteq lost'[c]
              /\ Reading(c) =>
                    {i \in gone + 1 .. gone' : i > reader[c].cursor} \subseteq lost'[c]
BY DEF Losing

LEMMA NothingLost ==
    ASSUME Typed, UNCHANGED <<gone, lost>>
    PROVE  \A c \in Client :
              /\ lost[c] \subseteq lost'[c]
              /\ Reading(c) =>
                    {i \in gone + 1 .. gone' : i > reader[c].cursor} \subseteq lost'[c]
<1>1. gone + 1 .. gone' = {}
  BY DEF Typed
<1>2. QED BY <1>1

LEMMA WritesAreSeen ==
    ASSUME KeysOK,
           \/ Publish \/ SetPrivate \/ Delete \/ Tick
           \/ \E e \in Caller : \/ \E kind \in Terminal : MarkTerminal(e, kind)
                                \/ Pexpire(e) \/ Cut(e)
    PROVE  Written
<1>0. /\ Typed /\ Len(entries) \in Nat /\ gone \in 0..Len(entries) /\ epoch \in Nat
      /\ Len(entries) + 1 .. Len(entries) = {}
  BY DEF KeysOK, Typed
<1>1. CASE Publish
  <2>1. /\ Len(entries') = Len(entries) + 1
        /\ \A i \in 1..Len(entries) : entries'[i] = entries[i]
        /\ entries'[Len(entries) + 1] = Token(counter)
        /\ gone' \in gone..Len(entries)
    BY <1>1, PublishFacts
  <2>2. entries'[Len(entries) + 1].epoch = epoch
    BY <2>1 DEF Token
  <2>3. /\ UNCHANGED <<epoch, reader, resume, seen>>
        /\ torn => torn'
        /\ Losing(gone + 1 .. gone')
    BY <1>1 DEF Publish
  <2>4. \A i \in Len(entries) + 1 .. Len(entries') : i = Len(entries) + 1
    BY <1>0, <2>1
  <2>5. QED BY <1>0, <2>1, <2>2, <2>3, <2>4, LosingLoses DEF Written
<1>2. CASE SetPrivate
  <2>1. UNCHANGED <<entries, gone, epoch, torn, reader, resume, seen, lost>>
    BY <1>2 DEF SetPrivate
  <2>2. QED BY <1>0, <2>1, NothingLost DEF Written
<1>3. CASE Delete \/ Tick
  <2>1. PICK absent : Forget(absent)
    BY <1>3 DEF Delete, Tick
  <2>2. UNCHANGED <<entries, torn, reader, resume, seen>>
    BY <1>3 DEF Delete, Tick
  <2>3. gone' \in gone..Len(entries) /\ epoch <= epoch'
    BY <1>0, <2>1, <2>2, ForgetFacts DEF Forget
  <2>4. Losing(gone + 1 .. gone')
    BY <2>1 DEF Forget
  <2>5. QED BY <1>0, <2>2, <2>3, <2>4, LosingLoses DEF Written
<1>4. ASSUME NEW e \in Caller, NEW kind \in Terminal, MarkTerminal(e, kind)
      PROVE  Written
  <2>1. /\ Len(entries') = Len(entries) + 1
        /\ \A i \in 1..Len(entries) : entries'[i] = entries[i]
        /\ entries'[Len(entries) + 1].kind # "token"
    BY <1>4, MarkFacts
  <2>2. UNCHANGED <<gone, epoch, torn, reader, resume, seen, lost>>
    BY <1>4 DEF MarkTerminal
  <2>3. \A i \in Len(entries) + 1 .. Len(entries') : i = Len(entries) + 1
    BY <1>0, <2>1
  <2>4. QED BY <1>0, <2>1, <2>2, <2>3, NothingLost DEF Written
<1>5. ASSUME NEW e \in Caller, Pexpire(e) \/ Cut(e)
      PROVE  Written
  <2>1. UNCHANGED <<entries, gone, epoch, reader, resume, seen, lost>> /\ (torn => torn')
    BY <1>5 DEF Pexpire, Cut
  <2>2. QED BY <1>0, <2>1, NothingLost DEF Written
<1>6. QED BY <1>1, <1>2, <1>3, <1>4, <1>5


(* What stays of the entries, their kinds and what is retained.            *)
LEMMA WrittenFacts ==
    ASSUME KeysOK, KeysOK', Written
    PROVE  /\ Len(entries) \in Nat /\ Len(entries') \in Nat
           /\ gone \in Nat /\ gone' \in Nat /\ gone <= gone'
           /\ \A i \in 0..Len(entries) : /\ IsToken(i)' = IsToken(i)
                                         /\ IsEnd(i)' = IsEnd(i)
           /\ \A i \in 1..Len(entries) : entries'[i] = entries[i]
           /\ \A i \in Tokens' : i <= Len(entries) => i \in Tokens
           /\ \A i \in Ends' : i <= Len(entries) => i \in Ends
<1>1. /\ Len(entries) \in Nat /\ gone \in Nat
      /\ Len(entries') \in Nat /\ gone' \in Nat
  BY DEF KeysOK, Typed
<1>2. gone <= gone' /\ \A i \in 1..Len(entries) : entries'[i] = entries[i]
  BY DEF Written
<1>3. \A i \in 0..Len(entries) : /\ IsToken(i)' = IsToken(i)
                                 /\ IsEnd(i)' = IsEnd(i)
  BY <1>1, <1>2 DEF IsToken, IsEnd, Gap
<1>4. \A i \in Tokens' : i <= Len(entries) => i \in Tokens
  BY <1>1, <1>2 DEF Tokens, Retained, IsToken
<1>5. ASSUME NEW i \in Ends', i <= Len(entries)
      PROVE  i \in Ends
  <2>1. i \in gone' + 1 .. Len(entries') /\ IsEnd(i)'
    BY DEF Ends, Retained
  <2>2. i \in gone + 1 .. Len(entries) /\ i \in 0..Len(entries)
    BY <1>1, <1>2, <1>5, <2>1
  <2>3. IsEnd(i)
    BY <1>3, <2>1, <2>2
  <2>4. QED BY <2>2, <2>3 DEF Ends, Retained
<1>6. QED BY <1>1, <1>2, <1>3, <1>4, <1>5

LEMMA WrittenReader ==
    ASSUME KeysOK, KeysOK', Written, NEW c \in Client, ReaderOK(c)
    PROVE  ReaderOK(c)'
<1>1. /\ Len(entries) \in Nat /\ Len(entries') \in Nat
      /\ gone \in Nat /\ gone' \in Nat /\ gone <= gone'
      /\ \A i \in 0..Len(entries) : /\ IsToken(i)' = IsToken(i)
                                    /\ IsEnd(i)' = IsEnd(i)
      /\ \A i \in 1..Len(entries) : entries'[i] = entries[i]
      /\ \A i \in Ends' : i <= Len(entries) => i \in Ends
  BY WrittenFacts
<1>2. /\ UNCHANGED <<reader, resume, seen>> /\ Len(entries) <= Len(entries')
      /\ gone' <= Len(entries)
  BY DEF Written
<1>3. /\ reader[c] \in ReaderState /\ seen[c] \in Seq(0..Len(entries))
      /\ reader[c].cursor \in Nat /\ resume[c] \in Nat
  BY DEF KeysOK, Typed, ReaderState
<1>4. /\ \A i \in Given(c) : i \in 0..Len(entries)
      /\ seen[c] # <<>> => Last(seen[c]) \in Given(c)
  BY <1>3 DEF Given, ToSet, Last
<1>5. Given(c)' = Given(c) /\ Reading(c)' = Reading(c)
  BY <1>2 DEF Given, Reading
<1>6. CursorOK(c) /\ (torn \/ (ResumeOK(c) /\ SeamOK(c)))
      /\ (seen[c] # <<>> /\ IsToken(Last(seen[c])) => resume[c] = After(Last(seen[c])))
  BY DEF ReaderOK
<1>7. reader[c].cursor <= Len(entries) /\ \A i \in reader[c].queue : i \in 0..Len(entries)
  BY <1>1, <1>3, <1>6 DEF CursorOK
<1>8. CursorOK(c)'
  <2>1. \A i \in 0..Len(entries) : \A e \in Ends' : i < e \/ e \in Ends
    BY <1>1 DEF Ends, Retained
  <2>2. \A e \in Ends' : e \in Nat
    <3>1. \A e \in gone' + 1 .. Len(entries') : e \in Nat
      <4>1. gone' \in Nat /\ Len(entries') \in Nat
        BY <1>1
      <4>2. \A low, high \in Nat : \A e \in low + 1 .. high : e \in Nat
        OBVIOUS
      <4>3. QED BY <4>1, <4>2
    <3>2. QED BY <3>1 DEF Ends, Retained
  <2>3. \A e \in Ends' : e <= reader[c].cursor => e \in Ends
    BY <1>1, <1>3, <1>7, <2>2
  <2>4. Reading(c) => /\ \A i \in reader[c].queue, e \in Ends' : i <= e
                      /\ \A e \in Ends' : e <= reader[c].cursor => e \in reader[c].queue
                      /\ \A i \in Given(c) : i <= reader[c].cursor \/ i <= gone'
    BY <1>1, <1>3, <1>4, <1>6, <1>7, <2>1, <2>2, <2>3 DEF CursorOK
  <2>5. reader[c].pc # "ended" => \A i \in Given(c), e \in Ends' : i < e
    BY <1>4, <1>6, <2>1 DEF CursorOK
  <2>6. reader[c].pc = "ended" => /\ seen[c] # <<>>
                                  /\ \A e \in Ends' : Last(seen[c]) <= e
    BY <1>4, <1>6, <2>1, <2>2 DEF CursorOK
  <2>7. QED BY <1>1, <1>2, <1>3, <1>5, <1>6, <1>7, <2>4, <2>5, <2>6 DEF CursorOK
<1>9. (seen[c] # <<>> /\ IsToken(Last(seen[c])) => resume[c] = After(Last(seen[c])))'
  <2> DEFINE i == Last(seen[c])
  <2> SUFFICES ASSUME seen[c] # <<>>, i # Gap, entries'[i].kind = "token"
               PROVE  resume[c] = entries'[i].offset + 1
    BY <1>2 DEF IsToken, After
  <2>1. i \in 1..Len(entries)
    BY <1>1, <1>4 DEF Gap
  <2>2. entries'[i] = entries[i]
    BY <1>1, <2>1
  <2>3. QED BY <1>6, <2>2 DEF IsToken, After
<1>10. ASSUME ~torn' PROVE ResumeOK(c)'
  <2>1. ResumeOK(c)
    BY <1>6, <1>10 DEF Written
  <2>2. \A i \in Given(c) : i > gone' /\ IsToken(i)' => entries'[i].offset < resume[c]
    BY <1>1, <1>4, <2>1 DEF ResumeOK
  <2>3. Reading(c) => \A i \in Given(c), j \in reader[c].queue :
                         IsToken(i)' /\ IsToken(j)' => i < j
    BY <1>1, <1>4, <1>7, <2>1 DEF ResumeOK
  <2>4. QED BY <1>2, <1>5, <2>2, <2>3 DEF ResumeOK
<1>11. Coming(c)' \subseteq Coming(c) \cup (Len(entries) + 1 .. Len(entries'))
  BY <1>1, <1>2 DEF Coming, Retained
<1>12. \A m \in Coming(c) : m \in Coming(c)' \/ m \in lost'[c] \/ ~Reading(c)
  <2>0. \A m \in gone + 1 .. Len(entries) :
           m \in gone + 1 .. gone' \/ m \in gone' + 1 .. Len(entries')
    <3>1. /\ gone \in Nat /\ gone' \in Nat /\ Len(entries) \in Nat
          /\ Len(entries') \in Nat /\ Len(entries) <= Len(entries')
      BY <1>1, <1>2
    <3>2. \A low, mid, high, top \in Nat : high <= top =>
             \A m \in low + 1 .. high : m \in low + 1 .. mid \/ m \in mid + 1 .. top
      OBVIOUS
    <3>3. QED BY <3>1, <3>2
  <2> SUFFICES ASSUME NEW m \in Coming(c), Reading(c), m \notin reader[c].queue
               PROVE  m \in Coming(c)' \/ m \in lost'[c]
    BY <1>2 DEF Coming
  <2>1. m \in gone + 1 .. Len(entries) /\ m > reader[c].cursor
    BY DEF Coming, Retained
  <2>2. CASE m \in gone + 1 .. gone'
    BY <2>1, <2>2 DEF Written
  <2>3. CASE m \in gone' + 1 .. Len(entries')
    BY <1>2, <2>1, <2>3 DEF Coming, Retained
  <2>4. QED BY <2>0, <2>1, <2>2, <2>3
<1>13. ASSUME ~torn' PROVE SeamOK(c)'
  <2>1. SeamOK(c) /\ Numbered
    BY <1>6, <1>13 DEF Written, KeysOK
  <2> SUFFICES ASSUME Reading(c), NEW i \in GivenLast(c) \cup reader[c].queue, IsToken(i)'
               PROVE  Follows(c, i)'
    <3>1. GivenLast(c)' = GivenLast(c)
      BY <1>2, <1>5 DEF GivenLast
    <3>2. QED BY <1>2, <1>5, <3>1 DEF SeamOK
  <2>2. i \in 1..Len(entries) /\ IsToken(i) /\ entries'[i] = entries[i]
    <3>1. i \in 0..Len(entries)
      BY <1>4, <1>7 DEF GivenLast
    <3>2. i # 0
      BY DEF IsToken, Gap
    <3>3. QED BY <1>1, <3>1, <3>2
  <2>3. Follows(c, i)
    BY <2>1, <2>2 DEF SeamOK
  <2>4. /\ entries[i].epoch \in Nat /\ epoch \in Nat /\ epoch' \in Nat
        /\ entries[i].epoch <= epoch /\ epoch <= epoch'
    <3>1. entries[i] \in Entry
      BY <2>2 DEF KeysOK, Typed
    <3>2. QED BY <2>1, <2>2, <3>1 DEF Entry, KeysOK, Typed, Numbered, Written
  <2>5. ASSUME NEW m \in i + 1 .. Len(entries'), entries'[m].kind = "token",
               entries'[m].epoch = entries[i].epoch
        PROVE  \/ m \in lost'[c] \/ m \in Coming(c)'
               \/ /\ entries[i].epoch # epoch'
                  /\ \A j \in Coming(c)' : j > m /\ entries'[j].kind = "token" =>
                        entries'[j].epoch # entries[i].epoch
    <3>1. CASE m \in Len(entries) + 1 .. Len(entries')
      <4>1. m > reader[c].cursor /\ m \in Retained'
        BY <1>1, <1>2, <1>3, <1>7, <3>1 DEF Retained
      <4>2. QED BY <1>2, <4>1 DEF Coming
    <3>2. CASE m \in i + 1 .. Len(entries)
      <4>1. /\ m \in 1..Len(entries) /\ entries'[m] = entries[m] /\ IsToken(m)
            /\ entries[m].epoch = entries[i].epoch
        BY <1>1, <2>2, <2>5, <3>2 DEF IsToken, Gap
      <4>2. CASE m \in lost[c] \/ m \in Coming(c)
        BY <1>12, <4>2 DEF Written
      <4>3. CASE /\ entries[i].epoch # epoch
                 /\ \A j \in Coming(c) : j > m /\ IsToken(j) =>
                       entries[j].epoch # entries[i].epoch
        <5>1. entries[i].epoch # epoch'
          BY <2>4, <4>3
        <5>2. ASSUME NEW j \in Coming(c)', j > m, entries'[j].kind = "token"
              PROVE  entries'[j].epoch # entries[i].epoch
          <6>1. CASE j \in Len(entries) + 1 .. Len(entries')
            BY <5>1, <5>2, <6>1 DEF Written
          <6>2. CASE j \in Coming(c)
            <7>1. j \in 1..Len(entries)
              BY <1>1, <1>7, <4>1, <5>2, <6>2 DEF Coming, Retained
            <7>2. entries'[j] = entries[j] /\ IsToken(j)
              BY <1>1, <5>2, <7>1 DEF IsToken, Gap
            <7>3. QED BY <4>3, <5>2, <6>2, <7>2
          <6>3. QED BY <1>11, <6>1, <6>2
        <5>3. QED BY <5>1, <5>2
      <4>4. QED BY <2>3, <3>2, <4>1, <4>2, <4>3 DEF Follows
    <3>3. QED BY <1>1, <2>2, <3>1, <3>2
  <2>6. QED BY <2>2, <2>5 DEF Follows, IsToken
<1>14. QED BY <1>8, <1>9, <1>10, <1>13 DEF ReaderOK


(* What OnlyLagLosesSilently says of two entries given one after the other. *)
LagOK(c, i, j) ==
    ~torn /\ IsToken(i) /\ IsToken(j) /\ entries[i].epoch = entries[j].epoch
        => /\ entries[i].offset < entries[j].offset
           /\ \A m \in i + 1 .. j - 1 : IsToken(m) => m \in lost[c]

LEMMA LagIsOK ==
    OnlyLagLosesSilently <=>
        \A c \in Client : \A k \in 2..Len(seen[c]) : LagOK(c, seen[c][k - 1], seen[c][k])
BY DEF OnlyLagLosesSilently, LagOK

LEMMA WrittenInvariant ==
    ASSUME IInv, KeysOK', Written
    PROVE  IInv'
<1>1. KeysOK /\ \A c \in Client : ReaderOK(c)
  BY DEF IInv
<1>2. \A c \in Client : ReaderOK(c)'
  BY <1>1, WrittenReader
<1>3. /\ Len(entries) \in Nat
      /\ \A i \in 0..Len(entries) : IsToken(i)' = IsToken(i)
      /\ \A i \in 1..Len(entries) : entries'[i] = entries[i]
      /\ \A i \in Tokens' : i <= Len(entries) => i \in Tokens
  BY <1>1, WrittenFacts
<1>4. UNCHANGED <<reader, resume, seen>> /\ (torn => torn')
  BY DEF Written
<1>5. NothingRetainedIsSkipped'
  <2> SUFFICES ASSUME ~torn', NEW c \in Client, reader[c].pc \in {"live", "ended"},
                      NEW i \in Tokens', i <= reader[c].cursor,
                      entries'[i].offset >= reader[c].from
               PROVE  i \in ToSet(seen[c]) \cup reader[c].queue
    BY <1>4 DEF NothingRetainedIsSkipped
  <2>1. reader[c].cursor <= Len(entries) /\ reader[c].cursor \in Nat
    BY <1>1 DEF ReaderOK, CursorOK, KeysOK, Typed, ReaderState
  <2>2. i \in Tokens /\ i \in 1..Len(entries)
    <3>1. gone \in Nat /\ gone' \in Nat
      BY <1>1 DEF KeysOK, Typed
    <3>2. i \in Tokens
      <4>1. i <= Len(entries)
        BY <1>3, <2>1, <3>1 DEF Tokens, Retained, IsToken
      <4>2. QED BY <1>3, <4>1
    <3>3. QED BY <1>3, <3>1, <3>2 DEF Tokens, Retained
  <2>3. entries'[i] = entries[i]
    BY <1>3, <2>2
  <2>4. QED BY <1>4, <2>2, <2>3 DEF IInv, NothingRetainedIsSkipped
<1>6. OnlyLagLosesSilently'
  <2>1. \A c \in Client : \A k \in 2..Len(seen[c]) :
           seen[c][k - 1] \in 0..Len(entries) /\ seen[c][k] \in 0..Len(entries)
    <3>1. \A c \in Client : seen[c] \in Seq(0..Len(entries))
      BY <1>1 DEF KeysOK, Typed
    <3>2. \A c \in Client : \A k \in 2..Len(seen[c]) :
             k - 1 \in 1..Len(seen[c]) /\ k \in 1..Len(seen[c])
      BY <3>1
    <3>3. QED BY <3>1, <3>2
  <2>2. \A i, j \in 0..Len(entries), c \in Client :
           LagOK(c, i, j) => LagOK(c, i, j)'
    <3> SUFFICES ASSUME NEW i \in 0..Len(entries), NEW j \in 0..Len(entries), NEW c \in Client,
                        LagOK(c, i, j), ~torn', i # 0, j # 0,
                        entries'[i].kind = "token", entries'[j].kind = "token",
                        entries'[i].epoch = entries'[j].epoch
                 PROVE  /\ entries'[i].offset < entries'[j].offset
                        /\ \A m \in i + 1 .. j - 1 :
                              m # 0 /\ entries'[m].kind = "token" => m \in lost'[c]
      BY DEF LagOK, IsToken, Gap
    <3>1. i \in 1..Len(entries) /\ j \in 1..Len(entries)
      BY <1>3
    <3>2. IsToken(i) /\ IsToken(j) /\ entries'[i] = entries[i] /\ entries'[j] = entries[j]
      BY <1>3, <3>1 DEF IsToken, Gap
    <3>3. /\ entries[i].offset < entries[j].offset
          /\ \A m \in i + 1 .. j - 1 : IsToken(m) => m \in lost[c]
      BY <1>4, <3>2 DEF LagOK
    <3>4. ASSUME NEW m \in i + 1 .. j - 1, entries'[m].kind = "token"
          PROVE  m \in lost'[c]
      <4>1. m \in 1..Len(entries) /\ m # 0
        BY <1>3, <3>1
      <4>2. IsToken(m)
        BY <1>3, <3>4, <4>1 DEF IsToken, Gap
      <4>3. QED BY <3>3, <4>2 DEF Written
    <3>5. QED BY <3>2, <3>3, <3>4
  <2>3. \A c \in Client : \A k \in 2..Len(seen[c]) :
           \A i, j \in 0..Len(entries) :
              i = seen[c][k - 1] /\ j = seen[c][k] => LagOK(c, i, j)'
    BY <2>2, LagIsOK DEF IInv
  <2>4. QED BY <1>4, <2>1, <2>3 DEF OnlyLagLosesSilently, LagOK
<1>7. QED BY <1>2, <1>5, <1>6 DEF IInv


-----------------------------------------------------------------------------
(* The steps of a reader: the keys and the other clients stay as they are. *)

SkipOK(c) ==
    reader[c].pc \in {"live", "ended"} =>
        \A i \in Tokens :
            i <= reader[c].cursor /\ entries[i].offset >= reader[c].from =>
                i \in Given(c) \cup reader[c].queue

LagsOK(c) == \A k \in 2..Len(seen[c]) : LagOK(c, seen[c][k - 1], seen[c][k])

Still == UNCHANGED <<entries, gone, counter, epoch, life, marking, torn, lost>>

(* What does not change with the keys.                                     *)
LEMMA StillFacts ==
    ASSUME Still
    PROVE  /\ Retained' = Retained /\ Tokens' = Tokens /\ Ends' = Ends
           /\ \A i : /\ IsToken(i)' = IsToken(i) /\ IsEnd(i)' = IsEnd(i)
                     /\ After(i)' = After(i)
BY DEF Still, Retained, Tokens, Ends, IsToken, IsEnd, After

LEMMA StillKeys ==
    ASSUME KeysOK, Still,
           reader' \in [Client -> ReaderState],
           resume' \in [Client -> Nat],
           seen' \in [Client -> Seq(0..Len(entries))]
    PROVE  KeysOK'
<1>1. Typed'
  BY DEF KeysOK, Typed, Still
<1>2. Retained' = Retained /\ Tokens' = Tokens
  BY StillFacts
<1>3. Present' /\ Numbered' /\ (torn' \/ InStep')
  BY <1>2 DEF KeysOK, Still, Present, Numbered, InStep, IsToken, Marking
<1>4. QED BY <1>1, <1>3 DEF KeysOK

LEMMA OtherReader ==
    ASSUME Still, NEW x \in Client, ReaderOK(x),
           reader'[x] = reader[x], resume'[x] = resume[x], seen'[x] = seen[x]
    PROVE  ReaderOK(x)'
<1>1. Retained' = Retained /\ Tokens' = Tokens /\ Ends' = Ends
  BY StillFacts
<1>2. Given(x)' = Given(x) /\ Coming(x)' = Coming(x) /\ Reading(x)' = Reading(x)
  BY <1>1 DEF Given, Coming, Reading
<1>3. GivenLast(x)' = GivenLast(x)
  BY <1>2 DEF GivenLast
<1>4. CursorOK(x)'
  BY <1>1, <1>2 DEF Still, ReaderOK, CursorOK
<1>5. torn' \/ ResumeOK(x)'
  BY <1>2 DEF Still, ReaderOK, ResumeOK, IsToken
<1>6. torn' \/ SeamOK(x)'
  BY <1>2, <1>3 DEF Still, ReaderOK, SeamOK, Follows, IsToken
<1>7. (seen[x] # <<>> /\ IsToken(Last(seen[x])) => resume[x] = After(Last(seen[x])))'
  BY DEF Still, ReaderOK, IsToken, After
<1>8. torn' = torn
  BY DEF Still
<1>9. QED BY <1>4, <1>5, <1>6, <1>7 DEF ReaderOK


LEMMA OneReader ==
    ASSUME IInv, Still, NEW c \in Client,
           reader' \in [Client -> ReaderState],
           resume' \in [Client -> Nat],
           seen' \in [Client -> Seq(0..Len(entries))],
           \A x \in Client : x # c =>
              reader'[x] = reader[x] /\ resume'[x] = resume[x] /\ seen'[x] = seen[x],
           ReaderOK(c)', torn \/ SkipOK(c)', LagsOK(c)'
    PROVE  IInv'
<1>1. KeysOK'
  BY StillKeys DEF IInv
<1>2. \A x \in Client : ReaderOK(x)'
  <2>1. \A x \in Client : x # c => ReaderOK(x)'
    BY OtherReader DEF IInv
  <2>2. QED BY <2>1
<1>3. NothingRetainedIsSkipped'
  <2>1. torn' = torn /\ Tokens' = Tokens
    BY StillFacts DEF Still
  <2>2. torn \/ \A x \in Client : x # c => SkipOK(x)'
    BY <2>1 DEF IInv, NothingRetainedIsSkipped, SkipOK, Given, Still
  <2>3. torn \/ \A x \in Client : SkipOK(x)'
    BY <2>2
  <2>4. QED BY <2>1, <2>3 DEF NothingRetainedIsSkipped, SkipOK, Given
<1>4. OnlyLagLosesSilently'
  <2>1. \A x \in Client : x # c => LagsOK(x)'
    BY DEF IInv, OnlyLagLosesSilently, LagsOK, LagOK, Still, IsToken
  <2>2. \A x \in Client : LagsOK(x)'
    BY <2>1
  <2>3. QED BY <2>2 DEF OnlyLagLosesSilently, LagsOK, LagOK
<1>5. QED BY <1>1, <1>2, <1>3, <1>4 DEF IInv

(* A step that gives the client nothing leaves LagsOK as it is.            *)
LEMMA LagsStay ==
    ASSUME IInv, Still, NEW c \in Client, seen'[c] = seen[c]
    PROVE  LagsOK(c)'
BY DEF IInv, OnlyLagLosesSilently, LagsOK, LagOK, Still, IsToken

(* How far a reader that stops at a terminal gets.                         *)
LEMMA UpToEndStops ==
    ASSUME KeysOK, NEW S \in SUBSET Retained, S # {}
    PROVE  /\ UpToEnd(S) \subseteq S /\ UpToEnd(S) # {}
           /\ Max(UpToEnd(S)) \in UpToEnd(S)
           /\ \A i \in UpToEnd(S) : i <= Max(UpToEnd(S))
           /\ \A i \in S : i <= Max(UpToEnd(S)) => i \in UpToEnd(S)
           /\ \A e \in S \cap Ends : Max(UpToEnd(S)) <= e
<1>1. /\ Len(entries) \in Nat /\ gone \in Nat
      /\ S \in SUBSET Nat /\ S \subseteq 0..Len(entries)
  BY DEF KeysOK, Typed, Retained
<1>2. Min(S) \in S /\ \A k \in S : Min(S) <= k
  BY <1>1, MinIsLeast
<1>3. Min(S) \in UpToEnd(S) /\ UpToEnd(S) \subseteq S
  BY <1>2 DEF UpToEnd
<1>4. /\ Max(UpToEnd(S)) \in UpToEnd(S)
      /\ \A i \in UpToEnd(S) : i <= Max(UpToEnd(S))
  <2>1. UpToEnd(S) \in SUBSET (0..Len(entries)) /\ UpToEnd(S) # {}
    BY <1>1, <1>3
  <2>2. QED BY <1>1, <2>1, MaxIsGreatest
<1>5. \A e \in S \cap Ends : Max(UpToEnd(S)) <= e
  BY <1>4 DEF UpToEnd
<1>6. \A i \in S : i <= Max(UpToEnd(S)) => i \in UpToEnd(S)
  <2> SUFFICES ASSUME NEW i \in S, i <= Max(UpToEnd(S)), NEW e \in S \cap Ends
               PROVE  i <= e
    BY DEF UpToEnd
  <2>1. /\ i \in Nat /\ e \in Nat /\ Max(UpToEnd(S)) \in Nat
        /\ Max(UpToEnd(S)) <= e
    BY <1>1, <1>3, <1>4, <1>5
  <2>2. QED BY <2>1
<1>7. QED BY <1>3, <1>4, <1>5, <1>6


(* The types of a client's own state.                                      *)
LEMMA ReaderTypes ==
    ASSUME KeysOK, NEW c \in Client
    PROVE  /\ Len(entries) \in Nat /\ gone \in Nat
           /\ reader[c] \in ReaderState
           /\ reader[c].from \in Nat /\ reader[c].cursor \in Nat
           /\ reader[c].queue \in SUBSET Nat
           /\ resume[c] \in Nat /\ seen[c] \in Seq(0..Len(entries))
           /\ \A i \in Given(c) : i \in 0..Len(entries)
           /\ seen[c] # <<>> => Last(seen[c]) \in Given(c)
<1>1. /\ reader[c] \in ReaderState /\ resume[c] \in Nat
      /\ seen[c] \in Seq(0..Len(entries))
      /\ Len(entries) \in Nat /\ gone \in Nat
  BY DEF KeysOK, Typed
<1>2. /\ reader[c].from \in Nat /\ reader[c].cursor \in Nat
      /\ reader[c].queue \in SUBSET Nat
  BY <1>1 DEF ReaderState
<1>3. /\ \A i \in Given(c) : i \in 0..Len(entries)
      /\ seen[c] # <<>> => Last(seen[c]) \in Given(c)
  BY <1>1 DEF Given, ToSet, Last
<1>4. QED BY <1>1, <1>2, <1>3

LEMMA LeaveInvariant ==
    ASSUME IInv, NEW c \in Client, Drop(c) \/ Unavailable(c)
    PROVE  IInv'
<1>1. /\ Still /\ UNCHANGED <<resume, seen>>
      /\ reader[c].pc # "ended" /\ reader[c].pc \in {"idle", "live"}
      /\ \/ reader' = [reader EXCEPT ![c] = NotReading]
         \/ reader' = [reader EXCEPT ![c].pc = "failed"]
  BY DEF Drop, Unavailable, Reading, Still, redis
<1>2. /\ reader \in [Client -> ReaderState] /\ KeysOK /\ ReaderOK(c)
      /\ resume \in [Client -> Nat] /\ seen \in [Client -> Seq(0..Len(entries))]
  BY DEF IInv, KeysOK, Typed
<1>3. /\ Len(entries) \in Nat /\ reader[c] \in ReaderState
  BY <1>2, ReaderTypes
<1>4. /\ reader' \in [Client -> ReaderState]
      /\ reader'[c].pc \in {"idle", "failed"}
      /\ \/ reader'[c].cursor = 0 /\ reader'[c].queue = {}
         \/ reader'[c].cursor = reader[c].cursor /\ reader'[c].queue = reader[c].queue
      /\ \A x \in Client : x # c => reader'[x] = reader[x]
  <2>1. CASE reader' = [reader EXCEPT ![c] = NotReading]
    <3>1. NotReading \in ReaderState
      BY DEF NotReading, ReaderState
    <3>2. reader'[c] = NotReading
      BY <1>2, <2>1
    <3>3. QED BY <1>2, <2>1, <3>1, <3>2 DEF NotReading
  <2>2. CASE reader' = [reader EXCEPT ![c].pc = "failed"]
    <3>1. [reader[c] EXCEPT !.pc = "failed"] \in ReaderState
      BY <1>3 DEF ReaderState
    <3>2. reader'[c] = [reader[c] EXCEPT !.pc = "failed"]
      BY <1>2, <2>2
    <3>3. reader'[c].pc = "failed" /\ reader'[c].cursor = reader[c].cursor
          /\ reader'[c].queue = reader[c].queue
      BY <1>3, <3>2 DEF ReaderState
    <3>4. QED BY <1>2, <2>2, <3>1, <3>2, <3>3
  <2>3. QED BY <1>1, <2>1, <2>2
<1>5. /\ Ends' = Ends /\ Given(c)' = Given(c) /\ ~Reading(c)'
      /\ \A i : IsToken(i)' = IsToken(i) /\ After(i)' = After(i)
  BY <1>1, <1>4, StillFacts DEF Given, Reading
<1>6. CursorOK(c)'
  <2>1. CursorOK(c) /\ Len(entries') = Len(entries)
    BY <1>1, <1>2 DEF ReaderOK, Still
  <2>2. reader'[c].cursor <= Len(entries) /\ reader'[c].queue \subseteq 0..reader'[c].cursor
    BY <1>3, <1>4, <2>1 DEF CursorOK
  <2>3. QED BY <1>1, <1>4, <1>5, <2>1, <2>2 DEF CursorOK
<1>7. ResumeOK(c)' \/ torn'
  BY <1>1, <1>2, <1>5 DEF ReaderOK, ResumeOK, Still, IsToken
<1>8. SeamOK(c)'
  BY <1>5 DEF SeamOK
<1>9. (seen[c] # <<>> /\ IsToken(Last(seen[c])) => resume[c] = After(Last(seen[c])))'
  BY <1>1, <1>2 DEF Still, ReaderOK, IsToken, After
<1>10. ReaderOK(c)'
  BY <1>6, <1>7, <1>8, <1>9 DEF ReaderOK
<1>11. SkipOK(c)'
  BY <1>4 DEF SkipOK
<1>12. LagsOK(c)'
  BY <1>1, LagsStay
<1>13. QED BY <1>1, <1>2, <1>4, <1>10, <1>11, <1>12, OneReader

LEMMA ReadMoreInvariant ==
    ASSUME IInv, NEW c \in Client, ReadMore(c)
    PROVE  IInv'
<1> DEFINE batch == Batch(reader[c].cursor)
           p == Max(batch)
<1>1. /\ Still /\ UNCHANGED <<resume, seen>>
      /\ Reading(c) /\ reader[c].queue = {} /\ batch # {}
      /\ reader' = [reader EXCEPT ![c].queue = batch, ![c].cursor = p]
  BY DEF ReadMore, Still, redis
<1>2. /\ reader \in [Client -> ReaderState] /\ KeysOK /\ ReaderOK(c)
      /\ resume \in [Client -> Nat] /\ seen \in [Client -> Seq(0..Len(entries))]
  BY DEF IInv, KeysOK, Typed
<1>3. /\ Len(entries) \in Nat /\ gone \in Nat
      /\ reader[c] \in ReaderState /\ reader[c].cursor \in Nat
      /\ \A i \in Given(c) : i \in 0..Len(entries)
      /\ seen[c] # <<>> => Last(seen[c]) \in Given(c)
  BY <1>2, ReaderTypes
<1>4. /\ batch \subseteq Retained /\ p \in batch
      /\ \A i \in batch : i > reader[c].cursor /\ i <= p
      /\ \A i \in Retained : i > reader[c].cursor /\ i <= p => i \in batch
      /\ \A e \in Ends : e > reader[c].cursor => p <= e
  <2> DEFINE upto == Max({reader[c].cursor, gone}) + BatchSize
             S == {i \in Retained : i > reader[c].cursor /\ i <= upto}
  <2>1. S \in SUBSET Retained /\ batch = UpToEnd(S)
    BY DEF Batch
  <2>2. S # {}
    BY <1>1, <2>1 DEF UpToEnd
  <2>3. upto \in Nat
    <3>1. Max({reader[c].cursor, gone}) \in {reader[c].cursor, gone}
      BY <1>3, MaxOfTwo
    <3>2. QED BY <1>3, <3>1, RedisAssumption
  <2> HIDE DEF upto
  <2>4. /\ batch \subseteq S /\ p \in batch
        /\ \A i \in batch : i <= p
        /\ \A i \in S : i <= p => i \in batch
        /\ \A e \in S \cap Ends : p <= e
    <3> HIDE DEF S, batch
    <3>1. QED BY <1>2, <2>1, <2>2, UpToEndStops
  <2>5. Retained \subseteq Nat
    BY <1>3 DEF Retained
  <2> HIDE DEF batch, p
  <2>6. p \in Nat /\ p > reader[c].cursor /\ p <= upto
    BY <2>4, <2>5
  <2>7. \A i \in Retained : i > reader[c].cursor /\ i <= p => i \in S
    BY <2>3, <2>6, <2>5
  <2>8. ASSUME NEW e \in Ends, e > reader[c].cursor PROVE p <= e
    <3>1. e \in Retained
      BY DEF Ends
    <3>2. CASE e <= upto
      BY <2>4, <2>8, <3>1, <3>2
    <3>3. CASE upto < e
      BY <2>3, <2>6, <2>5, <3>1, <3>3
    <3>4. QED BY <2>3, <2>5, <3>1, <3>2, <3>3
  <2>9. QED BY <2>4, <2>7, <2>8
<1> HIDE DEF batch, p
<1>5. /\ p \in Nat /\ p <= Len(entries) /\ p > reader[c].cursor /\ gone < p
      /\ batch \in SUBSET Nat
  BY <1>3, <1>4 DEF Retained
<1>6. /\ reader' \in [Client -> ReaderState]
      /\ reader'[c].pc = "live" /\ reader'[c].cursor = p /\ reader'[c].queue = batch
      /\ reader'[c].from = reader[c].from
      /\ \A x \in Client : x # c => reader'[x] = reader[x]
  BY <1>1, <1>2, <1>3, <1>5 DEF ReaderState, Reading
<1>7. /\ Retained' = Retained /\ Tokens' = Tokens /\ Ends' = Ends
      /\ Given(c)' = Given(c) /\ Reading(c)'
  BY <1>1, <1>6, StillFacts DEF Given, Reading
<1>8. CursorOK(c) /\ (torn \/ (ResumeOK(c) /\ SeamOK(c)))
  BY <1>2 DEF ReaderOK
<1>9. \A i \in Given(c) : i < p
  BY <1>1, <1>3, <1>5, <1>8 DEF CursorOK
<1>10. \A e \in Ends : e \in Nat /\ e > reader[c].cursor /\ p <= e
  <2>1. \A e \in Ends : e \in Nat
    BY <1>3 DEF Ends, Retained
  <2>2. \A e \in Ends : ~(e <= reader[c].cursor)
    BY <1>1, <1>8 DEF CursorOK
  <2>3. \A e \in Ends : e > reader[c].cursor
    BY <1>3, <2>1, <2>2
  <2>4. QED BY <1>4, <2>1, <2>3
<1>11. CursorOK(c)'
  <2>1. p <= Len(entries') /\ batch \subseteq 0..p
    BY <1>1, <1>4, <1>5 DEF Still
  <2>2. /\ \A i \in batch, e \in Ends : i <= e
        /\ \A e \in Ends : e <= p => e \in batch
    <3>1. \A i \in batch, e \in Ends : i <= e
      BY <1>4, <1>5, <1>10
    <3>2. \A e \in Ends : e <= p => e = p
      BY <1>5, <1>10
    <3>3. QED BY <1>4, <3>1, <3>2
  <2>3. \A i \in Given(c), e \in Ends : i < e
    BY <1>1, <1>8 DEF CursorOK, Reading
  <2>4. \A i \in Given(c) : i <= p
    BY <1>3, <1>5, <1>9
  <2>5. QED BY <1>1, <1>6, <1>7, <2>1, <2>2, <2>3, <2>4 DEF CursorOK
<1>12. (seen[c] # <<>> /\ IsToken(Last(seen[c])) => resume[c] = After(Last(seen[c])))'
  BY <1>1, <1>2 DEF Still, ReaderOK, IsToken, After
<1>13. ASSUME ~torn PROVE ResumeOK(c)'
  <2>1. \A i \in Given(c), j \in batch : IsToken(i) /\ IsToken(j) => i < j
    BY <1>1, <1>3, <1>4, <1>5, <1>8 DEF CursorOK, Retained
  <2>2. QED BY <1>1, <1>6, <1>7, <1>8, <1>13, <2>1 DEF ResumeOK, Still, IsToken
<1>14. ASSUME ~torn PROVE SeamOK(c)'
  <2>1. Coming(c)' = Coming(c)
    <3>1. Coming(c) = {i \in Retained : i > reader[c].cursor}
      BY <1>1 DEF Coming
    <3>2. Coming(c)' = batch \cup {i \in Retained : i > p}
      BY <1>6, <1>7 DEF Coming
    <3>3. \A i \in Retained : i \in Nat /\ (i <= p \/ i > p)
      BY <1>3, <1>5 DEF Retained
    <3>4. \A i \in Retained : i > p => i > reader[c].cursor
      BY <1>3, <1>5, <3>3
    <3>5. QED BY <1>4, <3>1, <3>2, <3>3, <3>4
  <2>2. ASSUME NEW i \in batch PROVE Follows(c, i)
    <3>1. \A m \in i + 1 .. Len(entries) : m \in Coming(c)
      BY <1>3, <1>4, <1>5, <2>2 DEF Coming, Retained
    <3>2. QED BY <3>1 DEF Follows
  <2>3. GivenLast(c)' = GivenLast(c)
    <3>1. Gap \notin batch /\ Gap \notin reader[c].queue
      BY <1>1, <1>3, <1>4 DEF Gap, Retained
    <3>2. QED BY <1>1, <1>6, <1>7, <3>1 DEF GivenLast
  <2>4. \A i \in GivenLast(c) \cup batch : IsToken(i) => Follows(c, i)
    BY <1>1, <1>8, <1>14, <2>2 DEF SeamOK
  <2>5. \A i \in GivenLast(c) \cup batch : IsToken(i)' => Follows(c, i)'
    BY <1>1, <2>1, <2>4 DEF Still, Follows, IsToken
  <2>6. QED BY <1>6, <2>3, <2>5 DEF SeamOK
<1>15. ReaderOK(c)'
  BY <1>1, <1>11, <1>12, <1>13, <1>14 DEF ReaderOK, Still
<1>16. ASSUME ~torn PROVE SkipOK(c)'
  <2>1. \A i \in Tokens : i <= reader[c].cursor /\ entries[i].offset >= reader[c].from
           => i \in Given(c)
    BY <1>1, <1>16 DEF IInv, NothingRetainedIsSkipped, Given, Reading
  <2>2. \A i \in Tokens : i > reader[c].cursor /\ i <= p => i \in batch
    BY <1>4 DEF Tokens
  <2>3. \A i \in Tokens : i <= reader[c].cursor \/ i > reader[c].cursor
    BY <1>3 DEF Tokens, Retained
  <2>4. \A i \in Tokens : i <= p /\ entries[i].offset >= reader[c].from
           => i \in Given(c) \cup batch
    BY <2>1, <2>2, <2>3
  <2>5. QED BY <1>1, <1>6, <1>7, <2>4 DEF SkipOK, Still
<1>17. LagsOK(c)'
  BY <1>1, LagsStay
<1>18. QED BY <1>1, <1>2, <1>6, <1>15, <1>16, <1>17, OneReader


(* One more given.                                                         *)
LEMMA OneMore ==
    ASSUME NEW S, NEW s \in Seq(S), NEW p \in S
    PROVE  /\ Append(s, p) \in Seq(S) /\ Append(s, p) # <<>>
           /\ Len(Append(s, p)) = Len(s) + 1 /\ Len(s) \in Nat
           /\ \A k \in 1..Len(s) : Append(s, p)[k] = s[k]
           /\ Append(s, p)[Len(s) + 1] = p
           /\ Last(Append(s, p)) = p
           /\ ToSet(Append(s, p)) = ToSet(s) \cup {p}
<1>1. /\ Append(s, p) \in Seq(S) /\ Append(s, p) # <<>>
      /\ Len(Append(s, p)) = Len(s) + 1 /\ Len(s) \in Nat
      /\ \A k \in 1..Len(s) : Append(s, p)[k] = s[k]
      /\ Append(s, p)[Len(s) + 1] = p
  OBVIOUS
<1>2. Last(Append(s, p)) = p
  BY <1>1 DEF Last
<1>3. ToSet(Append(s, p)) = ToSet(s) \cup {p}
  <2> DEFINE t == Append(s, p)
  <2>1. ToSet(t) \subseteq ToSet(s) \cup {p}
    <3> SUFFICES ASSUME NEW k \in 1..Len(t) PROVE t[k] \in ToSet(s) \cup {p}
      BY DEF ToSet
    <3>1. k \in 1..Len(s) \/ k = Len(s) + 1
      BY <1>1
    <3>2. QED BY <1>1, <3>1 DEF ToSet
  <2>2. ToSet(s) \subseteq ToSet(t)
    <3> SUFFICES ASSUME NEW k \in 1..Len(s) PROVE s[k] \in ToSet(t)
      BY DEF ToSet
    <3>1. t[k] = s[k] /\ k \in 1..Len(t)
      BY <1>1
    <3>2. QED BY <3>1 DEF ToSet
  <2>3. p \in ToSet(t)
    <3>1. t[Len(s) + 1] = p /\ Len(s) + 1 \in 1..Len(t)
      BY <1>1
    <3>2. QED BY <3>1 DEF ToSet
  <2>4. QED BY <2>1, <2>2, <2>3
<1>4. QED BY <1>1, <1>2, <1>3

(* What the client has, and where it would resume, after a signal.         *)
LEMMA DeliverFacts ==
    ASSUME KeysOK, NEW c \in Client, CursorOK(c), Deliver(c),
           NEW p, p = Min(reader[c].queue)
    PROVE  /\ Still /\ Reading(c)
           /\ p \in reader[c].queue /\ p \in 0..Len(entries)
           /\ \A j \in reader[c].queue : p <= j
           /\ seen' \in [Client -> Seq(0..Len(entries))]
           /\ \/ p = Gap /\ seen'[c] = seen[c]
              \/ seen'[c] = Append(seen[c], p)
           /\ Given(c)' = Given(c) \cup {p}
           /\ seen'[c] # <<>> /\ Last(seen'[c]) = p
           /\ resume' \in [Client -> Nat]
           /\ resume'[c] = IF IsToken(p) THEN After(p) ELSE resume[c]
           /\ reader' \in [Client -> ReaderState]
           /\ reader'[c].from = reader[c].from /\ reader'[c].cursor = reader[c].cursor
           /\ reader'[c].queue = reader[c].queue \ {p}
           /\ reader'[c].pc = IF IsEnd(p) THEN "ended" ELSE "live"
           /\ \A x \in Client : x # c => /\ reader'[x] = reader[x]
                                         /\ resume'[x] = resume[x] /\ seen'[x] = seen[x]
<1>1. /\ Still /\ Reading(c) /\ reader[c].queue # {}
      /\ seen' = [seen EXCEPT ![c] = IF p = Gap /\ @ # <<>> /\ Last(@) = Gap THEN @
                                     ELSE Append(@, p)]
      /\ resume' = [resume EXCEPT ![c] = IF IsToken(p) THEN After(p) ELSE @]
      /\ reader' = [reader EXCEPT ![c].queue = @ \ {p},
                                  ![c].pc = IF IsEnd(p) THEN "ended" ELSE @]
  BY DEF Deliver, Still, redis
<1>2. /\ reader \in [Client -> ReaderState] /\ resume \in [Client -> Nat]
      /\ seen \in [Client -> Seq(0..Len(entries))]
      /\ entries \in Seq(Entry) /\ Len(entries) \in Nat
      /\ reader[c].queue \in SUBSET Nat /\ reader[c] \in ReaderState
      /\ seen[c] # <<>> => Last(seen[c]) \in Given(c)
      /\ reader[c].cursor \in Nat
  BY ReaderTypes DEF KeysOK, Typed
<1>3. p \in reader[c].queue /\ \A j \in reader[c].queue : p <= j
  BY <1>1, <1>2, MinIsLeast
<1>4. p \in 0..Len(entries)
  BY <1>2, <1>3 DEF CursorOK
<1>5. /\ \A x \in Client : x # c => /\ reader'[x] = reader[x]
                                    /\ resume'[x] = resume[x] /\ seen'[x] = seen[x]
  BY <1>1, <1>2
<1>6. /\ seen' \in [Client -> Seq(0..Len(entries))]
      /\ \/ p = Gap /\ seen'[c] = seen[c]
         \/ seen'[c] = Append(seen[c], p)
      /\ Given(c)' = Given(c) \cup {p}
      /\ seen'[c] # <<>> /\ Last(seen'[c]) = p
  <2>0. /\ Append(seen[c], p) \in Seq(0..Len(entries)) /\ Append(seen[c], p) # <<>>
        /\ Last(Append(seen[c], p)) = p
        /\ ToSet(Append(seen[c], p)) = ToSet(seen[c]) \cup {p}
    <3>1. PICK S : S = 0..Len(entries)
      OBVIOUS
    <3>2. seen[c] \in Seq(S) /\ p \in S
      BY <1>2, <1>4, <3>1
    <3>3. QED BY <3>1, <3>2, OneMore, SMTT(30)
  <2>1. CASE p = Gap /\ seen[c] # <<>> /\ Last(seen[c]) = Gap
    <3>1. seen' = seen
      BY <1>1, <1>2, <2>1
    <3>2. QED BY <1>2, <2>1, <3>1 DEF Given
  <2>2. CASE ~(p = Gap /\ seen[c] # <<>> /\ Last(seen[c]) = Gap)
    <3>1. seen' = [seen EXCEPT ![c] = Append(seen[c], p)]
      BY <1>1, <2>2
    <3>2. seen'[c] = Append(seen[c], p)
      BY <1>2, <3>1
    <3>3. QED BY <1>2, <2>0, <3>1, <3>2 DEF Given
  <2>3. QED BY <2>1, <2>2
<1>7. /\ resume' \in [Client -> Nat]
      /\ resume'[c] = IF IsToken(p) THEN After(p) ELSE resume[c]
  <2>1. IsToken(p) => After(p) \in Nat
    <3>1. ASSUME IsToken(p) PROVE entries[p] \in Entry
      BY <1>2, <1>4, <3>1 DEF IsToken, Gap
    <3>2. QED BY <3>1 DEF Entry, After
  <2>2. QED BY <1>1, <1>2, <2>1
<1>8. /\ reader' \in [Client -> ReaderState]
      /\ reader'[c].from = reader[c].from /\ reader'[c].cursor = reader[c].cursor
      /\ reader'[c].queue = reader[c].queue \ {p}
      /\ reader'[c].pc = IF IsEnd(p) THEN "ended" ELSE "live"
  <2>2. /\ reader'[c].from = reader[c].from /\ reader'[c].cursor = reader[c].cursor
        /\ reader'[c].queue = reader[c].queue \ {p}
        /\ reader'[c].pc = IF IsEnd(p) THEN "ended" ELSE reader[c].pc
    BY <1>1, <1>2 DEF ReaderState
  <2> DEFINE pc == IF IsEnd(p) THEN "ended" ELSE reader[c].pc
             rest == reader[c].queue \ {p}
  <2>3. pc \in {"idle", "live", "ended", "failed"} /\ rest \in SUBSET Nat
    BY <1>2 DEF ReaderState
  <2>4. reader' \in [Client -> ReaderState]
    <3>1. reader' = [reader EXCEPT ![c].queue = rest, ![c].pc = pc]
      BY <1>1, <1>2
    <3> HIDE DEF pc, rest
    <3>2. QED BY <1>2, <2>3, <3>1 DEF ReaderState
  <2>5. QED BY <1>1, <2>2, <2>4 DEF Reading
<1>9. QED BY <1>1, <1>3, <1>4, <1>5, <1>6, <1>7, <1>8


(* Tokens numbered by one counter are in the order of their offsets.       *)
LEMMA InOrder ==
    ASSUME KeysOK, NEW i \in Nat, NEW j \in Nat, IsToken(i), IsToken(j),
           i \in 0..Len(entries), j \in 0..Len(entries), i < j
    PROVE  /\ entries[i].epoch \in Nat /\ entries[j].epoch \in Nat
           /\ entries[i].offset \in Nat /\ entries[j].offset \in Nat
           /\ entries[i].epoch <= entries[j].epoch
           /\ entries[i].epoch = entries[j].epoch => entries[i].offset < entries[j].offset
<1>1. i \in 1..Len(entries) /\ j \in i + 1 .. Len(entries) /\ j \in 1..Len(entries)
      /\ Len(entries) \in Nat
  BY DEF IsToken, Gap, KeysOK, Typed
<1>2. entries[i] \in Entry /\ entries[j] \in Entry
  BY <1>1 DEF KeysOK, Typed
<1>3. QED BY <1>1, <1>2 DEF KeysOK, Numbered, Entry

LEMMA TokenIsNoEnd ==
    \A i : IsToken(i) => ~IsEnd(i)
BY DEF IsToken, IsEnd, Terminal

LEMMA DeliverInvariant ==
    ASSUME IInv, NEW c \in Client, Deliver(c)
    PROVE  IInv'
<1>0. KeysOK /\ ReaderOK(c) /\ CursorOK(c) /\ (torn \/ (ResumeOK(c) /\ SeamOK(c)))
  BY DEF IInv, ReaderOK
<1>1. PICK p : p = Min(reader[c].queue)
  OBVIOUS
<1>2. /\ Still /\ Reading(c)
      /\ p \in reader[c].queue /\ p \in 0..Len(entries)
      /\ \A j \in reader[c].queue : p <= j
      /\ seen' \in [Client -> Seq(0..Len(entries))]
      /\ \/ p = Gap /\ seen'[c] = seen[c]
         \/ seen'[c] = Append(seen[c], p)
      /\ Given(c)' = Given(c) \cup {p}
      /\ seen'[c] # <<>> /\ Last(seen'[c]) = p
      /\ resume' \in [Client -> Nat]
      /\ resume'[c] = IF IsToken(p) THEN After(p) ELSE resume[c]
      /\ reader' \in [Client -> ReaderState]
      /\ reader'[c].from = reader[c].from /\ reader'[c].cursor = reader[c].cursor
      /\ reader'[c].queue = reader[c].queue \ {p}
      /\ reader'[c].pc = IF IsEnd(p) THEN "ended" ELSE "live"
      /\ \A x \in Client : x # c => /\ reader'[x] = reader[x]
                                    /\ resume'[x] = resume[x] /\ seen'[x] = seen[x]
  BY <1>0, <1>1, DeliverFacts
<1>3. /\ Len(entries) \in Nat /\ gone \in Nat
      /\ reader[c].cursor \in Nat /\ reader[c].queue \in SUBSET Nat /\ resume[c] \in Nat
      /\ \A i \in Given(c) : i \in 0..Len(entries)
      /\ seen[c] \in Seq(0..Len(entries))
      /\ seen[c] # <<>> => Last(seen[c]) \in Given(c)
  BY <1>0, ReaderTypes
<1>4. /\ Retained' = Retained /\ Tokens' = Tokens /\ Ends' = Ends
      /\ entries' = entries /\ gone' = gone /\ torn' = torn /\ lost' = lost /\ epoch' = epoch
      /\ \A i : /\ IsToken(i)' = IsToken(i) /\ IsEnd(i)' = IsEnd(i)
                /\ After(i)' = After(i)
  BY <1>2, StillFacts DEF Still
<1>5. p <= reader[c].cursor /\ \A e \in Ends : p <= e
  BY <1>0, <1>2, <1>3 DEF CursorOK
<1>6. Reading(c)' => ~IsEnd(p)
  BY <1>2 DEF Reading
<1>7. CursorOK(c)'
  <2>1. reader'[c].queue \subseteq 0..reader[c].cursor /\ reader[c].cursor <= Len(entries)
    BY <1>0, <1>2 DEF CursorOK
  <2>2. Reading(c)' =>
           /\ \A i \in reader'[c].queue, e \in Ends : i <= e
           /\ \A e \in Ends : e <= reader[c].cursor => e \in reader'[c].queue
           /\ \A i \in Given(c) \cup {p} : i <= reader[c].cursor \/ i <= gone
    <3>1. \A e \in Ends : IsEnd(e)
      BY DEF Ends
    <3>2. QED BY <1>0, <1>2, <1>5, <1>6, <3>1 DEF CursorOK
  <2>3. reader'[c].pc # "ended" => \A i \in Given(c) \cup {p}, e \in Ends : i < e
    <3>1. \A i \in Given(c), e \in Ends : i < e
      BY <1>0, <1>2 DEF CursorOK, Reading
    <3>2. ASSUME ~IsEnd(p), NEW e \in Ends PROVE p < e
      <4>1. p # e /\ e \in Nat
        BY <1>3, <3>2 DEF Ends, Retained
      <4>2. QED BY <1>2, <1>5, <4>1
    <3>3. QED BY <1>2, <3>1, <3>2
  <2>4. QED BY <1>2, <1>4, <1>5, <2>1, <2>2, <2>3 DEF CursorOK
<1>8. (seen[c] # <<>> /\ IsToken(Last(seen[c])) => resume[c] = After(Last(seen[c])))'
  BY <1>2, <1>4
<1>9. ASSUME ~torn PROVE ResumeOK(c)'
  <2>1. ResumeOK(c)
    BY <1>0, <1>9
  <2>2. ASSUME NEW i \in Given(c) \cup {p}, i > gone, IsToken(i)
        PROVE  entries[i].offset < resume'[c]
    <3>1. i \in 1..Len(entries) /\ i \in Retained
      BY <1>2, <1>3, <2>2 DEF IsToken, Gap, Retained
    <3>2. entries[i].offset \in Nat
      <4>1. entries[i] \in Entry
        BY <1>0, <3>1 DEF KeysOK, Typed
      <4>2. QED BY <4>1 DEF Entry
    <3>3. CASE i = p
      BY <1>2, <2>2, <3>2, <3>3 DEF After
    <3>4. CASE i # p /\ IsToken(p)
      <4>1. i < p
        BY <1>2, <2>1, <2>2, <3>4 DEF ResumeOK
      <4>2. p \in Retained
        BY <1>2, <1>3, <2>2, <4>1 DEF Retained
      <4>3. entries[i].epoch = entries[p].epoch
        BY <1>0, <1>9, <2>2, <3>1, <3>4, <4>2 DEF KeysOK, InStep, Tokens
      <4>4. i \in 0..Len(entries) /\ i \in Nat /\ p \in Nat
        BY <1>2, <3>1
      <4>5. entries[i].offset < entries[p].offset /\ entries[p].offset \in Nat
        BY <1>0, <1>2, <2>2, <3>4, <4>1, <4>3, <4>4, InOrder
      <4>6. QED BY <1>2, <3>2, <3>4, <4>5 DEF After
    <3>5. CASE i # p /\ ~IsToken(p)
      BY <1>2, <2>1, <2>2, <3>5 DEF ResumeOK
    <3>6. QED BY <3>3, <3>4, <3>5
  <2>3. \A i \in Given(c) \cup {p}, j \in reader'[c].queue :
           Reading(c)' /\ IsToken(i) /\ IsToken(j) => i < j
    <3>1. \A j \in reader'[c].queue : p < j
      BY <1>2, <1>3
    <3>2. QED BY <1>2, <2>1, <3>1 DEF ResumeOK
  <2>4. QED BY <1>2, <1>4, <2>2, <2>3 DEF ResumeOK
<1>10. ASSUME ~torn PROVE SeamOK(c)'
  <2>1. Coming(c)' = Coming(c) \ {p}
    <3>1. \A i \in Retained : i > reader[c].cursor => i # p
      BY <1>2, <1>3, <1>5 DEF Retained
    <3>2. QED BY <1>2, <1>4, <3>1 DEF Coming
  <2>2. SUFFICES ASSUME Reading(c)', NEW i \in GivenLast(c)' \cup reader'[c].queue, IsToken(i)
                 PROVE  Follows(c, i)'
    BY <1>4 DEF SeamOK
  <2>3. i \in reader[c].queue /\ p <= i
    <3>1. i \in reader'[c].queue \/ i = p
      BY <1>2 DEF GivenLast
    <3>2. QED BY <1>2, <1>3, <3>1
  <2>4. Follows(c, i)
    BY <1>0, <1>2, <1>10, <2>2, <2>3 DEF SeamOK
  <2>5. \A m \in i + 1 .. Len(entries) : m # p
    BY <1>2, <1>3, <2>3
  <2>6. QED BY <1>4, <2>1, <2>4, <2>5 DEF Follows, IsToken
<1>11. ReaderOK(c)'
  BY <1>4, <1>7, <1>8, <1>9, <1>10 DEF ReaderOK
<1>12. ASSUME ~torn PROVE SkipOK(c)'
  <2>1. \A i \in Tokens : i <= reader[c].cursor /\ entries[i].offset >= reader[c].from
           => i \in Given(c) \cup reader[c].queue
    BY <1>2, <1>12 DEF IInv, NothingRetainedIsSkipped, Given, Reading
  <2>2. QED BY <1>2, <1>4, <2>1 DEF SkipOK
<1>13. ASSUME ~torn, IsToken(p), seen[c] # <<>>, IsToken(Last(seen[c])),
              entries[Last(seen[c])].epoch = entries[p].epoch
       PROVE  /\ entries[Last(seen[c])].offset < entries[p].offset
              /\ \A m \in Last(seen[c]) + 1 .. p - 1 : IsToken(m) => m \in lost[c]
  <2>1. PICK i \in 0..Len(entries) : i = Last(seen[c]) /\ i \in Given(c)
    BY <1>3, <1>13
  <2>2. i \in Nat /\ p \in Nat /\ i < p
    BY <1>0, <1>2, <1>3, <1>13, <2>1 DEF ResumeOK
  <2>3. Gap \notin reader[c].queue /\ i \in GivenLast(c)
    <3>1. p # 0
      BY <1>13 DEF IsToken, Gap
    <3>2. Gap \notin reader[c].queue
      BY <1>2, <2>2, <3>1 DEF Gap
    <3>3. QED BY <2>1, <3>2 DEF GivenLast
  <2>4. entries[i].offset < entries[p].offset
    BY <1>0, <1>2, <1>13, <2>1, <2>2, InOrder
  <2>5. Follows(c, i)
    BY <1>0, <1>2, <1>13, <2>1, <2>3 DEF SeamOK
  <2>6. ASSUME NEW m \in i + 1 .. p - 1, IsToken(m)
        PROVE  m \in lost[c]
    <3>1. m \in Nat /\ m \in i + 1 .. Len(entries) /\ i < m /\ m < p /\ m \in 0..Len(entries)
      BY <1>2, <1>3, <2>1, <2>2
    <3>2. entries[m].epoch = entries[i].epoch
      <4>1. /\ entries[i].epoch <= entries[m].epoch /\ entries[m].epoch <= entries[p].epoch
            /\ entries[i].epoch \in Nat /\ entries[m].epoch \in Nat
        BY <1>0, <1>2, <1>13, <2>1, <2>2, <2>6, <3>1, InOrder
      <4>2. QED BY <1>13, <2>1, <4>1
    <3>3. m \notin Coming(c)
      <4>1. ~(p <= m) /\ m \in Nat
        BY <2>2, <3>1
      <4>2. m \notin reader[c].queue
        BY <1>2, <4>1
      <4>3. reader[c].cursor \in Nat /\ p <= reader[c].cursor
        BY <1>3, <1>5
      <4>4. ~(m > reader[c].cursor)
        BY <2>2, <4>1, <4>3
      <4>5. QED BY <4>2, <4>4 DEF Coming
    <3>4. p \in Coming(c)
      BY <1>2 DEF Coming
    <3>5. QED BY <1>13, <2>1, <2>2, <2>5, <2>6, <3>1, <3>2, <3>3, <3>4 DEF Follows
  <2>7. QED BY <2>1, <2>4, <2>6
<1>14. LagsOK(c)'
  <2>1. \A k \in 2..Len(seen[c]) : LagOK(c, seen[c][k - 1], seen[c][k])
    BY LagIsOK DEF IInv
  <2>2. CASE seen'[c] = seen[c]
    BY <1>2, <2>2, LagsStay
  <2>3. CASE seen'[c] = Append(seen[c], p)
    <3>1. /\ Len(seen'[c]) = Len(seen[c]) + 1 /\ Len(seen[c]) \in Nat
          /\ \A k \in 1..Len(seen[c]) : seen'[c][k] = seen[c][k]
          /\ seen'[c][Len(seen[c]) + 1] = p
      <4>1. PICK S : S = 0..Len(entries)
        OBVIOUS
      <4>2. seen[c] \in Seq(S) /\ p \in S
        BY <1>2, <1>3, <4>1
      <4>3. QED BY <2>3, <4>2, OneMore
    <3>2. ASSUME NEW k \in 2..Len(seen'[c])
          PROVE  LagOK(c, seen'[c][k - 1], seen'[c][k])
      <4>1. CASE k \in 2..Len(seen[c])
        <5>1. seen'[c][k - 1] = seen[c][k - 1] /\ seen'[c][k] = seen[c][k]
          BY <3>1, <4>1
        <5>2. QED BY <2>1, <4>1, <5>1
      <4>2. CASE k = Len(seen[c]) + 1
        <5>1. seen[c] # <<>> /\ seen'[c][k] = p /\ seen'[c][k - 1] = Last(seen[c])
          BY <1>3, <3>1, <3>2, <4>2 DEF Last
        <5>2. QED BY <1>13, <5>1 DEF LagOK
      <4>3. QED BY <3>1, <3>2, <4>1, <4>2
    <3>3. QED BY <1>4, <3>2 DEF LagsOK, LagOK, IsToken
  <2>4. QED BY <1>2, <2>2, <2>3
<1>15. QED BY <1>2, <1>11, <1>12, <1>14, OneReader


(* How far the snapshot goes.                                              *)
LEMMA SnapshotStops ==
    ASSUME KeysOK
    PROVE  /\ Cursor \in 0..Len(entries)
           /\ UpToEnd(Retained) = {i \in Retained : i <= Cursor}
           /\ \A e \in Ends : Cursor <= e
<1>1. /\ Len(entries) \in Nat /\ gone \in Nat /\ Ends \subseteq Retained
      /\ Retained \subseteq 0..Len(entries)
  BY DEF KeysOK, Typed, Ends, Retained
<1>2. CASE Retained = {}
  BY <1>1, <1>2 DEF Cursor, UpToEnd
<1>3. CASE Retained # {}
  <2>1. Cursor = Max(UpToEnd(Retained))
    BY <1>3 DEF Cursor
  <2>2. PICK S \in SUBSET Retained : S = Retained
    OBVIOUS
  <2>3. /\ UpToEnd(S) \subseteq S
        /\ Max(UpToEnd(S)) \in UpToEnd(S)
        /\ \A i \in UpToEnd(S) : i <= Max(UpToEnd(S))
        /\ \A i \in S : i <= Max(UpToEnd(S)) => i \in UpToEnd(S)
        /\ \A e \in S \cap Ends : Max(UpToEnd(S)) <= e
    BY <1>3, <2>2, UpToEndStops
  <2>4. QED BY <1>1, <2>1, <2>2, <2>3
<1>4. QED BY <1>2, <1>3

(* What the snapshot holds, while nothing was torn: everything it read but *)
(* the tokens below the offset asked for, and a gap if tokens are missing. *)
LEMMA SnapshotHolds ==
    ASSUME KeysOK, ~torn, NEW from \in Nat
    PROVE  /\ \A i \in Tokens : i <= Cursor /\ entries[i].offset >= from => i \in Snapshot(from)
           /\ Gap \notin Snapshot(from) => \A i \in Tokens : entries[Min(Tokens)].offset <= from
           /\ Tokens # {} => /\ Min(Tokens) \in Tokens
                             /\ \A i \in Tokens : Min(Tokens) <= i
<1>1. /\ Len(entries) \in Nat /\ gone \in Nat
      /\ Tokens \subseteq 1..Len(entries) /\ Tokens \in SUBSET Nat
  BY DEF KeysOK, Typed, Tokens, Retained
<1>2. \A i \in Tokens : /\ IsToken(i) /\ i \in Retained /\ i \in 0..Len(entries)
                        /\ entries[i].epoch = epoch /\ entries[i].offset \in Nat
  <2>1. \A i \in Tokens : entries[i] \in Entry
    BY <1>1 DEF KeysOK, Typed
  <2>2. QED BY <1>1, <2>1 DEF KeysOK, InStep, Tokens, Entry
<1>3. CASE Tokens = {}
  BY <1>3
<1>4. CASE Tokens # {}
  <2>1. Min(Tokens) \in Tokens /\ \A i \in Tokens : Min(Tokens) <= i
    BY <1>1, <1>4, MinIsLeast
  <2>2. PICK t \in Tokens : t = Min(Tokens)
    BY <2>1
  <2>3. \A i \in Tokens : entries[t].offset <= entries[i].offset
    <3> SUFFICES ASSUME NEW i \in Tokens PROVE entries[t].offset <= entries[i].offset
      OBVIOUS
    <3>1. CASE i = t
      BY <1>2, <3>1
    <3>2. CASE i # t
      <4>1. t < i /\ t \in Nat /\ i \in Nat
        BY <1>1, <2>1, <2>2, <3>2
      <4>2. entries[t].offset < entries[i].offset
        BY <1>2, <4>1, InOrder
      <4>3. QED BY <1>2, <4>2
    <3>3. QED BY <3>1, <3>2
  <2> DEFINE lower == Max({from, entries[t].offset})
  <2>4. Snapshot(from) = (IF from < entries[t].offset THEN {Gap} ELSE {})
           \cup {i \in UpToEnd(Retained) : IsToken(i) => entries[i].offset >= lower}
    BY <1>4, <2>2 DEF Snapshot
  <2>5. lower \in {from, entries[t].offset}
    BY <1>2, MaxOfTwo
  <2>6. \A i \in Tokens : i <= Cursor => i \in UpToEnd(Retained)
    BY <1>2, SnapshotStops
  <2> HIDE DEF lower
  <2>7. \A i \in Tokens : i <= Cursor /\ entries[i].offset >= from => i \in Snapshot(from)
    BY <2>3, <2>4, <2>5, <2>6
  <2>8. Gap \notin Snapshot(from) => entries[t].offset <= from
    BY <1>2, <2>4
  <2>9. QED BY <2>1, <2>2, <2>7, <2>8
<1>5. QED BY <1>3, <1>4

LEMMA SnapshotInside ==
    ASSUME KeysOK, NEW from \in Nat
    PROVE  /\ Snapshot(from) \subseteq 0..Cursor
           /\ \A i \in Snapshot(from) : i = Gap \/ (i \in Retained /\ i <= Cursor)
           /\ \A i \in Tokens \cap Snapshot(from) : entries[i].offset >= from
           /\ \A e \in Ends : e <= Cursor => e \in Snapshot(from)
<1> DEFINE earliest == IF Tokens = {} THEN from ELSE entries[Min(Tokens)].offset
           lower    == Max({from, earliest})
<1>1. /\ Len(entries) \in Nat /\ gone \in Nat
      /\ Tokens \subseteq 1..Len(entries) /\ Tokens \in SUBSET Nat
  BY DEF KeysOK, Typed, Tokens, Retained
<1>2. /\ Cursor \in 0..Len(entries)
      /\ UpToEnd(Retained) = {i \in Retained : i <= Cursor}
  BY SnapshotStops
<1>3. Snapshot(from) = (IF from < earliest THEN {Gap} ELSE {})
         \cup {i \in UpToEnd(Retained) : IsToken(i) => entries[i].offset >= lower}
  BY DEF Snapshot
<1>4. \A i \in Tokens : entries[i].offset \in Nat
  <2>1. \A i \in Tokens : entries[i] \in Entry
    BY <1>1 DEF KeysOK, Typed
  <2>2. QED BY <2>1 DEF Entry
<1>5. earliest \in Nat
  <2>1. Tokens # {} => Min(Tokens) \in Tokens
    BY <1>1, MinIsLeast
  <2>2. QED BY <1>4, <2>1
<1>6. lower \in Nat /\ from <= lower
  <2> HIDE DEF earliest
  <2>1. lower \in {from, earliest} /\ from <= lower
    BY <1>5, MaxOfTwo
  <2>2. QED BY <1>5, <2>1
<1> HIDE DEF earliest, lower
<1>7. \A i \in Snapshot(from) : i = Gap \/ (i \in Retained /\ i <= Cursor)
  BY <1>2, <1>3
<1>8. Snapshot(from) \subseteq 0..Cursor
  BY <1>1, <1>2, <1>7 DEF Retained, Gap
<1>9. \A i \in Tokens \cap Snapshot(from) : entries[i].offset >= from
  <2>1. \A i \in Tokens : IsToken(i) /\ i # Gap
    BY DEF Tokens, IsToken
  <2>2. \A i \in Tokens \cap Snapshot(from) : entries[i].offset >= lower
    BY <1>3, <2>1
  <2>3. QED BY <1>4, <1>6, <2>2
<1>10. \A e \in Ends : e <= Cursor => e \in Snapshot(from)
  BY <1>2, <1>3, TokenIsNoEnd DEF Ends
<1>11. QED BY <1>7, <1>8, <1>9, <1>10


LEMMA SubscribeInvariant ==
    ASSUME IInv, NEW c \in Client, Subscribe(c)
    PROVE  IInv'
<1> DEFINE n == resume[c]
           snapshot == Snapshot(n)
<1>0. KeysOK /\ ReaderOK(c) /\ CursorOK(c) /\ (torn \/ ResumeOK(c))
  BY DEF IInv, ReaderOK
<1>1. /\ Still /\ UNCHANGED <<resume, seen>> /\ reader[c].pc = "idle"
      /\ reader' = [reader EXCEPT ![c] = [pc |-> "live", from |-> n,
                                          cursor |-> Cursor, queue |-> snapshot]]
  BY DEF Subscribe, Still, redis
<1>2. /\ reader \in [Client -> ReaderState]
      /\ resume \in [Client -> Nat] /\ seen \in [Client -> Seq(0..Len(entries))]
  BY <1>0 DEF KeysOK, Typed
<1>3. /\ Len(entries) \in Nat /\ gone \in Nat /\ n \in Nat
      /\ \A i \in Given(c) : i \in 0..Len(entries)
      /\ seen[c] # <<>> => Last(seen[c]) \in Given(c)
  BY <1>0, ReaderTypes
<1>4. /\ Cursor \in 0..Len(entries)
      /\ UpToEnd(Retained) = {i \in Retained : i <= Cursor}
      /\ \A e \in Ends : Cursor <= e
  BY <1>0, SnapshotStops
<1>5. /\ snapshot \subseteq 0..Cursor
      /\ \A i \in snapshot : i = Gap \/ (i \in Retained /\ i <= Cursor)
      /\ \A i \in Tokens \cap snapshot : entries[i].offset >= n
      /\ \A e \in Ends : e <= Cursor => e \in snapshot
  BY <1>0, <1>3, SnapshotInside
<1>6. ASSUME ~torn
      PROVE  /\ \A i \in Tokens : i <= Cursor /\ entries[i].offset >= n => i \in snapshot
             /\ Gap \notin snapshot => \A i \in Tokens : entries[Min(Tokens)].offset <= n
             /\ Tokens # {} => /\ Min(Tokens) \in Tokens
                               /\ \A i \in Tokens : Min(Tokens) <= i
  BY <1>0, <1>3, <1>6, SnapshotHolds
<1> HIDE DEF n, snapshot
<1>7. snapshot \in SUBSET Nat
  BY <1>4, <1>5
<1>8. /\ reader' \in [Client -> ReaderState]
      /\ reader'[c].pc = "live" /\ reader'[c].cursor = Cursor
      /\ reader'[c].queue = snapshot /\ reader'[c].from = n
      /\ \A x \in Client : x # c => reader'[x] = reader[x]
  BY <1>1, <1>2, <1>3, <1>4, <1>7 DEF ReaderState
<1>9. /\ Retained' = Retained /\ Tokens' = Tokens /\ Ends' = Ends
      /\ entries' = entries /\ gone' = gone /\ torn' = torn /\ lost' = lost /\ epoch' = epoch
      /\ Given(c)' = Given(c) /\ Reading(c)'
      /\ \A i : IsToken(i)' = IsToken(i)
  BY <1>1, <1>8, StillFacts DEF Given, Reading, Still
<1>10. \A i \in Given(c) : i <= gone \/ (i \in Retained /\ i <= Cursor)
  <2> SUFFICES ASSUME NEW i \in Given(c), ~(i <= gone)
               PROVE  i \in Retained /\ i <= Cursor
    OBVIOUS
  <2>1. i \in Retained
    BY <1>3 DEF Retained
  <2>2. \A e \in Ends : i <= e
    <3>1. \A e \in Ends : i < e
      BY <1>0, <1>1 DEF CursorOK
    <3>2. \A e \in Ends : e \in Nat
      BY <1>3 DEF Ends, Retained
    <3>3. QED BY <1>3, <3>1, <3>2
  <2>3. i \in UpToEnd(Retained)
    BY <2>1, <2>2 DEF UpToEnd
  <2>4. QED BY <1>4, <2>1, <2>3
<1>11. CursorOK(c)'
  <2>1. \A i \in snapshot, e \in Ends : i <= e
    <3>1. \A i \in snapshot : i \in Nat /\ i <= Cursor
      BY <1>4, <1>5
    <3>2. \A e \in Ends : e \in Nat
      BY <1>3 DEF Ends, Retained
    <3>3. QED BY <1>4, <3>1, <3>2
  <2>2. \A i \in Given(c), e \in Ends : i < e
    BY <1>0, <1>1 DEF CursorOK
  <2>3. /\ Cursor <= Len(entries') /\ snapshot \subseteq 0..Cursor
        /\ \A e \in Ends : e <= Cursor => e \in snapshot
        /\ \A i \in Given(c) : i <= Cursor \/ i <= gone
    BY <1>3, <1>4, <1>5, <1>9, <1>10
  <2>4. reader'[c].pc # "ended"
    BY <1>8
  <2>5. QED BY <1>8, <1>9, <2>1, <2>2, <2>3, <2>4 DEF CursorOK
<1>12. (seen[c] # <<>> /\ IsToken(Last(seen[c])) => resume[c] = After(Last(seen[c])))'
  BY <1>0, <1>1 DEF Still, ReaderOK, IsToken, After
<1>13. \A i \in Tokens : /\ i \in Nat /\ i \in 0..Len(entries) /\ gone < i
                         /\ entries[i].offset \in Nat /\ IsToken(i)
  <2>1. \A i \in Tokens : i \in 1..Len(entries) /\ gone < i /\ IsToken(i)
    BY <1>3 DEF Tokens, Retained
  <2>2. \A i \in Tokens : entries[i] \in Entry
    BY <1>0, <2>1 DEF KeysOK, Typed
  <2>3. QED BY <2>1, <2>2 DEF Entry
<1>14. ASSUME ~torn PROVE ResumeOK(c)'
  <2>1. ASSUME NEW i \in Given(c), NEW j \in snapshot, IsToken(i), IsToken(j), ~(i < j)
        PROVE  FALSE
    <3>1. j \in Tokens
      BY <1>5, <2>1 DEF IsToken, Tokens
    <3>2. i \in Tokens /\ i > gone
      <4>1. i > gone
        BY <1>3, <1>13, <2>1, <3>1
      <4>2. i \in Retained
        BY <1>3, <4>1 DEF Retained
      <4>3. QED BY <2>1, <4>1, <4>2 DEF Tokens
    <3>3. entries[i].offset < n /\ entries[j].offset >= n
      BY <1>0, <1>5, <1>14, <2>1, <3>1, <3>2 DEF ResumeOK, n
    <3>4. entries[i].epoch = entries[j].epoch
      BY <1>0, <1>14, <3>1, <3>2 DEF KeysOK, InStep
    <3>5. i # j /\ j < i
      BY <1>3, <1>13, <2>1, <3>1, <3>2, <3>3
    <3>6. entries[j].offset < entries[i].offset
      BY <1>0, <1>13, <2>1, <3>1, <3>2, <3>4, <3>5, InOrder
    <3>7. QED BY <1>3, <1>13, <3>1, <3>2, <3>3, <3>6
  <2>2. \A i \in Given(c) : i > gone /\ IsToken(i) => entries[i].offset < resume[c]
    BY <1>0, <1>14 DEF ResumeOK
  <2>3. QED BY <1>1, <1>8, <1>9, <2>1, <2>2 DEF ResumeOK
<1>15. ASSUME ~torn, NEW i \in GivenLast(c)' \cup snapshot, IsToken(i)
       PROVE  Follows(c, i)'
  <2>1. i \in 0..Len(entries) /\ i \in Nat /\ i # 0
    <3>1. i \in Given(c) \/ i \in snapshot
      BY <1>9, <1>15 DEF GivenLast
    <3>2. i \in 0..Len(entries)
      <4>1. snapshot \subseteq 0..Len(entries)
        <5>1. 0..Cursor \subseteq 0..Len(entries)
          BY <1>3, <1>4
        <5>2. QED BY <1>5, <5>1
      <4>2. QED BY <1>3, <3>1, <4>1
    <3>3. QED BY <1>15, <3>2 DEF IsToken, Gap
  <2>2. Coming(c)' = snapshot \cup {j \in Retained : j > Cursor}
    BY <1>8, <1>9 DEF Coming
  <2>3. \A m \in Tokens : entries[m].offset >= n => m \in Coming(c)'
    BY <1>3, <1>4, <1>6, <1>13, <1>15, <2>2 DEF Tokens
  <2>4. \A j \in Coming(c)' : IsToken(j) => j \in Tokens
    BY <1>5, <2>2 DEF IsToken, Tokens
  <2>5. SUFFICES ASSUME NEW m \in i + 1 .. Len(entries), IsToken(m),
                        entries[m].epoch = entries[i].epoch
                 PROVE  \/ m \in Coming(c)'
                        \/ /\ entries[i].epoch # epoch
                           /\ \A j \in Coming(c)' : j > m /\ IsToken(j) =>
                                 entries[j].epoch # entries[i].epoch
    BY <1>9 DEF Follows, IsToken
  <2>6. /\ m \in 0..Len(entries) /\ m \in Nat /\ i < m
        /\ entries[i].offset \in Nat /\ entries[m].offset \in Nat
        /\ entries[i].offset < entries[m].offset
    <3>1. m \in 0..Len(entries) /\ m \in Nat /\ i < m
      BY <1>3, <2>1, <2>5
    <3>2. QED BY <1>0, <1>15, <2>1, <2>5, <3>1, InOrder
  <2>7. CASE i \in Tokens /\ i \in snapshot
    <3>1. m \in Tokens
      BY <1>3, <1>13, <2>5, <2>6, <2>7 DEF Tokens, Retained
    <3>2. entries[i].offset >= n
      BY <1>5, <2>7
    <3>3. QED BY <1>3, <2>3, <2>6, <3>1, <3>2
  <2>8. CASE i \notin snapshot
    <3>1. i = Last(seen[c]) /\ Gap \notin snapshot /\ i \in Given(c) /\ seen[c] # <<>>
      <4>1. i \in Given(c) /\ i = Last(seen[c]) /\ Gap \notin snapshot
        BY <1>1, <1>8, <1>9, <1>15, <2>8 DEF GivenLast
      <4>2. seen[c] # <<>>
        BY <4>1 DEF Given, ToSet
      <4>3. QED BY <4>1, <4>2
    <3>2. n = entries[i].offset + 1
      BY <1>0, <1>15, <3>1 DEF ReaderOK, After, n
    <3>3. entries[m].offset >= n
      BY <2>6, <3>2
    <3>4. CASE m \in Tokens
      BY <2>3, <3>3, <3>4
    <3>5. CASE m \notin Tokens /\ entries[i].epoch # epoch
      BY <1>0, <1>15, <2>4, <3>5 DEF KeysOK, InStep
    <3>6. CASE m \notin Tokens /\ entries[i].epoch = epoch
      <4>1. m <= gone
        BY <1>3, <2>5, <2>6, <3>6 DEF Tokens, Retained
      <4>2. Tokens # {}
        <5>1. m \in 1..Len(entries) /\ entries[m].offset < counter
          <6>1. m \in 1..Len(entries) /\ m # 0
            BY <2>1, <2>6
          <6>2. QED BY <1>0, <2>5, <3>6, <6>1 DEF KeysOK, Numbered
        <5>2. counter \in Nat /\ counter # 0
          BY <1>0, <2>6, <5>1 DEF KeysOK, Typed
        <5>3. QED BY <1>0, <1>15, <5>2 DEF KeysOK, InStep
      <4>3. PICK t \in Tokens : t = Min(Tokens)
        BY <1>6, <1>15, <4>2
      <4>4. entries[t].offset <= n
        BY <1>6, <1>15, <3>1, <4>3
      <4>5. entries[t].epoch = epoch /\ m < t
        BY <1>0, <1>3, <1>13, <1>15, <2>6, <4>1, <4>3 DEF KeysOK, InStep
      <4>6. entries[m].offset < entries[t].offset
        BY <1>0, <1>13, <2>5, <2>6, <3>6, <4>3, <4>5, InOrder
      <4>7. QED BY <1>3, <1>13, <2>6, <3>3, <4>3, <4>4, <4>6
    <3>7. QED BY <3>4, <3>5, <3>6
  <2>9. i \in snapshot => i \in Tokens
    BY <1>5, <1>15 DEF IsToken, Tokens
  <2>10. QED BY <2>7, <2>8, <2>9
<1>16. ASSUME ~torn PROVE SeamOK(c)'
  BY <1>8, <1>9, <1>15, <1>16 DEF SeamOK
<1>17. ReaderOK(c)'
  BY <1>9, <1>11, <1>12, <1>14, <1>16 DEF ReaderOK
<1>18. ASSUME ~torn PROVE SkipOK(c)'
  BY <1>6, <1>8, <1>9, <1>18 DEF SkipOK
<1>19. LagsOK(c)'
  BY <1>1, LagsStay
<1>20. QED BY <1>1, <1>2, <1>8, <1>17, <1>18, <1>19, OneReader


-----------------------------------------------------------------------------
(* The invariance of IInv.                                                 *)

LEMMA InitIInv == Init => IInv
<1> SUFFICES ASSUME Init PROVE IInv
  OBVIOUS
<1>1. /\ entries = <<>> /\ gone = 0 /\ counter = 0 /\ epoch = 0
      /\ life = [key \in Key |-> 0] /\ marking = [e \in Caller |-> "none"]
      /\ torn = FALSE /\ reader = [c \in Client |-> NotReading]
      /\ resume = [c \in Client |-> 0] /\ seen = [c \in Client |-> <<>>]
      /\ lost = [c \in Client |-> {}] /\ Len(entries) = 0
  BY DEF Init
<1>2. NoExpiry \in Nat /\ NoExpiry # 0 /\ CompletedTtl \in Nat
  BY RedisAssumption DEF NoExpiry
<1>3. Retained = {} /\ Tokens = {} /\ Ends = {}
  BY <1>1 DEF Retained, Tokens, Ends
<1>4. NotReading \in ReaderState
  BY DEF NotReading, ReaderState
<1>5. Typed
  <2>1. entries \in Seq(Entry) /\ \A c \in Client : seen[c] \in Seq(0..Len(entries))
    BY <1>1
  <2>2. seen \in [Client -> Seq(0..Len(entries))]
    BY <1>1, <2>1
  <2>3. /\ life \in [Key -> 0..NoExpiry]
        /\ life["counter"] # NoExpiry /\ life["privacy"] # NoExpiry
    BY <1>1, <1>2 DEF Key
  <2>4. /\ marking \in [Caller -> Key \cup {"none"}]
        /\ reader \in [Client -> ReaderState] /\ resume \in [Client -> Nat]
        /\ lost \in [Client -> SUBSET (1..Len(entries))]
    BY <1>1, <1>4
  <2>5. gone \in 0..Len(entries) /\ counter \in Nat /\ epoch \in Nat
    <3>1. gone = 0 /\ counter = 0 /\ epoch = 0 /\ Len(entries) = 0
      BY <1>1
    <3>2. QED BY <3>1
  <2>6. torn \in BOOLEAN
    BY <1>1
  <2>7. QED BY <2>1, <2>2, <2>3, <2>4, <2>5, <2>6 DEF Typed
<1>6. Present /\ Numbered /\ InStep
  <2>1. Present
    BY <1>1, <1>3 DEF Present, Key
  <2>2. Numbered
    BY <1>1 DEF Numbered
  <2>3. InStep
    BY <1>1, <1>2, <1>3 DEF InStep, Key, Marking
  <2>4. QED BY <2>1, <2>2, <2>3
<1>7. ASSUME NEW c \in Client PROVE ReaderOK(c)
  <2>1. /\ reader[c].pc = "idle" /\ reader[c].cursor = 0 /\ reader[c].queue = {}
        /\ seen[c] = <<>> /\ Given(c) = {}
    BY <1>1 DEF NotReading, Given, ToSet
  <2>2. QED BY <1>1, <1>3, <2>1 DEF ReaderOK, CursorOK, ResumeOK, SeamOK, Reading
<1>8. NothingRetainedIsSkipped /\ OnlyLagLosesSilently
  BY <1>1, <1>3 DEF NothingRetainedIsSkipped, OnlyLagLosesSilently
<1>9. QED BY <1>5, <1>6, <1>7, <1>8 DEF IInv, KeysOK

LEMMA NextIInv == IInv /\ [Next]_vars => IInv'
<1> SUFFICES ASSUME IInv, [Next]_vars PROVE IInv'
  OBVIOUS
<1>1. KeysOK
  BY DEF IInv
<1>2. CASE \/ Publish \/ SetPrivate \/ Delete \/ Tick
           \/ \E e \in Caller : \/ \E kind \in Terminal : MarkTerminal(e, kind)
                                \/ Pexpire(e) \/ Cut(e)
  <2>1. Written
    BY <1>1, <1>2, WritesAreSeen
  <2>2. KeysOK'
    BY <1>1, <1>2, PublishKeys, SetPrivateKeys, DeleteKeys, TickKeys, MarkKeys,
       PexpireKeys, CutKeys
  <2>3. QED BY <2>1, <2>2, WrittenInvariant
<1>3. ASSUME NEW c \in Client,
             Subscribe(c) \/ ReadMore(c) \/ Deliver(c) \/ Drop(c) \/ Unavailable(c)
      PROVE  IInv'
  BY <1>3, SubscribeInvariant, ReadMoreInvariant, DeliverInvariant, LeaveInvariant
<1>4. CASE UNCHANGED vars
  <2>1. Still /\ UNCHANGED <<reader, resume, seen>>
    BY <1>4 DEF vars, Still
  <2>2. KeysOK'
    BY <1>1, <2>1, StillKeys DEF KeysOK, Typed
  <2>3. Written
    <3>1. Len(entries) \in Nat /\ gone \in 0..Len(entries) /\ epoch \in Nat
          /\ Len(entries) + 1 .. Len(entries) = {} /\ Typed
      BY <1>1 DEF KeysOK, Typed
    <3>2. QED BY <2>1, <3>1, NothingLost DEF Written, Still
  <2>4. QED BY <2>2, <2>3, WrittenInvariant
<1>5. QED BY <1>2, <1>3, <1>4 DEF Next

(* The inductive invariant holds of every behaviour of the Redis spine.    *)
THEOREM Invariance == Spec => []IInv
<1>1. QED BY InitIInv, NextIInv, PTL DEF Spec

(* A key is present exactly while it has a life, the stream key holds      *)
(* entries exactly then, and the counter counts exactly then.              *)
THEOREM TypeCorrect == Spec => []TypeOK
<1>1. IInv => TypeOK
  <2> SUFFICES ASSUME IInv PROVE TypeOK
    OBVIOUS
  <2>1. Typed /\ Present
    BY DEF IInv, KeysOK
  <2>2. \A c \in Client : reader[c].pc \in {"idle", "live", "ended", "failed"}
    <3>1. \A c \in Client : reader[c] \in ReaderState
      BY <2>1 DEF Typed
    <3>2. QED BY <3>1 DEF ReaderState
  <2>3. QED BY <2>1, <2>2 DEF TypeOK, Typed, Present
<1>2. QED BY <1>1, Invariance, PTL

(* The seam between snapshot and live tail (subscribe): every token at or  *)
(* above the offset a connected client asked for, that is still retained   *)
(* as far as it has read, was given to it or is about to be.               *)
THEOREM SeamSound == Spec => []NothingRetainedIsSkipped
<1>1. IInv => NothingRetainedIsSkipped
  BY DEF IInv
<1>2. QED BY <1>1, Invariance, PTL

(* Between two tokens given one after the other nothing is missing but     *)
(* what was removed while the client was connected and behind.             *)
THEOREM LagSound == Spec => []OnlyLagLosesSilently
<1>1. IInv => OnlyLagLosesSilently
  BY DEF IInv
<1>2. QED BY <1>1, Invariance, PTL

(* A client that was told an end was told the first one retained.          *)
THEOREM EndSound == Spec => []EndIsTheFirst
<1>1. IInv => EndIsTheFirst
  BY DEF IInv, ReaderOK, CursorOK, EndIsTheFirst
<1>2. QED BY <1>1, Invariance, PTL

(* Offsets and stream order never disagree, and the three keys expire in   *)
(* step (PUBLISH_LUA, mark_terminal), while nothing was torn.              *)
THEOREM StepSound == Spec => []KeysInStep
<1>1. IInv => KeysInStep
  <2> SUFFICES ASSUME IInv, ~torn, \A e \in Caller : marking[e] = "none"
               PROVE  /\ \A i, j \in Tokens : i < j => entries[i].offset < entries[j].offset
                      /\ life \in [Key -> 0..IdleTtl]
                      /\ Tokens # {} => life["counter"] >= life["stream"]
                      /\ life["privacy"] # 0 => life["privacy"] >= life["stream"]
    BY DEF KeysInStep
  <2>1. KeysOK /\ InStep /\ Typed
    BY DEF IInv, KeysOK
  <2>2. \A keys \in SUBSET Key : ~Marking(keys)
    BY DEF Marking, Key
  <2>3. /\ IdleTtl \in Nat /\ NoExpiry = IdleTtl + 1
        /\ life \in [Key -> 0..NoExpiry]
        /\ \A key \in Key : life[key] # NoExpiry
    BY <2>1, <2>2, RedisAssumption DEF Typed, InStep, Key, NoExpiry
  <2>4. life \in [Key -> 0..IdleTtl]
    BY <2>3
  <2>5. ASSUME NEW i \in Tokens, NEW j \in Tokens, i < j
        PROVE  entries[i].offset < entries[j].offset
    <3>1. /\ i \in Nat /\ j \in Nat /\ i \in 0..Len(entries) /\ j \in 0..Len(entries)
          /\ IsToken(i) /\ IsToken(j)
      BY <2>1 DEF Tokens, Retained, Typed
    <3>2. entries[i].epoch = entries[j].epoch
      BY <2>1 DEF InStep
    <3>3. QED BY <2>1, <2>5, <3>1, <3>2, InOrder
  <2>6. Tokens # {} => life["counter"] >= life["stream"]
    <3>1. Tokens # {} => life["counter"] = life["stream"]
      BY <2>1, <2>2 DEF InStep, Key
    <3>2. life["counter"] \in Nat
      BY <2>3 DEF Key
    <3>3. QED BY <3>1, <3>2
  <2>7. life["privacy"] # 0 => life["privacy"] >= life["stream"]
    BY <2>1, <2>2 DEF InStep, Key
  <2>8. QED BY <2>4, <2>5, <2>6, <2>7
<1>2. QED BY <1>1, Invariance, PTL


-----------------------------------------------------------------------------
(* The Redis spine keeps the contract of a Backend.                        *)

LEMMA PrefixByElements ==
    ASSUME NEW S, NEW s \in Seq(S), NEW t \in Seq(S), Len(s) <= Len(t),
           \A k \in 1..Len(s) : s[k] = t[k]
    PROVE  IsPrefix(s, t)
<1>1. SubSeq(s, 1, Len(s)) = SubSeq(t, 1, Len(s))
  <2>1. Len(s) \in Nat /\ Len(t) \in Nat
    OBVIOUS
  <2>2. /\ SubSeq(s, 1, Len(s)) \in Seq(S) /\ Len(SubSeq(s, 1, Len(s))) = Len(s)
        /\ SubSeq(t, 1, Len(s)) \in Seq(S) /\ Len(SubSeq(t, 1, Len(s))) = Len(s)
        /\ \A k \in 1..Len(s) : /\ SubSeq(s, 1, Len(s))[k] = s[k]
                                 /\ SubSeq(t, 1, Len(s))[k] = t[k]
    BY <2>1
  <2>3. QED BY <2>1, <2>2
<1>2. QED BY <1>1 DEF IsPrefix

LEMMA ToldTyped ==
    ASSUME KeysOK, NEW c \in Client
    PROVE  Told[c] \in Seq(Nat) /\ Len(Told[c]) = Len(seen[c]) /\ Len(seen[c]) \in Nat
<1>1. seen[c] \in Seq(0..Len(entries)) /\ Len(seen[c]) \in Nat
  BY DEF KeysOK, Typed
<1>2. \A k \in 1..Len(seen[c]) : Number(seen[c][k]) \in Nat
  <2>1. \A k \in 1..Len(seen[c]) : seen[c][k] \in Nat
    BY <1>1
  <2>2. QED BY <2>1 DEF Number
<1>3. QED BY <1>1, <1>2 DEF Told

(* A write adds chunks at most, and no client is told anything.            *)
LEMMA WrittenPublishes ==
    ASSUME KeysOK, KeysOK', Written
    PROVE  /\ Chunks \subseteq Chunks'
           /\ \A c \in Client : Told'[c] = Told[c]
           /\ Closed' = Closed
<1>1. /\ Len(entries) \in Nat /\ Len(entries') \in Nat
      /\ \A i \in 0..Len(entries) : IsToken(i)' = IsToken(i)
  BY WrittenFacts
<1>2. UNCHANGED <<reader, seen>> /\ Len(entries) <= Len(entries')
  BY DEF Written
<1>3. Chunks \subseteq Chunks'
  <2>1. \A i \in 1..Len(entries) : i \in 1..Len(entries') /\ i \in 0..Len(entries)
    BY <1>1, <1>2
  <2>2. QED BY <1>1, <2>1 DEF Chunks
<1>4. ASSUME NEW c \in Client PROVE Told'[c] = Told[c]
  <2>1. seen[c] \in Seq(0..Len(entries))
    BY DEF KeysOK, Typed
  <2>2. \A k \in 1..Len(seen[c]) : seen[c][k] \in 0..Len(entries)
    BY <2>1
  <2>3. \A i \in 0..Len(entries) : Number(i)' = Number(i)
    BY <1>1 DEF Number
  <2>4. \A k \in 1..Len(seen[c]) : Number(seen[c][k])' = Number(seen[c][k])
    BY <1>1, <1>2, <2>2 DEF Number
  <2>5. QED BY <1>2, <2>4 DEF Told
<1>5. QED BY <1>2, <1>3, <1>4 DEF Closed


(* A delivery tells one client more, no chunk twice and none out of order. *)
LEMMA DeliverAdvances ==
    ASSUME IInv, ~torn, NEW c \in Client, Deliver(c)
    PROVE  /\ IsPrefix(Told[c], Told'[c])
           /\ \A k \in Len(Told[c]) + 1 .. Len(Told'[c]) :
                 Told'[c][k] # 0 => /\ Told'[c][k] \in Chunks
                                    /\ \A j \in 1 .. k - 1 : Told'[c][j] < Told'[c][k]
           /\ \A x \in Client \ {c} : Told'[x] = Told[x]
           /\ Closed' \in {Closed, Closed \cup {c}}
           /\ c \notin Closed /\ Chunks' = Chunks
<1>0. KeysOK /\ KeysOK' /\ CursorOK(c) /\ ResumeOK(c)
  <2>1. IInv'
    BY DeliverInvariant
  <2>2. QED BY <2>1 DEF IInv, ReaderOK
<1>1. PICK p : p = Min(reader[c].queue)
  OBVIOUS
<1>2. /\ Still /\ Reading(c)
      /\ p \in reader[c].queue /\ p \in 0..Len(entries)
      /\ \/ p = Gap /\ seen'[c] = seen[c]
         \/ seen'[c] = Append(seen[c], p)
      /\ reader' \in [Client -> ReaderState]
      /\ reader'[c].pc = IF IsEnd(p) THEN "ended" ELSE "live"
      /\ \A x \in Client : x # c => reader'[x] = reader[x] /\ seen'[x] = seen[x]
  BY <1>0, <1>1, DeliverFacts
<1>3. \A i : IsToken(i)' = IsToken(i) /\ Number(i)' = Number(i)
  BY <1>2 DEF Still, IsToken, Number
<1>4. Chunks' = Chunks /\ c \notin Closed
  BY <1>2 DEF Still, Chunks, Closed, Reading, IsToken
<1>5. Closed' \in {Closed, Closed \cup {c}}
  <2>1. \A x \in Client : x # c => reader'[x].pc = reader[x].pc
    BY <1>2
  <2>2. \A x \in Client : x # c => (x \in Closed') = (x \in Closed)
    BY <2>1 DEF Closed
  <2>3. Closed \subseteq Client /\ Closed' \subseteq Client
    BY DEF Closed
  <2>4. CASE c \in Closed'
    <3>1. Closed' = Closed \cup {c}
      BY <2>2, <2>3, <2>4
    <3>2. QED BY <3>1
  <2>5. CASE c \notin Closed'
    <3>1. Closed' = Closed
      BY <1>4, <2>2, <2>3, <2>5
    <3>2. QED BY <3>1
  <2>6. QED BY <2>4, <2>5
<1>6. \A x \in Client \ {c} : Told'[x] = Told[x]
  BY <1>2 DEF Told, Number, Still, IsToken
<1>7. /\ Told[c] \in Seq(Nat) /\ Len(Told[c]) = Len(seen[c]) /\ Len(seen[c]) \in Nat
      /\ seen[c] \in Seq(0..Len(entries))
  BY <1>0, ToldTyped, ReaderTypes
<1>8. CASE seen'[c] = seen[c]
  <2>1. Told'[c] = Told[c]
    BY <1>2, <1>8 DEF Told, Number, Still, IsToken
  <2>2. IsPrefix(Told[c], Told'[c])
    BY <1>7, <2>1, PrefixByElements
  <2>3. Len(Told[c]) + 1 .. Len(Told'[c]) = {}
    BY <1>7, <2>1
  <2>4. QED BY <1>4, <1>5, <1>6, <2>2, <2>3
<1>9. CASE seen'[c] = Append(seen[c], p)
  <2> DEFINE n == Len(seen[c])
  <2>1. /\ Len(seen'[c]) = n + 1 /\ n \in Nat
        /\ \A k \in 1..n : seen'[c][k] = seen[c][k]
        /\ seen'[c][n + 1] = p
    <3>1. PICK S : S = 0..Len(entries)
      OBVIOUS
    <3>2. seen[c] \in Seq(S) /\ p \in S
      BY <1>2, <1>7, <3>1
    <3>3. QED BY <1>9, <3>2, OneMore
  <2>2. PICK t : t = Told'[c]
    OBVIOUS
  <2>3. t = [k \in 1 .. n + 1 |-> Number(seen'[c][k])]
    BY <1>2, <2>1, <2>2 DEF Told, Number, Still, IsToken
  <2>4. /\ t \in Seq(Nat) /\ Len(t) = n + 1
        /\ \A k \in 1..n : t[k] = Number(seen[c][k]) /\ t[k] = Told[c][k]
        /\ t[n + 1] = Number(p)
    <3>1. \A k \in 1..n : seen[c][k] \in Nat /\ p \in Nat
      BY <1>2, <1>7
    <3>2. \A k \in 1 .. n + 1 : Number(seen'[c][k]) \in Nat
      <4>1. \A k \in 1 .. n + 1 : k \in 1..n \/ k = n + 1
        BY <2>1
      <4>2. \A k \in 1 .. n + 1 : seen'[c][k] \in Nat
        BY <1>2, <2>1, <3>1, <4>1
      <4>3. QED BY <4>2 DEF Number
    <3>3. t \in Seq(Nat) /\ Len(t) = n + 1
      BY <2>1, <2>3, <3>2
    <3>4. QED BY <2>1, <2>3, <3>3 DEF Told
  <2>5. IsPrefix(Told[c], t)
    <3>1. Told[c] \in Seq(Nat) /\ t \in Seq(Nat)
      BY <1>7, <2>4
    <3>2. Len(Told[c]) <= Len(t)
      <4>1. Len(Told[c]) = n /\ Len(t) = n + 1 /\ n \in Nat
        BY <1>7, <2>4
      <4>2. QED BY <4>1
    <3>3. \A k \in 1..Len(Told[c]) : Told[c][k] = t[k]
      <4>1. \A k \in 1..n : Told[c][k] = t[k]
        BY <2>4
      <4>2. QED BY <1>7, <4>1
    <3>4. QED BY <3>1, <3>2, <3>3, PrefixByElements
  <2>6. ASSUME Number(p) # 0
        PROVE  /\ Number(p) \in Chunks
               /\ \A j \in 1..n : t[j] < Number(p)
    <3>1. IsToken(p) /\ Number(p) = p /\ p \in Nat /\ p # 0
      BY <1>2, <2>6 DEF Number
    <3>2. ASSUME NEW j \in 1..n PROVE Number(seen[c][j]) < p
      <4>1. seen[c][j] \in Given(c) /\ seen[c][j] \in Nat
        BY <1>7, <3>2 DEF Given, ToSet
      <4>2. IsToken(seen[c][j]) => seen[c][j] < p
        BY <1>0, <1>2, <3>1, <4>1 DEF ResumeOK
      <4>3. QED BY <3>1, <4>1, <4>2 DEF Number
    <3>3. p \in Chunks
      BY <1>2, <3>1 DEF Chunks
    <3>4. QED BY <2>4, <3>1, <3>2, <3>3
  <2>7. \A k \in Len(Told[c]) + 1 .. Len(t) : k = n + 1 /\ 1 .. k - 1 = 1..n
    BY <1>7, <2>1, <2>4
  <2>8. \A k \in Len(Told[c]) + 1 .. Len(t) :
           t[k] # 0 => /\ t[k] \in Chunks
                       /\ \A j \in 1 .. k - 1 : t[j] < t[k]
    BY <2>4, <2>6, <2>7
  <2>9. IsPrefix(Told[c], Told'[c])
    BY <2>2, <2>5
  <2>10. \A k \in Len(Told[c]) + 1 .. Len(Told'[c]) :
            Told'[c][k] # 0 => /\ Told'[c][k] \in Chunks
                               /\ \A j \in 1 .. k - 1 : Told'[c][j] < Told'[c][k]
    BY <2>2, <2>8
  <2>11. QED BY <1>4, <1>5, <1>6, <2>9, <2>10
<1>10. QED BY <1>2, <1>8, <1>9


(* Every step of the spine is one the contract allows: a write is a        *)
(* Publish, a delivery or a failure an Advance, and a torn mark_terminal   *)
(* waives it.                                                              *)
LEMMA StepKeepsContract ==
    ASSUME IInv, [Next]_vars
    PROVE  [Contract!Next]_(Contract!vars)
<1>0. KeysOK /\ KeysOK'
  <2>1. IInv'
    BY NextIInv
  <2>2. QED BY <2>1 DEF IInv
<1>1. torn \in BOOLEAN
  BY <1>0 DEF KeysOK, Typed
<1>2. CASE torn'
  BY <1>2 DEF Contract!Next, Contract!Waive
<1>3. ASSUME Chunks \subseteq Chunks', \A c \in Client : Told'[c] = Told[c], Closed' = Closed,
             torn' = torn
      PROVE  Contract!Publish
  <2>1. Told' = Told
    <3>1. /\ Told = [x \in Client |-> Told[x]]
          /\ Told' = [x \in Client |-> Told'[x]]
      BY DEF Told
    <3>2. [x \in Client |-> Told[x]] = [x \in Client |-> Told'[x]]
      BY <1>3
    <3>3. QED BY <3>1, <3>2
  <2>2. QED BY <1>3, <2>1 DEF Contract!Publish
<1>4. CASE ~torn' /\ (\/ Publish \/ SetPrivate \/ Delete \/ Tick
                      \/ \E e \in Caller : \/ \E kind \in Terminal : MarkTerminal(e, kind)
                                           \/ Pexpire(e) \/ Cut(e))
  <2>1. Written
    BY <1>0, <1>4, WritesAreSeen
  <2>2. torn' = torn
    <3>1. torn' \in BOOLEAN
      BY <1>0 DEF KeysOK, Typed
    <3>2. QED BY <1>1, <1>4, <2>1, <3>1 DEF Written
  <2>3. QED BY <1>0, <1>3, <2>1, <2>2, WrittenPublishes DEF Contract!Next
<1>5. ASSUME NEW c \in Client, Subscribe(c) \/ ReadMore(c) \/ Drop(c)
      PROVE  Contract!Publish
  <2>1. /\ UNCHANGED <<entries, seen, torn>> /\ reader \in [Client -> ReaderState]
        /\ reader[c].pc \in {"idle", "live"}
        /\ reader'[c].pc \in {"idle", "live"}
        /\ \A x \in Client : x # c => reader'[x] = reader[x]
    <3>1. reader \in [Client -> ReaderState]
      BY <1>0 DEF KeysOK, Typed
    <3>2. CASE Subscribe(c)
      BY <3>1, <3>2 DEF Subscribe, redis
    <3>3. CASE ReadMore(c)
      BY <3>1, <3>3 DEF ReadMore, redis, Reading, ReaderState
    <3>4. CASE Drop(c)
      BY <3>1, <3>4 DEF Drop, redis, Reading, NotReading
    <3>5. QED BY <1>5, <3>2, <3>3, <3>4
  <2>2. Closed' = Closed
    <3>1. \A x \in Client : (x \in Closed') = (x \in Closed)
      BY <2>1 DEF Closed
    <3>2. Closed \subseteq Client /\ Closed' \subseteq Client
      BY DEF Closed
    <3>3. QED BY <3>1, <3>2
  <2>3. Chunks' = Chunks /\ \A x \in Client : Told'[x] = Told[x]
    BY <2>1 DEF Chunks, Told, Number, IsToken
  <2>4. QED BY <1>3, <2>1, <2>2, <2>3
<1>6. ASSUME NEW c \in Client, IsPrefix(Told[c], Told'[c]),
             \A k \in Len(Told[c]) + 1 .. Len(Told'[c]) :
                Told'[c][k] # 0 => /\ Told'[c][k] \in Chunks
                                   /\ \A j \in 1 .. k - 1 : Told'[c][j] < Told'[c][k],
             \A x \in Client \ {c} : Told'[x] = Told[x],
             Closed' \in {Closed, Closed \cup {c}},
             c \notin Closed, Chunks' = Chunks, torn' = torn
      PROVE  Contract!Advance(c)
  <2>1. Contract!IsPrefix(Told[c], Told'[c])
    BY <1>6 DEF IsPrefix, Contract!IsPrefix
  <2>2. QED BY <1>6, <2>1 DEF Contract!Advance
<1>7. ASSUME NEW c \in Client, Unavailable(c), ~torn
      PROVE  Contract!Advance(c)
  <2>1. /\ UNCHANGED <<entries, seen, torn>> /\ reader \in [Client -> ReaderState]
        /\ reader[c].pc \in {"idle", "live"} /\ reader'[c].pc = "failed"
        /\ \A x \in Client : x # c => reader'[x] = reader[x]
    BY <1>0, <1>7 DEF Unavailable, redis, KeysOK, Typed, Reading, ReaderState
  <2>2. Closed' = Closed \cup {c} /\ c \notin Closed
    <3>1. \A x \in Client : (x \in Closed') = (x = c \/ x \in Closed)
      BY <2>1 DEF Closed
    <3>2. Closed \subseteq Client /\ Closed' \subseteq Client
      BY DEF Closed
    <3>3. c \notin Closed
      BY <2>1 DEF Closed
    <3>4. QED BY <3>1, <3>2, <3>3
  <2>3. Chunks' = Chunks /\ \A x \in Client : Told'[x] = Told[x]
    BY <2>1 DEF Chunks, Told, Number, IsToken
  <2>4. /\ IsPrefix(Told[c], Told'[c]) /\ Len(Told[c]) + 1 .. Len(Told'[c]) = {}
    <3>1. Told[c] \in Seq(Nat) /\ Len(Told[c]) \in Nat
      BY <1>0, ToldTyped
    <3>2. IsPrefix(Told[c], Told[c])
      BY <3>1, PrefixByElements
    <3>3. Len(Told[c]) + 1 .. Len(Told[c]) = {}
      BY <3>1
    <3>4. QED BY <2>3, <3>2, <3>3
  <2>5. QED BY <1>6, <2>1, <2>2, <2>3, <2>4
<1>8. ASSUME NEW c \in Client, Deliver(c), ~torn
      PROVE  Contract!Advance(c)
  <2>1. torn' = torn
    BY <1>8 DEF Deliver
  <2>2. QED BY <1>6, <1>8, <2>1, DeliverAdvances
<1>9. CASE UNCHANGED vars
  <2>1. Chunks' = Chunks /\ (\A x \in Client : Told'[x] = Told[x]) /\ Closed' = Closed
    BY <1>9 DEF vars, Chunks, Told, Closed, Number, IsToken
  <2>2. QED BY <1>3, <1>9, <2>1 DEF vars, Contract!Next
<1>10. ASSUME NEW c \in Client, ~torn',
              Subscribe(c) \/ ReadMore(c) \/ Deliver(c) \/ Drop(c) \/ Unavailable(c)
       PROVE  Contract!Next
  <2>1. torn' = torn
    BY <1>10 DEF Subscribe, ReadMore, Deliver, Drop, Unavailable
  <2>2. QED BY <1>5, <1>7, <1>8, <1>10, <2>1 DEF Contract!Next
<1>11. QED BY <1>1, <1>2, <1>4, <1>9, <1>10 DEF Next

(* The Redis spine is a Backend: over all its connections a client is      *)
(* given each chunk at most once and in order, and nothing after an end,   *)
(* unless a mark_terminal was torn.                                        *)
THEOREM Implements == Spec => ContractSpec
<1>1. Init => Contract!Init
  <2> SUFFICES ASSUME Init PROVE Chunks = {} /\ Told = [c \in Client |-> <<>>] /\ Closed = {}
    BY DEF Init, Contract!Init
  <2>1. Chunks = {} /\ Closed = {}
    BY DEF Init, Chunks, Closed, NotReading
  <2>2. \A c \in Client : [k \in 1..Len(seen[c]) |-> Number(seen[c][k])] = <<>>
    BY DEF Init
  <2>3. Told = [c \in Client |-> <<>>]
    BY <2>2 DEF Told
  <2>4. QED BY <2>1, <2>3
<1>2. IInv /\ [Next]_vars => [Contract!Next]_(Contract!vars)
  BY StepKeepsContract
<1>3. QED BY <1>1, <1>2, Invariance, PTL DEF Spec, ContractSpec, Contract!Spec
=============================================================================

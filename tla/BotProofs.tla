------------------------------ MODULE BotProofs ------------------------------
(***************************************************************************)
(* Proofs about BotCredentials: for any number of accounts, teams, bots,   *)
(* keys and tokens, and whatever the order of enrollments, rotations,      *)
(* password changes, locks and departures, a credential from before the    *)
(* owner's last change is refused, a refresh token has one successor, a    *)
(* steward takes the tokens of the team's bots along, and what was refused *)
(* stays refused.                                                          *)
(*                                                                         *)
(* Three clocks stamp a credential: the account's epoch, the bot's copy of *)
(* it and the bot's generation.  The argument is that they only move       *)
(* forward, and never apart: a step that moves the epoch under a bot       *)
(* revokes its keys and moves its generation, and a step that moves the    *)
(* generation empties the refresh family (OnlyForward).                    *)
(***************************************************************************)
EXTENDS BotCredentials, TLAPS

\* Every credential names a bot there is, and a refresh token a key of its bot.
References ==
    /\ \A k \in DOMAIN keys : keys[k].bot \in DOMAIN bots
    /\ \A i \in DOMAIN refresh :
          /\ refresh[i].bot \in DOMAIN bots
          /\ refresh[i].key \in DOMAIN keys
          /\ keys[refresh[i].key].bot = refresh[i].bot
    /\ \A i \in DOMAIN agents : agents[i].bot \in DOMAIN bots

\* A bot's copy of the epoch is never ahead of the account; a team bot's is 0.
CopiesEpoch(e) ==
    /\ e.owner = Org => e.team \in Teams
    /\ e.epoch <= EpochOf(e.owner)

Epochs ==
    /\ \A b \in DOMAIN bots : CopiesEpoch(bots[b])
    /\ \A e \in enrolling : CopiesEpoch(e) /\ e.status = "active"

\* What stands was issued under the epoch its bot copied.
StampsInv ==
    /\ \A k \in DOMAIN keys : ~keys[k].revoked => keys[k].under = bots[keys[k].bot].epoch
    /\ \A i \in DOMAIN agents :
          /\ agents[i].gen <= bots[agents[i].bot].gen
          /\ agents[i].gen = bots[agents[i].bot].gen => agents[i].under = bots[agents[i].bot].epoch

\* A bot that could be accepted again has a key that does not retire.
HasCurrentKey(b) ==
    \E k \in DOMAIN keys : keys[k].bot = b /\ ~keys[k].revoked /\ keys[k].retired = Never

KeysInv == \A b \in DOMAIN bots : bots[b].status = "revoked" \/ EpochWasStale(b) \/ HasCurrentKey(b)

\* Who was answered was spent.
SpentInv ==
    \A i \in DOMAIN refresh : refresh[i].used = Never => \A a \in answers : a[1] # i

Generations == \A i \in DOMAIN refresh : refresh[i].gen = bots[refresh[i].bot].gen

BotInv ==
    /\ TypeOK /\ References /\ Epochs /\ StampsInv /\ KeysInv /\ SpentInv /\ Generations
    /\ OneSuccessor /\ UnrevokedIssuersSteward

-----------------------------------------------------------------------------
(* Sequences of rows *)

LEMMA MappedSeq ==
    ASSUME NEW S, NEW s \in Seq(S), NEW t, t = [i \in DOMAIN s |-> t[i]],
           \A i \in DOMAIN s : t[i] \in S
    PROVE  t \in Seq(S) /\ DOMAIN t = DOMAIN s
<1>1. DOMAIN s = 1..Len(s) /\ Len(s) \in Nat
  OBVIOUS
<1>2. t \in [1..Len(s) -> S]
  BY <1>1
<1> QED
  BY <1>1, <1>2

LEMMA AppendedSeq ==
    ASSUME NEW S, NEW s \in Seq(S), NEW x \in S, NEW t, t = Append(s, x)
    PROVE  /\ t \in Seq(S) /\ Len(s) + 1 \notin DOMAIN s
           /\ DOMAIN t = DOMAIN s \cup {Len(s) + 1}
           /\ \A i \in DOMAIN s : t[i] = s[i] /\ i # Len(s) + 1
           /\ t[Len(s) + 1] = x
  OBVIOUS

LEMMA RowsAreTyped ==
    ASSUME TypeOK
    PROVE  /\ \A b \in DOMAIN bots : bots[b] \in BotRecords
           /\ \A k \in DOMAIN keys : keys[k] \in KeyRecords
           /\ \A i \in DOMAIN refresh : refresh[i] \in RefreshRecords /\ i \in 1..issued
           /\ \A i \in DOMAIN agents : agents[i] \in AgentRecords
           /\ \A u \in Users : account[u] \in Accounts
  BY DEF TypeOK

LEMMA BumpedBots ==
    ASSUME TypeOK, NEW bs, bots' = BumpGeneration(bs)
    PROVE  /\ bots' \in Seq(BotRecords) /\ DOMAIN bots' = DOMAIN bots
           /\ \A b \in DOMAIN bots :
                 /\ bots'[b] = [bots[b] EXCEPT !.gen = IF b \in bs THEN @ + 1 ELSE @]
                 /\ bots'[b].owner = bots[b].owner /\ bots'[b].team = bots[b].team
                 /\ bots'[b].status = bots[b].status /\ bots'[b].epoch = bots[b].epoch
                 /\ bots'[b].gen = IF b \in bs THEN bots[b].gen + 1 ELSE bots[b].gen
<1>1. \A b \in DOMAIN bots : bots[b] \in BotRecords
  BY RowsAreTyped
<1>2. /\ bots' = [b \in DOMAIN bots |-> bots'[b]]
      /\ \A b \in DOMAIN bots :
            bots'[b] = IF b \in bs THEN [bots[b] EXCEPT !.gen = @ + 1] ELSE bots[b]
  BY DEF BumpGeneration
<1>3. ASSUME NEW b \in DOMAIN bots
      PROVE  /\ bots'[b] \in BotRecords
             /\ bots'[b] = [bots[b] EXCEPT !.gen = IF b \in bs THEN @ + 1 ELSE @]
             /\ bots'[b].owner = bots[b].owner /\ bots'[b].team = bots[b].team
             /\ bots'[b].status = bots[b].status /\ bots'[b].epoch = bots[b].epoch
             /\ bots'[b].gen = IF b \in bs THEN bots[b].gen + 1 ELSE bots[b].gen
  BY <1>1, <1>2 DEF BotRecords
<1>4. bots' \in Seq(BotRecords) /\ DOMAIN bots' = DOMAIN bots
  <2>1. bots \in Seq(BotRecords)
    BY DEF TypeOK
  <2> QED
    BY <1>2, <1>3, <2>1, MappedSeq
<1> QED
  BY <1>3, <1>4

LEMMA RevokedKeys ==
    ASSUME TypeOK, NEW bs, keys' = RevokeKeys(bs)
    PROVE  /\ keys' \in Seq(KeyRecords) /\ DOMAIN keys' = DOMAIN keys
           /\ \A k \in DOMAIN keys :
                 /\ keys'[k].bot = keys[k].bot /\ keys'[k].under = keys[k].under
                 /\ keys'[k].retired = keys[k].retired
                 /\ keys'[k].revoked <=> (keys[k].revoked \/ keys[k].bot \in bs)
<1>1. \A k \in DOMAIN keys : keys[k] \in KeyRecords
  BY RowsAreTyped
<1>2. /\ keys' = [k \in DOMAIN keys |-> keys'[k]]
      /\ \A k \in DOMAIN keys :
            keys'[k] = IF keys[k].bot \in bs THEN [keys[k] EXCEPT !.revoked = TRUE] ELSE keys[k]
  BY DEF RevokeKeys
<1>3. ASSUME NEW k \in DOMAIN keys
      PROVE  /\ keys'[k] \in KeyRecords
             /\ keys'[k].bot = keys[k].bot /\ keys'[k].under = keys[k].under
             /\ keys'[k].retired = keys[k].retired
             /\ keys'[k].revoked <=> (keys[k].revoked \/ keys[k].bot \in bs)
  <2>1. CASE keys[k].bot \in bs
    BY <1>1, <1>2, <2>1 DEF KeyRecords
  <2>2. CASE keys[k].bot \notin bs
    BY <1>1, <1>2, <2>2 DEF KeyRecords
  <2> QED
    BY <2>1, <2>2
<1>4. keys' \in Seq(KeyRecords) /\ DOMAIN keys' = DOMAIN keys
  <2>1. keys \in Seq(KeyRecords)
    BY DEF TypeOK
  <2> QED
    BY <1>2, <1>3, <2>1, MappedSeq
<1> QED
  BY <1>3, <1>4

LEMMA RevokedAgents ==
    ASSUME TypeOK, NEW is, agents' = RevokeAgents(is)
    PROVE  /\ agents' \in Seq(AgentRecords) /\ DOMAIN agents' = DOMAIN agents
           /\ \A i \in DOMAIN agents :
                 /\ agents'[i].bot = agents[i].bot /\ agents'[i].under = agents[i].under
                 /\ agents'[i].gen = agents[i].gen /\ agents'[i].issuer = agents[i].issuer
                 /\ agents'[i].expires = agents[i].expires
                 /\ agents'[i].revoked <=> (agents[i].revoked \/ i \in is)
<1>1. \A i \in DOMAIN agents : agents[i] \in AgentRecords
  BY RowsAreTyped
<1>2. /\ agents' = [i \in DOMAIN agents |-> agents'[i]]
      /\ \A i \in DOMAIN agents :
            agents'[i] = IF i \in is THEN [agents[i] EXCEPT !.revoked = TRUE] ELSE agents[i]
  BY DEF RevokeAgents
<1>3. ASSUME NEW i \in DOMAIN agents
      PROVE  /\ agents'[i] \in AgentRecords
             /\ agents'[i].bot = agents[i].bot /\ agents'[i].under = agents[i].under
             /\ agents'[i].gen = agents[i].gen /\ agents'[i].issuer = agents[i].issuer
             /\ agents'[i].expires = agents[i].expires
             /\ agents'[i].revoked <=> (agents[i].revoked \/ i \in is)
  <2>1. CASE i \in is
    BY <1>1, <1>2, <2>1 DEF AgentRecords
  <2>2. CASE i \notin is
    BY <1>1, <1>2, <2>2 DEF AgentRecords
  <2> QED
    BY <2>1, <2>2
<1>4. agents' \in Seq(AgentRecords) /\ DOMAIN agents' = DOMAIN agents
  <2>1. agents \in Seq(AgentRecords)
    BY DEF TypeOK
  <2> QED
    BY <1>2, <1>3, <2>1, MappedSeq
<1> QED
  BY <1>3, <1>4

LEMMA DroppedRows ==
    ASSUME TypeOK, NEW bs, refresh' = DropRefresh(bs)
    PROVE  /\ DOMAIN refresh' \subseteq DOMAIN refresh
           /\ refresh' \in [DOMAIN refresh' -> RefreshRecords]
           /\ \A i \in DOMAIN refresh' : refresh'[i] = refresh[i] /\ refresh[i].bot \notin bs
           /\ \A i \in DOMAIN refresh \ DOMAIN refresh' : refresh[i].bot \in bs
  BY DEF DropRefresh, Restricted, TypeOK

-----------------------------------------------------------------------------
(* What no step undoes *)

\* The account behind a bot and its copy of the epoch are left alone.
Kept(b) ==
    /\ bots'[b].epoch = bots[b].epoch
    /\ Personal(b) => account'[bots[b].owner] = account[bots[b].owner]

\* Otherwise its keys go and its generation moves; and the refresh family goes
\* whenever the generation moves.
BotsForward ==
    \A b \in DOMAIN bots :
        /\ b \in DOMAIN bots'
        /\ bots'[b].owner = bots[b].owner /\ bots'[b].team = bots[b].team
        /\ bots'[b].status = "active" => bots[b].status = "active"
        /\ bots[b].gen <= bots'[b].gen
        /\ bots'[b].epoch \in {bots[b].epoch, EpochBehind(b)}
        /\ \/ Kept(b)
           \/ /\ bots[b].gen < bots'[b].gen
              /\ \A k \in DOMAIN keys : keys[k].bot = b => keys'[k].revoked
        /\ \/ bots'[b].gen = bots[b].gen
           \/ \A i \in DOMAIN refresh' : refresh'[i].bot # b

AccountsForward == \A u \in Users : account[u].epoch <= account'[u].epoch

KeysForward ==
    \A k \in DOMAIN keys :
        /\ k \in DOMAIN keys'
        /\ keys'[k].bot = keys[k].bot /\ keys'[k].under = keys[k].under
        /\ keys[k].revoked => keys'[k].revoked
        /\ keys'[k].retired = keys[k].retired \/ keys[k].retired = Never

AgentsForward ==
    \A i \in DOMAIN agents :
        /\ i \in DOMAIN agents'
        /\ agents'[i].bot = agents[i].bot /\ agents'[i].under = agents[i].under
        /\ agents'[i].gen = agents[i].gen /\ agents'[i].issuer = agents[i].issuer
        /\ agents'[i].expires = agents[i].expires
        /\ agents[i].revoked => agents'[i].revoked
        /\ agents'[i].revoked \/ (IssuerStillStewards(i) => IssuerStillStewards(i)')

\* A row that goes went with its family, expired, or was never spent.
RowsLeave ==
    \A i \in DOMAIN refresh \ DOMAIN refresh' :
        \/ bots[refresh[i].bot].gen < bots'[refresh[i].bot].gen
        \/ refresh[i].expires <= now
        \/ \A a \in answers' : a[1] # i

RefreshForward ==
    /\ RowsLeave
    /\ \A i \in DOMAIN refresh' \cap DOMAIN refresh :
          /\ refresh'[i].bot = refresh[i].bot /\ refresh'[i].key = refresh[i].key
          /\ refresh'[i].gen = refresh[i].gen /\ refresh'[i].expires = refresh[i].expires
          /\ refresh[i].used # Never => refresh'[i].used = refresh[i].used

CurrentForward ==
    \A b \in DOMAIN bots :
        \/ bots'[b].status = "revoked" \/ EpochWasStale(b)' \/ HasCurrentKey(b)'
        \/ /\ Kept(b)
           /\ bots'[b].status = bots[b].status
           /\ \A k \in DOMAIN keys : k \in DOMAIN keys' /\ keys'[k] = keys[k]

OnlyForward ==
    /\ now <= now'
    /\ AccountsForward /\ BotsForward /\ KeysForward /\ AgentsForward /\ RefreshForward
    /\ CurrentForward

\* What is new is issued under the epoch and generation of the moment.
NewRows ==
    /\ \A e \in enrolling' \ enrolling : CopiesEpoch(e)' /\ e.status = "active"
    /\ \A b \in DOMAIN bots' \ DOMAIN bots : bots'[b] \in enrolling /\ HasCurrentKey(b)'
    /\ \A k \in DOMAIN keys' \ DOMAIN keys :
          keys'[k].bot \in DOMAIN bots' /\ keys'[k].under = bots'[keys'[k].bot].epoch
    /\ \A i \in DOMAIN refresh' \ DOMAIN refresh :
          /\ i = issued + 1 /\ refresh'[i].used = Never
          /\ refresh'[i].bot \in DOMAIN bots' /\ refresh'[i].key \in DOMAIN keys'
          /\ keys'[refresh'[i].key].bot = refresh'[i].bot
          /\ refresh'[i].gen = bots'[refresh'[i].bot].gen
    /\ \A i \in DOMAIN agents' \ DOMAIN agents :
          /\ agents'[i].bot \in DOMAIN bots'
          /\ agents'[i].gen = bots'[agents'[i].bot].gen
          /\ agents'[i].under = bots'[agents'[i].bot].epoch
          /\ IssuerStillStewards(i)'

Lasting == TypeOK' /\ OnlyForward /\ NewRows

\* A step that only goes forward keeps all but the successors.
LEMMA LastingKeeps ==
    ASSUME BotInv, Lasting
    PROVE  References' /\ Epochs' /\ StampsInv' /\ KeysInv' /\ Generations' /\ UnrevokedIssuersSteward'
<1>1. /\ \A b \in DOMAIN bots : bots[b] \in BotRecords
      /\ \A b \in DOMAIN bots' : bots'[b] \in BotRecords
      /\ \A i \in DOMAIN agents : agents[i] \in AgentRecords
      /\ \A u \in Users : account[u] \in Accounts /\ account'[u] \in Accounts
  BY DEF BotInv, Lasting, TypeOK
<1>2. References'
  <2>1. References
    BY DEF BotInv
  <2>2. \A k \in DOMAIN keys' : keys'[k].bot \in DOMAIN bots'
    BY <2>1 DEF Lasting, OnlyForward, NewRows, KeysForward, BotsForward, References
  <2>3. \A i \in DOMAIN agents' : agents'[i].bot \in DOMAIN bots'
    BY <2>1 DEF Lasting, OnlyForward, NewRows, AgentsForward, BotsForward, References
  <2>4. ASSUME NEW i \in DOMAIN refresh'
        PROVE  /\ refresh'[i].bot \in DOMAIN bots'
               /\ refresh'[i].key \in DOMAIN keys'
               /\ keys'[refresh'[i].key].bot = refresh'[i].bot
    BY <2>1 DEF Lasting, OnlyForward, NewRows, KeysForward, RefreshForward, BotsForward, References
  <2> QED
    BY <2>2, <2>3, <2>4 DEF References
<1>3. Epochs'
  <2>1. ASSUME NEW b \in DOMAIN bots PROVE CopiesEpoch(bots[b])'
    <3>1. /\ bots'[b].owner = bots[b].owner /\ bots'[b].team = bots[b].team
          /\ bots'[b].epoch \in {bots[b].epoch, EpochBehind(b)}
          /\ bots[b].owner = Org => bots[b].team \in Teams
          /\ bots[b].epoch <= EpochOf(bots[b].owner)
      BY DEF BotInv, Lasting, OnlyForward, BotsForward, Epochs, CopiesEpoch
    <3>2. EpochBehind(b) = EpochOf(bots[b].owner) /\ bots'[b].epoch <= EpochOf(bots[b].owner)
      <4>1. EpochBehind(b) = EpochOf(bots[b].owner)
        BY DEF EpochBehind
      <4>2. EpochOf(bots[b].owner) \in Nat
        BY <1>1 DEF EpochOf, BotRecords, Accounts
      <4> QED
        BY <3>1, <4>1, <4>2
    <3> QED
      BY <1>1, <3>1, <3>2 DEF Lasting, OnlyForward, AccountsForward, CopiesEpoch, EpochOf, BotRecords, Accounts
  <2>2. ASSUME NEW e \in enrolling PROVE CopiesEpoch(e)'
    <3>1. CopiesEpoch(e) /\ e \in BotRecords
      BY DEF BotInv, Epochs, TypeOK
    <3> QED
      BY <1>1, <3>1 DEF Lasting, OnlyForward, AccountsForward, CopiesEpoch, EpochOf, BotRecords, Accounts
  <2>3. \A b \in DOMAIN bots' : CopiesEpoch(bots[b])'
    BY <2>1, <2>2 DEF Lasting, NewRows, CopiesEpoch
  <2>4. \A e \in enrolling' : CopiesEpoch(e)' /\ e.status = "active"
    BY <2>2 DEF Lasting, NewRows, BotInv, Epochs
  <2> QED
    BY <2>3, <2>4 DEF Epochs
<1>4. StampsInv'
  <2>1. ASSUME NEW k \in DOMAIN keys', ~keys'[k].revoked
        PROVE  keys'[k].under = bots'[keys'[k].bot].epoch
    BY <2>1 DEF BotInv, References, StampsInv, Lasting, OnlyForward, NewRows, KeysForward, BotsForward, Kept
  <2>2. ASSUME NEW i \in DOMAIN agents'
        PROVE  /\ agents'[i].gen <= bots'[agents'[i].bot].gen
               /\ agents'[i].gen = bots'[agents'[i].bot].gen
                    => agents'[i].under = bots'[agents'[i].bot].epoch
    <3>1. CASE i \in DOMAIN agents
      <4> DEFINE b == agents[i].bot
      <4>1. /\ b \in DOMAIN bots /\ agents'[i].bot = b /\ agents'[i].gen = agents[i].gen
            /\ agents'[i].under = agents[i].under
            /\ agents[i].gen <= bots[b].gen
            /\ agents[i].gen = bots[b].gen => agents[i].under = bots[b].epoch
        BY <3>1 DEF BotInv, References, StampsInv, Lasting, OnlyForward, AgentsForward
      <4>2. /\ bots[b].gen <= bots'[b].gen
            /\ bots'[b].epoch = bots[b].epoch \/ bots[b].gen < bots'[b].gen
        BY <4>1 DEF Lasting, OnlyForward, BotsForward, Kept
      <4>3. bots[b].gen \in Nat /\ bots'[b].gen \in Nat /\ agents[i].gen \in Nat
        BY <1>1, <3>1, <4>1 DEF Lasting, OnlyForward, BotsForward, BotRecords, AgentRecords
      <4> HIDE DEF b
      <4> QED
        BY <4>1, <4>2, <4>3
    <3>2. CASE i \notin DOMAIN agents
      BY <1>1, <3>2 DEF Lasting, NewRows, BotRecords
    <3> QED
      BY <3>1, <3>2
  <2> QED
    BY <2>1, <2>2 DEF StampsInv
<1>5. KeysInv'
  <2>1. ASSUME NEW b \in DOMAIN bots
        PROVE  bots'[b].status = "revoked" \/ EpochWasStale(b)' \/ HasCurrentKey(b)'
    <3>1. bots[b].status = "revoked" \/ EpochWasStale(b) \/ HasCurrentKey(b)
      BY DEF BotInv, KeysInv
    <3>2. bots'[b].owner = bots[b].owner
      BY DEF Lasting, OnlyForward, BotsForward
    <3>3. CASE /\ Kept(b) /\ bots'[b].status = bots[b].status
               /\ \A k \in DOMAIN keys : k \in DOMAIN keys' /\ keys'[k] = keys[k]
      BY <3>1, <3>2, <3>3 DEF Kept, EpochWasStale, Personal, HasCurrentKey
    <3> QED
      BY <3>3 DEF Lasting, OnlyForward, CurrentForward
  <2> QED
    BY <2>1 DEF Lasting, NewRows, KeysInv
<1>6. Generations'
  BY DEF BotInv, References, Generations, Lasting, OnlyForward, NewRows, RefreshForward, BotsForward
<1>7. UnrevokedIssuersSteward'
  BY DEF BotInv, UnrevokedIssuersSteward, Lasting, OnlyForward, NewRows, AgentsForward
<1> QED
  BY <1>2, <1>3, <1>4, <1>5, <1>6, <1>7

\* A refusal lasts: every table only goes forward.
LEMMA LastingRefuses ==
    ASSUME BotInv, Lasting
    PROVE  /\ \A k \in DOMAIN keys : AcceptsKey(k)' => AcceptsKey(k)
           /\ \A i \in 1..issued : AcceptsRefresh(i)' => AcceptsRefresh(i)
           /\ \A i \in DOMAIN agents : AcceptsAgent(i)' => AcceptsAgent(i)
<1>0. /\ \A b \in DOMAIN bots : bots[b] \in BotRecords
      /\ \A b \in DOMAIN bots' : bots'[b] \in BotRecords
      /\ \A k \in DOMAIN keys : keys[k] \in KeyRecords
      /\ \A i \in DOMAIN agents : agents[i] \in AgentRecords
      /\ \A i \in DOMAIN refresh : refresh[i] \in RefreshRecords
      /\ now \in Nat /\ now' \in Nat /\ now <= now' /\ issued \in Nat
  BY DEF BotInv, Lasting, OnlyForward, TypeOK
<1>1. ASSUME NEW k \in DOMAIN keys, KeyIsLive(k)' PROVE KeyIsLive(k)
  <2>1. ~keys[k].revoked /\ (keys'[k].retired = keys[k].retired \/ keys[k].retired = Never)
    BY <1>1 DEF KeyIsLive, Lasting, OnlyForward, KeysForward
  <2>2. CASE keys[k].retired = Never
    BY <2>1, <2>2 DEF KeyIsLive
  <2>3. CASE keys[k].retired # Never
    <3>1. keys[k].retired \in Nat /\ keys[k].retired > now'
      BY <1>0, <1>1, <2>1, <2>3 DEF KeyIsLive, KeyRecords
    <3> QED
      BY <1>0, <2>1, <3>1 DEF KeyIsLive
  <2> QED
    BY <2>2, <2>3
<1>2. ASSUME NEW b \in DOMAIN bots, Kept(b), BotAccountMatches(b)' PROVE BotAccountMatches(b)
  BY <1>2 DEF Lasting, OnlyForward, BotsForward, Kept, BotAccountMatches, Personal, Active
<1>3. ASSUME NEW k \in DOMAIN keys, AcceptsKey(k)' PROVE AcceptsKey(k)
  <2>1. /\ keys'[k].bot = keys[k].bot /\ keys[k].bot \in DOMAIN bots
        /\ bots'[keys[k].bot].owner = bots[keys[k].bot].owner /\ KeyIsLive(k)
        /\ Kept(keys[k].bot)
    BY <1>1, <1>3 DEF BotInv, References, Lasting, OnlyForward, KeysForward, BotsForward, AcceptsKey, KeyIsLive
  <2>2. BotAccountMatches(keys[k].bot)'
    BY <1>3 DEF AcceptsKey
  <2>3. BotAccountMatches(keys[k].bot)
    BY <1>2, <2>1, <2>2
  <2> QED
    BY <1>3, <2>1, <2>3 DEF AcceptsKey, Personal
<1>4. ASSUME NEW i \in 1..issued, AcceptsRefresh(i)' PROVE AcceptsRefresh(i)
  <2>1. i \in DOMAIN refresh /\ i \in DOMAIN refresh'
    BY <1>0, <1>4 DEF AcceptsRefresh, Lasting, NewRows
  <2> DEFINE b == refresh[i].bot
  <2>2. /\ refresh'[i].bot = b /\ refresh'[i].key = refresh[i].key
        /\ refresh'[i].expires = refresh[i].expires /\ refresh[i].used = Never
        /\ b \in DOMAIN bots /\ refresh[i].key \in DOMAIN keys /\ keys[refresh[i].key].bot = b
        /\ bots[b].gen = refresh[i].gen
    BY <1>4, <2>1 DEF AcceptsRefresh, Lasting, OnlyForward, RefreshForward, BotInv, References, Generations
  <2>3. KeyIsLive(refresh[i].key) /\ refresh[i].expires > now
    BY <1>0, <1>1, <1>4, <2>1, <2>2 DEF AcceptsRefresh, RefreshStands, RefreshRecords
  <2>4. bots'[b].gen = bots[b].gen /\ Kept(b)
    <3>1. bots'[b].gen = bots[b].gen
      BY <2>1, <2>2 DEF Lasting, OnlyForward, BotsForward
    <3>2. bots[b].gen \in Nat
      BY <1>0, <2>2 DEF BotRecords
    <3>3. Kept(b) \/ bots[b].gen < bots'[b].gen
      BY <2>2 DEF Lasting, OnlyForward, BotsForward
    <3> QED
      BY <3>1, <3>2, <3>3
  <2>5. BotAccountMatches(b)
    <3>1. BotAccountMatches(refresh[i].bot)'
      BY <1>4 DEF AcceptsRefresh, RefreshStands
    <3>2. PICK c \in DOMAIN bots : c = b
      BY <2>2
    <3>3. BotAccountMatches(c)'
      BY <2>2, <3>1, <3>2 DEF BotAccountMatches, Personal, Active
    <3> QED
      BY <1>2, <2>4, <3>2, <3>3
  <2> QED
    BY <2>1, <2>2, <2>3, <2>5 DEF AcceptsRefresh, RefreshStands
<1>5. ASSUME NEW i \in DOMAIN agents, AcceptsAgent(i)' PROVE AcceptsAgent(i)
  <2>1. PICK b \in DOMAIN bots : b = agents[i].bot
    BY DEF BotInv, References
  <2>2. /\ agents'[i].bot = b /\ agents'[i].gen = agents[i].gen /\ ~agents[i].revoked
        /\ agents[i].expires = agents'[i].expires /\ agents'[i].expires > now'
        /\ agents[i].gen = bots'[b].gen /\ agents[i].gen <= bots[b].gen
    BY <1>5, <2>1 DEF AcceptsAgent, TokenIsLive, Lasting, OnlyForward, AgentsForward, BotInv, StampsInv
  <2>3. bots[b].gen = bots'[b].gen /\ Kept(b)
    <3>1. bots[b].gen \in Nat /\ bots'[b].gen \in Nat /\ agents[i].gen \in Nat
      BY <1>0 DEF Lasting, OnlyForward, BotsForward, BotRecords, AgentRecords
    <3>2. bots[b].gen <= bots'[b].gen /\ (Kept(b) \/ bots[b].gen < bots'[b].gen)
      BY DEF Lasting, OnlyForward, BotsForward
    <3> QED
      BY <2>2, <3>1, <3>2
  <2>4. BotAccountMatches(b)'
    BY <1>5, <2>2 DEF AcceptsAgent, BotAccountMatches, Personal, Active
  <2>5. BotAccountMatches(b)
    BY <1>2, <2>3, <2>4
  <2>6. TokenIsLive(i) /\ IssuerStillStewards(i)
    <3>1. agents[i].expires \in Nat
      BY <1>0 DEF AgentRecords
    <3> QED
      BY <1>0, <2>1, <2>2, <2>3, <3>1 DEF TokenIsLive, BotInv, UnrevokedIssuersSteward
  <2>7. LiveKeys(b) # {}
    <3>1. PICK k \in DOMAIN keys' : keys'[k].bot = b /\ KeyIsLive(k)'
      BY <1>5, <2>2 DEF AcceptsAgent, LiveKeys
    <3>2. CASE k \in DOMAIN keys
      BY <1>1, <3>1, <3>2 DEF LiveKeys, Lasting, OnlyForward, KeysForward
    <3>3. CASE k \notin DOMAIN keys
      <4>1. bots[b].status = "active" /\ ~EpochWasStale(b)
        BY <2>5 DEF BotAccountMatches, EpochWasStale
      <4>2. HasCurrentKey(b)
        BY <4>1 DEF BotInv, KeysInv
      <4> QED
        BY <4>2 DEF HasCurrentKey, LiveKeys, KeyIsLive
    <3> QED
      BY <3>2, <3>3
  <2> QED
    BY <2>1, <2>5, <2>6, <2>7 DEF AcceptsAgent
<1> QED
  BY <1>3, <1>4, <1>5

-----------------------------------------------------------------------------
(* Every action only goes forward *)

LEMMA StillForward ==
    ASSUME TypeOK
    PROVE  /\ account' = account => AccountsForward
           /\ bots' = bots /\ account' = account => BotsForward
           /\ keys' = keys => KeysForward
           /\ UNCHANGED <<account, members, bots, agents>> => AgentsForward
           /\ refresh' = refresh => RefreshForward
           /\ UNCHANGED <<account, bots, keys>> => CurrentForward
<1>1. /\ \A b \in DOMAIN bots : bots[b] \in BotRecords
      /\ \A u \in Users : account[u] \in Accounts
  BY RowsAreTyped
<1>2. account' = account => AccountsForward
  BY <1>1 DEF AccountsForward, Accounts
<1>3. bots' = bots /\ account' = account => BotsForward
  BY <1>1 DEF BotsForward, Kept, BotRecords
<1>4. keys' = keys => KeysForward
  BY DEF KeysForward
<1>5. UNCHANGED <<account, members, bots, agents>> => AgentsForward
  BY DEF AgentsForward, IssuerStillStewards, IsSteward, Personal, Active
<1>6. refresh' = refresh => RefreshForward
  BY DEF RefreshForward, RowsLeave
<1>7. UNCHANGED <<account, bots, keys>> => CurrentForward
  BY DEF CurrentForward, Kept
<1> QED
  BY <1>2, <1>3, <1>4, <1>5, <1>6, <1>7

\* Stewards of the bots an agent token is for stay, unless the token goes.
LEMMA StewardsStay ==
    ASSUME BotInv, BotsForward,
           \A i \in DOMAIN agents :
              /\ i \in DOMAIN agents'
              /\ agents'[i].bot = agents[i].bot /\ agents'[i].under = agents[i].under
              /\ agents'[i].gen = agents[i].gen /\ agents'[i].issuer = agents[i].issuer
              /\ agents'[i].expires = agents[i].expires
              /\ agents[i].revoked => agents'[i].revoked
              /\ \/ agents'[i].revoked \/ Personal(agents[i].bot)
                 \/ /\ Active(agents[i].issuer) => Active(agents[i].issuer)'
                    /\ agents[i].issuer \in members[bots[agents[i].bot].team]
                          => agents[i].issuer \in members'[bots[agents[i].bot].team]
    PROVE  AgentsForward
<1> SUFFICES ASSUME NEW i \in DOMAIN agents, ~agents'[i].revoked, IssuerStillStewards(i)
             PROVE  IssuerStillStewards(i)'
  BY DEF AgentsForward
<1>1. /\ agents[i].bot \in DOMAIN bots /\ agents'[i].bot = agents[i].bot
      /\ agents'[i].issuer = agents[i].issuer
      /\ bots'[agents[i].bot].owner = bots[agents[i].bot].owner
      /\ bots'[agents[i].bot].team = bots[agents[i].bot].team
  BY DEF BotInv, References, BotsForward
<1>2. CASE Personal(agents[i].bot)
  BY <1>1, <1>2 DEF IssuerStillStewards, Personal
<1>3. CASE ~Personal(agents[i].bot)
  <2>1. Active(agents[i].issuer) /\ agents[i].issuer \in Admins \cup members[bots[agents[i].bot].team]
    BY <1>3 DEF IssuerStillStewards, IsSteward
  <2>2. account'[agents[i].issuer].status = "active"
    BY <1>3, <2>1 DEF Active
  <2>3. agents[i].issuer \in Admins \cup members'[bots[agents[i].bot].team]
    BY <1>3, <2>1
  <2> QED
    BY <1>1, <1>3, <2>2, <2>3 DEF IssuerStillStewards, IsSteward, Personal, Active
<1> QED
  BY <1>2, <1>3

\* Nothing new.
LEMMA NothingNew ==
    ASSUME enrolling' \subseteq enrolling, DOMAIN bots' = DOMAIN bots, DOMAIN keys' = DOMAIN keys,
           DOMAIN refresh' \subseteq DOMAIN refresh, DOMAIN agents' = DOMAIN agents
    PROVE  NewRows
  BY DEF NewRows

\* The account behind a bot moves: its bots are cut off.
LEMMA InvalidationForward ==
    ASSUME BotInv, NEW u \in Users, NEW status \in Statuses,
           account' = [account EXCEPT ![u] = [status |-> status, epoch |-> account[u].epoch + 1]],
           InvalidateAccountBots(u), UNCHANGED <<now, members, enrolling, issued, operations, answers>>,
           agents' \in Seq(AgentRecords) /\ DOMAIN agents' = DOMAIN agents,
           \A i \in DOMAIN agents :
              /\ agents'[i].bot = agents[i].bot /\ agents'[i].under = agents[i].under
              /\ agents'[i].gen = agents[i].gen /\ agents'[i].issuer = agents[i].issuer
              /\ agents'[i].expires = agents[i].expires
              /\ agents[i].revoked => agents'[i].revoked
              /\ \/ agents'[i].revoked \/ Personal(agents[i].bot) \/ agents[i].issuer # u
                 \/ account[u].status = "active" => status = "active"
    PROVE  Lasting
<1>0. TypeOK
  BY DEF BotInv
<1>1. /\ \A b \in DOMAIN bots : bots[b] \in BotRecords
      /\ \A v \in Users : account[v] \in Accounts
      /\ \A i \in DOMAIN agents : agents[i] \in AgentRecords
  BY <1>0, RowsAreTyped
<1>2. /\ account' \in [Users -> Accounts] /\ account'[u].epoch = account[u].epoch + 1
      /\ account'[u].status = status
      /\ \A v \in Users \ {u} : account'[v] = account[v]
  BY <1>0, <1>1 DEF TypeOK, Accounts
<1>3. /\ bots' \in Seq(BotRecords) /\ DOMAIN bots' = DOMAIN bots
      /\ \A b \in DOMAIN bots :
            /\ bots'[b].owner = bots[b].owner /\ bots'[b].team = bots[b].team
            /\ bots'[b].status = bots[b].status /\ bots'[b].epoch = bots[b].epoch
            /\ bots'[b].gen = IF b \in OwnBots(u) THEN bots[b].gen + 1 ELSE bots[b].gen
  BY <1>0, BumpedBots DEF InvalidateAccountBots
<1>4. /\ keys' \in Seq(KeyRecords) /\ DOMAIN keys' = DOMAIN keys
      /\ \A k \in DOMAIN keys :
            /\ keys'[k].bot = keys[k].bot /\ keys'[k].under = keys[k].under
            /\ keys'[k].retired = keys[k].retired
            /\ keys'[k].revoked <=> (keys[k].revoked \/ keys[k].bot \in OwnBots(u))
  BY <1>0, RevokedKeys DEF InvalidateAccountBots
<1>5. /\ DOMAIN refresh' \subseteq DOMAIN refresh
      /\ refresh' \in [DOMAIN refresh' -> RefreshRecords]
      /\ \A i \in DOMAIN refresh' : refresh'[i] = refresh[i] /\ refresh[i].bot \notin OwnBots(u)
      /\ \A i \in DOMAIN refresh \ DOMAIN refresh' : refresh[i].bot \in OwnBots(u)
  BY <1>0, DroppedRows DEF InvalidateAccountBots
<1>6. TypeOK'
  BY <1>0, <1>2, <1>3, <1>4, <1>5 DEF TypeOK
<1>7. AccountsForward
  BY <1>1, <1>2 DEF AccountsForward, Accounts
<1>8. BotsForward
  <2>1. ASSUME NEW b \in DOMAIN bots, b \notin OwnBots(u) PROVE Kept(b)
    <3>1. bots[b].owner # u /\ (Personal(b) => bots[b].owner \in Users)
      BY <1>1, <2>1 DEF OwnBots, Personal, BotRecords
    <3> QED
      BY <1>2, <1>3, <3>1 DEF Kept
  <2>2. ASSUME NEW b \in DOMAIN bots
        PROVE  /\ bots[b].gen <= bots'[b].gen
               /\ b \in OwnBots(u) => bots[b].gen < bots'[b].gen
               /\ b \notin OwnBots(u) => bots'[b].gen = bots[b].gen
    BY <1>1, <1>3 DEF BotRecords
  <2>3. ASSUME NEW b \in DOMAIN bots, b \in OwnBots(u)
        PROVE  /\ \A k \in DOMAIN keys : keys[k].bot = b => keys'[k].revoked
               /\ \A i \in DOMAIN refresh' : refresh'[i].bot # b
    BY <1>4, <1>5, <2>3
  <2>4. \A b \in DOMAIN bots : \/ Kept(b)
                               \/ /\ bots[b].gen < bots'[b].gen
                                  /\ \A k \in DOMAIN keys : keys[k].bot = b => keys'[k].revoked
    BY <2>1, <2>2, <2>3
  <2>5. \A b \in DOMAIN bots : \/ bots'[b].gen = bots[b].gen
                               \/ \A i \in DOMAIN refresh' : refresh'[i].bot # b
    BY <2>2, <2>3
  <2> QED
    BY <1>3, <2>2, <2>4, <2>5 DEF BotsForward
<1>9. KeysForward
  BY <1>4 DEF KeysForward
<1>10. AgentsForward
  <2>1. \A i \in DOMAIN agents : \/ agents'[i].revoked \/ Personal(agents[i].bot)
                                 \/ Active(agents[i].issuer) => Active(agents[i].issuer)'
    BY <1>1, <1>2 DEF Active, AgentRecords
  <2> QED
    BY <1>8, <2>1, StewardsStay
<1>11. RefreshForward
  <2>1. \A b \in OwnBots(u) : bots[b].gen < bots'[b].gen
    BY <1>1, <1>3 DEF OwnBots, BotRecords
  <2> QED
    BY <1>5, <2>1 DEF RefreshForward, RowsLeave
<1>12. CurrentForward
  <2>1. ASSUME NEW b \in DOMAIN bots PROVE EpochWasStale(b)' \/ HasCurrentKey(b)' \/ bots'[b].status = "revoked"
    <3>1. CASE b \in OwnBots(u)
      <4>1. bots[b].owner = u /\ u # Org
        BY <3>1, ParametersAreDeclared DEF OwnBots
      <4>2. bots[b].epoch <= account[u].epoch /\ bots[b].epoch \in Nat /\ account[u].epoch \in Nat
        BY <1>1, <4>1 DEF BotInv, Epochs, CopiesEpoch, EpochOf, BotRecords, Accounts
      <4>3. bots'[b].epoch # account'[u].epoch
        BY <1>2, <1>3, <4>2
      <4> QED
        BY <1>3, <4>1, <4>3 DEF EpochWasStale, Personal
    <3>2. CASE b \notin OwnBots(u)
      <4>1. bots[b].owner # u /\ (Personal(b) => bots[b].owner \in Users)
        BY <1>1, <3>2 DEF OwnBots, Personal, BotRecords
      <4>2. EpochWasStale(b)' = EpochWasStale(b)
        BY <1>2, <1>3, <4>1 DEF EpochWasStale, Personal
      <4>3. HasCurrentKey(b) => HasCurrentKey(b)'
        BY <1>4, <3>2 DEF HasCurrentKey
      <4> QED
        BY <1>3, <4>2, <4>3 DEF BotInv, KeysInv
    <3> QED
      BY <3>1, <3>2
  <2> QED
    BY <2>1 DEF CurrentForward
<1>13. NewRows
  BY <1>3, <1>4, <1>5, NothingNew
<1> QED
  BY <1>0, <1>6, <1>7, <1>8, <1>9, <1>10, <1>11, <1>12, <1>13 DEF Lasting, OnlyForward, TypeOK

LEMMA PasswordPathForward ==
    ASSUME BotInv, NEW u \in Users, PasswordPath(u)
    PROVE  Lasting
<1>1. /\ account[u] \in Accounts /\ agents \in Seq(AgentRecords)
      /\ account' = [account EXCEPT ![u].epoch = @ + 1]
  BY DEF BotInv, TypeOK, PasswordPath
<1>2. /\ account[u].status \in Statuses
      /\ account' = [account EXCEPT ![u] = [status |-> account[u].status, epoch |-> account[u].epoch + 1]]
  <2>1. [account[u] EXCEPT !.epoch = @ + 1] = [status |-> account[u].status, epoch |-> account[u].epoch + 1]
    BY <1>1 DEF Accounts
  <2> QED
    BY <1>1, <2>1 DEF Accounts
<1> QED
  BY <1>1, <1>2, InvalidationForward DEF PasswordPath

LEMMA TransitionForward ==
    ASSUME BotInv, NEW u \in Users, NEW status \in Statuses, TransitionAccountStatus(u, status)
    PROVE  Lasting
<1>0. TypeOK /\ account' = [account EXCEPT ![u] = [status |-> status, epoch |-> account[u].epoch + 1]]
  BY DEF BotInv, TransitionAccountStatus
<1>1. CASE status = "active"
  <2>1. agents' = agents /\ agents \in Seq(AgentRecords)
    BY <1>0, <1>1 DEF TransitionAccountStatus, TypeOK
  <2> QED
    BY <1>0, <1>1, <2>1, InvalidationForward DEF TransitionAccountStatus
<1>2. CASE status # "active"
  <2>1. agents' = RevokeAgents(IssuedBy(u))
    BY <1>2 DEF TransitionAccountStatus
  <2>2. /\ agents' \in Seq(AgentRecords) /\ DOMAIN agents' = DOMAIN agents
        /\ \A i \in DOMAIN agents :
              /\ agents'[i].bot = agents[i].bot /\ agents'[i].under = agents[i].under
              /\ agents'[i].gen = agents[i].gen /\ agents'[i].issuer = agents[i].issuer
              /\ agents'[i].expires = agents[i].expires
              /\ agents'[i].revoked <=> (agents[i].revoked \/ i \in IssuedBy(u))
    BY <1>0, <2>1, RevokedAgents
  <2>3. \A i \in DOMAIN agents :
            agents'[i].revoked \/ Personal(agents[i].bot) \/ agents[i].issuer # u
    BY <2>2 DEF IssuedBy
  <2> QED
    BY <1>0, <2>2, <2>3, InvalidationForward DEF TransitionAccountStatus
<1> QED
  BY <1>1, <1>2

LEMMA AddTeamMemberForward ==
    ASSUME BotInv, NEW actor \in Users, NEW t \in Teams, NEW u \in Users, AddTeamMember(actor, t, u)
    PROVE  Lasting
<1>0. TypeOK
  BY DEF BotInv
<1>1. members' \in [Teams -> SUBSET Users] /\ \A s \in Teams : members[s] \subseteq members'[s]
  BY <1>0 DEF AddTeamMember, TypeOK
<1>2. UNCHANGED <<now, account, bots, enrolling, keys, refresh, issued, operations, agents, answers>>
  BY DEF AddTeamMember
<1>3. TypeOK'
  BY <1>0, <1>1, <1>2 DEF TypeOK
<1>4. AccountsForward /\ BotsForward /\ KeysForward /\ RefreshForward /\ CurrentForward
  BY <1>0, <1>2, StillForward
<1>5. AgentsForward
  <2>1. \A i \in DOMAIN agents : /\ Active(agents[i].issuer) => Active(agents[i].issuer)'
                                 /\ ~Personal(agents[i].bot) => bots[agents[i].bot].team \in Teams
    BY <1>2 DEF Active, BotInv, References, Epochs, CopiesEpoch, Personal
  <2>2. \A i \in DOMAIN agents :
            Personal(agents[i].bot) \/ members[bots[agents[i].bot].team] \subseteq members'[bots[agents[i].bot].team]
    BY <1>1, <2>1
  <2> QED
    BY <1>2, <1>4, <2>1, <2>2, StewardsStay
<1>6. NewRows
  BY <1>2, NothingNew
<1> QED
  BY <1>0, <1>2, <1>3, <1>4, <1>5, <1>6 DEF Lasting, OnlyForward, TypeOK

LEMMA RemoveTeamMemberForward ==
    ASSUME BotInv, NEW actor \in Users, NEW t \in Teams, NEW u \in Users, RemoveTeamMember(actor, t, u)
    PROVE  Lasting
<1>0. TypeOK
  BY DEF BotInv
<1>1. /\ members' \in [Teams -> SUBSET Users]
      /\ \A s \in Teams, v \in Users : v \in members[s] => v \in members'[s] \/ (s = t /\ v = u)
  BY <1>0 DEF RemoveTeamMember, TypeOK
<1>2. UNCHANGED <<now, account, bots, enrolling, keys, refresh, issued, operations, answers>>
  BY DEF RemoveTeamMember
<1>3. /\ agents' \in Seq(AgentRecords) /\ DOMAIN agents' = DOMAIN agents
      /\ \A i \in DOMAIN agents :
            /\ agents'[i].bot = agents[i].bot /\ agents'[i].under = agents[i].under
            /\ agents'[i].gen = agents[i].gen /\ agents'[i].issuer = agents[i].issuer
            /\ agents'[i].expires = agents[i].expires
            /\ agents'[i].revoked <=> (agents[i].revoked \/ i \in StewardTokens(t, u))
  BY <1>0, RevokedAgents DEF RemoveTeamMember
<1>4. TypeOK'
  BY <1>0, <1>1, <1>2, <1>3 DEF TypeOK
<1>5. AccountsForward /\ BotsForward /\ KeysForward /\ RefreshForward /\ CurrentForward
  BY <1>0, <1>2, StillForward
<1>6. AgentsForward
  <2>1. ASSUME NEW i \in DOMAIN agents
        PROVE  \/ agents'[i].revoked \/ Personal(agents[i].bot)
               \/ /\ Active(agents[i].issuer) => Active(agents[i].issuer)'
                  /\ agents[i].issuer \in members[bots[agents[i].bot].team]
                        => agents[i].issuer \in members'[bots[agents[i].bot].team]
    <3>1. Active(agents[i].issuer) => Active(agents[i].issuer)'
      BY <1>2, <1>3 DEF Active
    <3>2. Personal(agents[i].bot) \/ bots[agents[i].bot].team \in Teams
      BY DEF BotInv, References, Epochs, CopiesEpoch, Personal
    <3>3. agents[i].issuer \in Users
      BY <1>0, RowsAreTyped DEF AgentRecords
    <3>4. CASE bots[agents[i].bot].team = t /\ agents[i].issuer = u
      BY <1>3, <3>4 DEF StewardTokens, IssuedBy
    <3>5. CASE ~(bots[agents[i].bot].team = t /\ agents[i].issuer = u)
      BY <1>1, <3>1, <3>2, <3>3, <3>5
    <3> QED
      BY <3>4, <3>5
  <2> QED
    BY <1>3, <1>5, <2>1, StewardsStay
<1>7. NewRows
  BY <1>2, <1>3, NothingNew
<1> QED
  BY <1>0, <1>2, <1>4, <1>5, <1>6, <1>7 DEF Lasting, OnlyForward, TypeOK

\* Agent tokens that are revoked, and nothing else.
LEMMA RevokingForward ==
    ASSUME BotInv, NEW is, agents' = RevokeAgents(is),
           UNCHANGED <<now, account, members, bots, enrolling, keys, refresh, issued, operations, answers>>
    PROVE  Lasting
<1>0. TypeOK
  BY DEF BotInv
<1>1. /\ agents' \in Seq(AgentRecords) /\ DOMAIN agents' = DOMAIN agents
      /\ \A i \in DOMAIN agents :
            /\ agents'[i].bot = agents[i].bot /\ agents'[i].under = agents[i].under
            /\ agents'[i].gen = agents[i].gen /\ agents'[i].issuer = agents[i].issuer
            /\ agents'[i].expires = agents[i].expires
            /\ agents'[i].revoked <=> (agents[i].revoked \/ i \in is)
  BY <1>0, RevokedAgents
<1>2. TypeOK'
  BY <1>0, <1>1 DEF TypeOK
<1>3. AccountsForward /\ BotsForward /\ KeysForward /\ RefreshForward /\ CurrentForward
  BY <1>0, StillForward
<1>4. AgentsForward
  BY <1>1, <1>3, StewardsStay DEF Active
<1>5. NewRows
  BY <1>1, NothingNew
<1> QED
  BY <1>0, <1>2, <1>3, <1>4, <1>5 DEF Lasting, OnlyForward, TypeOK

\* A clock tick, or a step of enrollments, operations and answers.
LEMMA ClockForward ==
    ASSUME BotInv, TypeOK', now <= now', UNCHANGED <<account, members, bots, keys, refresh, agents>>,
           \A e \in enrolling' \ enrolling : CopiesEpoch(e)' /\ e.status = "active"
    PROVE  Lasting
<1>0. TypeOK
  BY DEF BotInv
<1>1. /\ AccountsForward /\ BotsForward /\ KeysForward /\ RefreshForward /\ CurrentForward
      /\ AgentsForward
  BY <1>0, StillForward
<1>2. NewRows
  BY DEF NewRows
<1> QED
  BY <1>1, <1>2 DEF Lasting, OnlyForward

LEMMA BeginEnrollForward ==
    ASSUME BotInv, NEW actor \in Users, NEW owner \in Users \cup {Org}, NEW team \in Teams \cup {NoTeam},
           NEW slug \in Slugs, BeginEnroll(actor, owner, team, slug)
    PROVE  Lasting
<1>0. TypeOK
  BY DEF BotInv
<1>1. EpochOf(owner) \in Nat
  BY <1>0, RowsAreTyped DEF EpochOf, Accounts
<1>2. PICK e \in BotRecords :
        /\ enrolling' = enrolling \cup {e}
        /\ e.owner = owner /\ e.team = team /\ e.status = "active" /\ e.epoch = EpochOf(owner)
  <2> DEFINE d == [owner |-> owner, team |-> team, slug |-> slug, status |-> "active",
                   epoch |-> EpochOf(owner), gen |-> 1]
  <2>1. d \in BotRecords
    BY <1>1 DEF BotRecords
  <2>2. enrolling' = enrolling \cup {d}
    BY DEF BeginEnroll
  <2> QED
    BY <2>1, <2>2
<1>3. TypeOK'
  BY <1>0, <1>2 DEF BeginEnroll, TypeOK
<1>4. CopiesEpoch(e)'
  <2>1. owner = Org => team \in Teams
    BY ParametersAreDeclared DEF BeginEnroll
  <2>2. EpochOf(owner)' = EpochOf(owner) /\ EpochOf(owner) <= EpochOf(owner)
    BY <1>1 DEF BeginEnroll, EpochOf
  <2> QED
    BY <1>2, <2>1, <2>2 DEF CopiesEpoch
<1>5. now <= now'
  BY <1>0 DEF BeginEnroll, TypeOK
<1> QED
  BY <1>2, <1>3, <1>4, <1>5, ClockForward DEF BeginEnroll

LEMMA StoreEnrolledBotForward ==
    ASSUME BotInv, NEW e \in enrolling, StoreEnrolledBot(e)
    PROVE  Lasting
<1> DEFINE n == Len(bots) + 1
           k == Len(keys) + 1
           new == NewKey(n, e.epoch)
<1>0. TypeOK /\ e \in BotRecords /\ n \in Nat /\ k \in Nat
  BY DEF BotInv, TypeOK
<1>1. /\ new \in KeyRecords /\ new.bot = n /\ new.under = e.epoch /\ new.revoked = FALSE
      /\ new.retired = Never
  BY <1>0 DEF NewKey, KeyRecords, BotRecords
<1>2. /\ bots' \in Seq(BotRecords) /\ DOMAIN bots' = DOMAIN bots \cup {n} /\ n \notin DOMAIN bots
      /\ \A b \in DOMAIN bots : bots'[b] = bots[b]
      /\ bots'[n] = e
  <2>1. bots \in Seq(BotRecords) /\ bots' = Append(bots, e)
    BY <1>0 DEF StoreEnrolledBot, TypeOK
  <2> QED
    BY <1>0, <2>1, AppendedSeq
<1>3. /\ keys' \in Seq(KeyRecords) /\ DOMAIN keys' = DOMAIN keys \cup {k} /\ k \notin DOMAIN keys
      /\ \A j \in DOMAIN keys : keys'[j] = keys[j]
      /\ keys'[k] = new
  <2>1. keys \in Seq(KeyRecords) /\ keys' = Append(keys, new)
    BY <1>0 DEF StoreEnrolledBot, TypeOK
  <2> QED
    BY <1>1, <2>1, AppendedSeq
<1>4. /\ UNCHANGED <<now, account, members, refresh, issued, operations, agents, answers>>
      /\ enrolling' \subseteq enrolling
  BY DEF StoreEnrolledBot
<1>5. PICK nn, kk : nn = n /\ kk = k
  OBVIOUS
<1>6. /\ DOMAIN bots' = DOMAIN bots \cup {nn} /\ bots'[nn] = e
      /\ DOMAIN keys' = DOMAIN keys \cup {kk} /\ keys'[kk].bot = nn /\ keys'[kk].under = e.epoch
      /\ ~keys'[kk].revoked /\ keys'[kk].retired = Never
  BY <1>1, <1>2, <1>3, <1>5
<1> HIDE DEF n, k, new
<1>7. TypeOK'
  BY <1>0, <1>2, <1>3, <1>4 DEF TypeOK
<1>8. AccountsForward /\ RefreshForward
  BY <1>0, <1>4, StillForward
<1>9. BotsForward
  <2>1. \A b \in DOMAIN bots : bots[b].gen \in Nat
    BY <1>0, RowsAreTyped DEF BotRecords
  <2>2. \A b \in DOMAIN bots : Kept(b)
    BY <1>2, <1>4 DEF Kept
  <2> QED
    BY <1>2, <2>1, <2>2 DEF BotsForward
<1>10. KeysForward
  BY <1>3 DEF KeysForward
<1>11. AgentsForward
  BY <1>4, <1>9, StewardsStay DEF Active
<1>12. CurrentForward
  BY <1>2, <1>3, <1>4 DEF CurrentForward, Kept
<1>13. NewRows
  <2>1. HasCurrentKey(nn)'
    BY <1>6 DEF HasCurrentKey
  <2> QED
    BY <1>4, <1>6, <2>1 DEF NewRows
<1> QED
  BY <1>0, <1>4, <1>7, <1>8, <1>9, <1>10, <1>11, <1>12, <1>13 DEF Lasting, OnlyForward, TypeOK

\* What a rotation leaves of the keys there were.
LEMMA RetiredKeys ==
    ASSUME TypeOK, NEW b \in DOMAIN bots, NEW old, old = OldKeys(b)
    PROVE  /\ old \in Seq(KeyRecords) /\ DOMAIN old = DOMAIN keys
           /\ \A k \in DOMAIN keys :
                 /\ old[k].bot = keys[k].bot /\ old[k].under = keys[k].under
                 /\ keys[k].revoked => old[k].revoked
                 /\ old[k].retired = keys[k].retired \/ keys[k].retired = Never
                 /\ keys[k].bot = b /\ EpochWasStale(b) => old[k].revoked
                 /\ keys[k].bot # b => old[k] = keys[k]
<1>1. \A k \in DOMAIN keys : keys[k] \in KeyRecords
  BY RowsAreTyped
<1>2. /\ old = [k \in DOMAIN keys |-> old[k]]
      /\ \A k \in DOMAIN keys :
            old[k] = IF keys[k].bot # b \/ keys[k].revoked THEN keys[k]
                     ELSE IF EpochWasStale(b) THEN [keys[k] EXCEPT !.revoked = TRUE]
                     ELSE IF keys[k].retired = Never THEN [keys[k] EXCEPT !.retired = now + RotationGrace]
                     ELSE keys[k]
  BY DEF OldKeys
<1>3. now + RotationGrace \in Nat
  BY ParametersAreDeclared DEF TypeOK
<1>4. ASSUME NEW k \in DOMAIN keys
      PROVE  /\ old[k] \in KeyRecords
             /\ old[k].bot = keys[k].bot /\ old[k].under = keys[k].under
             /\ keys[k].revoked => old[k].revoked
             /\ old[k].retired = keys[k].retired \/ keys[k].retired = Never
             /\ keys[k].bot = b /\ EpochWasStale(b) => old[k].revoked
             /\ keys[k].bot # b => old[k] = keys[k]
  <2>1. CASE keys[k].bot # b \/ keys[k].revoked
    BY <1>1, <1>2, <2>1
  <2>2. CASE keys[k].bot = b /\ ~keys[k].revoked /\ EpochWasStale(b)
    <3>1. old[k] = [keys[k] EXCEPT !.revoked = TRUE]
      BY <1>2, <2>2
    <3> QED
      BY <1>1, <2>2, <3>1 DEF KeyRecords
  <2>3. CASE keys[k].bot = b /\ ~keys[k].revoked /\ ~EpochWasStale(b) /\ keys[k].retired = Never
    <3>1. old[k] = [keys[k] EXCEPT !.retired = now + RotationGrace]
      BY <1>2, <2>3
    <3> QED
      BY <1>1, <1>3, <2>3, <3>1 DEF KeyRecords
  <2>4. CASE keys[k].bot = b /\ ~keys[k].revoked /\ ~EpochWasStale(b) /\ keys[k].retired # Never
    BY <1>1, <1>2, <2>4
  <2> QED
    BY <2>1, <2>2, <2>3, <2>4
<1>5. old \in Seq(KeyRecords) /\ DOMAIN old = DOMAIN keys
  <2>1. keys \in Seq(KeyRecords)
    BY DEF TypeOK
  <2> QED
    BY <1>2, <1>4, <2>1, MappedSeq
<1> QED
  BY <1>4, <1>5

LEMMA RotateBotKeyForward ==
    ASSUME BotInv, NEW actor \in Users, NEW b \in DOMAIN bots, RotateBotKey(actor, b)
    PROVE  Lasting
<1>0. TypeOK /\ bots \in Seq(BotRecords) /\ bots[b] \in BotRecords /\ b \in Nat
  BY DEF BotInv, TypeOK
<1>1. EpochBehind(b) \in Nat
  BY <1>0, RowsAreTyped DEF EpochBehind, EpochOf, BotRecords, Accounts
<1>2. ~EpochWasStale(b) => bots[b].epoch = EpochBehind(b)
  <2>1. CASE Personal(b)
    BY <2>1 DEF EpochWasStale, EpochBehind, EpochOf, Personal
  <2>2. CASE ~Personal(b)
    <3>1. bots[b].epoch <= 0 /\ EpochBehind(b) = 0
      BY <2>2 DEF Personal, BotInv, Epochs, CopiesEpoch, EpochBehind, EpochOf
    <3> QED
      BY <1>0, <3>1 DEF BotRecords
  <2> QED
    BY <2>1, <2>2
<1>3. PICK new \in BotRecords :
        /\ bots' = [bots EXCEPT ![b] = new]
        /\ new.owner = bots[b].owner /\ new.team = bots[b].team /\ new.status = bots[b].status
        /\ new.epoch = EpochBehind(b)
        /\ new.gen = IF EpochWasStale(b) THEN bots[b].gen + 1 ELSE bots[b].gen
  <2> DEFINE g == IF EpochWasStale(b) THEN bots[b].gen + 1 ELSE bots[b].gen
             d == [bots[b] EXCEPT !.epoch = EpochBehind(b), !.gen = g]
  <2>0. g \in Nat
    BY <1>0 DEF BotRecords
  <2>1. bots' = [bots EXCEPT ![b] = d]
    BY DEF RotateBotKey
  <2> HIDE DEF g
  <2>2. /\ d \in BotRecords /\ d.owner = bots[b].owner /\ d.team = bots[b].team
        /\ d.status = bots[b].status /\ d.epoch = EpochBehind(b)
        /\ d.gen = g
    BY <1>0, <1>1, <2>0 DEF BotRecords
  <2> QED
    BY <2>1, <2>2 DEF g
<1>4. /\ bots' \in Seq(BotRecords) /\ DOMAIN bots' = DOMAIN bots /\ bots'[b] = new
      /\ \A c \in DOMAIN bots \ {b} : bots'[c] = bots[c]
  BY <1>0, <1>3
<1>5. PICK old : old = OldKeys(b)
  OBVIOUS
<1>6. /\ old \in Seq(KeyRecords) /\ DOMAIN old = DOMAIN keys
      /\ \A k \in DOMAIN keys :
            /\ old[k].bot = keys[k].bot /\ old[k].under = keys[k].under
            /\ keys[k].revoked => old[k].revoked
            /\ old[k].retired = keys[k].retired \/ keys[k].retired = Never
            /\ keys[k].bot = b /\ EpochWasStale(b) => old[k].revoked
            /\ keys[k].bot # b => old[k] = keys[k]
  BY <1>0, <1>5, RetiredKeys
<1>7. PICK n : /\ keys' \in Seq(KeyRecords) /\ DOMAIN keys' = DOMAIN keys \cup {n} /\ n \notin DOMAIN keys
               /\ \A k \in DOMAIN keys : keys'[k] = old[k]
               /\ keys'[n].bot = b /\ keys'[n].under = EpochBehind(b)
               /\ ~keys'[n].revoked /\ keys'[n].retired = Never
  <2> DEFINE d == NewKey(b, EpochBehind(b))
  <2>1. /\ d \in KeyRecords /\ d.bot = b /\ d.under = EpochBehind(b) /\ d.revoked = FALSE
        /\ d.retired = Never
    BY <1>0, <1>1 DEF NewKey, KeyRecords
  <2>2. keys' = Append(old, d)
    BY <1>5 DEF RotateBotKey
  <2> HIDE DEF d
  <2> QED
    BY <1>6, <2>1, <2>2, AppendedSeq
<1>8. /\ DOMAIN refresh' \subseteq DOMAIN refresh
      /\ refresh' \in [DOMAIN refresh' -> RefreshRecords]
      /\ \A i \in DOMAIN refresh' : refresh'[i] = refresh[i] /\ (EpochWasStale(b) => refresh[i].bot # b)
      /\ \A i \in DOMAIN refresh \ DOMAIN refresh' : EpochWasStale(b) /\ refresh[i].bot = b
  <2>1. CASE EpochWasStale(b)
    <3>1. refresh' = DropRefresh({b})
      BY <2>1 DEF RotateBotKey
    <3> QED
      <4>1. /\ DOMAIN refresh' \subseteq DOMAIN refresh
            /\ refresh' \in [DOMAIN refresh' -> RefreshRecords]
            /\ \A i \in DOMAIN refresh' : refresh'[i] = refresh[i] /\ refresh[i].bot \notin {b}
            /\ \A i \in DOMAIN refresh \ DOMAIN refresh' : refresh[i].bot \in {b}
        BY <1>0, <3>1, DroppedRows
      <4> QED
        BY <2>1, <4>1
  <2>2. CASE ~EpochWasStale(b)
    BY <1>0, <2>2 DEF RotateBotKey, TypeOK
  <2> QED
    BY <2>1, <2>2
<1>9. UNCHANGED <<now, account, members, enrolling, issued, operations, agents, answers>>
  BY DEF RotateBotKey
<1>10. TypeOK'
  BY <1>0, <1>4, <1>7, <1>8, <1>9 DEF TypeOK
<1>11. AccountsForward
  BY <1>0, <1>9, StillForward
<1>12. BotsForward
  <2>1. \A c \in DOMAIN bots : bots[c].gen \in Nat
    BY <1>0, RowsAreTyped DEF BotRecords
  <2>2. ASSUME NEW c \in DOMAIN bots \ {b} PROVE Kept(c)
    BY <1>4, <1>9 DEF Kept
  <2>3. ~EpochWasStale(b) => Kept(b) /\ bots'[b].gen = bots[b].gen
    BY <1>2, <1>3, <1>4, <1>9 DEF Kept
  <2>4. EpochWasStale(b) => /\ bots[b].gen < bots'[b].gen
                            /\ \A k \in DOMAIN keys : keys[k].bot = b => keys'[k].revoked
                            /\ \A i \in DOMAIN refresh' : refresh'[i].bot # b
    BY <1>3, <1>4, <1>6, <1>7, <1>8, <2>1
  <2>5. bots[b].gen <= bots'[b].gen
    BY <1>3, <1>4, <2>1
  <2> QED
    BY <1>3, <1>4, <2>1, <2>2, <2>3, <2>4, <2>5 DEF BotsForward
<1>13. KeysForward
  BY <1>6, <1>7 DEF KeysForward
<1>14. RefreshForward
  <2>1. EpochWasStale(b) => bots[b].gen < bots'[b].gen
    BY <1>0, <1>3, <1>4 DEF BotRecords
  <2> QED
    BY <1>8, <2>1 DEF RefreshForward, RowsLeave
<1>15. AgentsForward
  BY <1>9, <1>12, StewardsStay DEF Active
<1>16. CurrentForward
  <2>1. HasCurrentKey(b)'
    BY <1>7 DEF HasCurrentKey
  <2>2. ASSUME NEW c \in DOMAIN bots \ {b}
        PROVE  bots'[c].status = "revoked" \/ EpochWasStale(c)' \/ HasCurrentKey(c)'
    <3>1. EpochWasStale(c)' = EpochWasStale(c)
      BY <1>4, <1>9 DEF EpochWasStale, Personal
    <3>2. HasCurrentKey(c) => HasCurrentKey(c)'
      BY <1>6, <1>7 DEF HasCurrentKey
    <3> QED
      BY <1>4, <3>1, <3>2 DEF BotInv, KeysInv
  <2> QED
    BY <2>1, <2>2 DEF CurrentForward
<1>17. NewRows
  BY <1>3, <1>4, <1>7, <1>8, <1>9 DEF NewRows
<1> QED
  BY <1>0, <1>9, <1>10, <1>11, <1>12, <1>13, <1>14, <1>15, <1>16, <1>17 DEF Lasting, OnlyForward, TypeOK

LEMMA SuspendBotForward ==
    ASSUME BotInv, NEW actor \in Users, NEW b \in DOMAIN bots, SuspendBot(actor, b)
    PROVE  Lasting
<1>0. TypeOK /\ bots \in Seq(BotRecords) /\ bots[b] \in BotRecords
  BY DEF BotInv, TypeOK
<1>1. PICK new \in BotRecords :
        /\ bots' = [bots EXCEPT ![b] = new]
        /\ new.owner = bots[b].owner /\ new.team = bots[b].team /\ new.status = "suspended"
        /\ new.epoch = bots[b].epoch /\ new.gen = bots[b].gen
  <2> DEFINE d == [bots[b] EXCEPT !.status = "suspended"]
  <2>1. bots' = [bots EXCEPT ![b] = d]
    BY DEF SuspendBot
  <2>2. /\ d \in BotRecords /\ d.owner = bots[b].owner /\ d.team = bots[b].team
        /\ d.status = "suspended" /\ d.epoch = bots[b].epoch /\ d.gen = bots[b].gen
    BY <1>0 DEF BotRecords
  <2> QED
    BY <2>1, <2>2
<1>2. /\ bots' \in Seq(BotRecords) /\ DOMAIN bots' = DOMAIN bots /\ bots'[b] = new
      /\ \A c \in DOMAIN bots \ {b} : bots'[c] = bots[c]
  BY <1>0, <1>1
<1>3. UNCHANGED <<now, account, members, enrolling, keys, refresh, issued, operations, agents, answers>>
  BY DEF SuspendBot
<1>4. TypeOK'
  BY <1>0, <1>2, <1>3 DEF TypeOK
<1>5. AccountsForward /\ KeysForward /\ RefreshForward
  BY <1>0, <1>3, StillForward
<1>6. BotsForward
  <2>1. \A c \in DOMAIN bots : bots[c].gen \in Nat
    BY <1>0, RowsAreTyped DEF BotRecords
  <2>2. \A c \in DOMAIN bots : Kept(c)
    BY <1>1, <1>2, <1>3 DEF Kept
  <2> QED
    BY <1>1, <1>2, <2>1, <2>2 DEF BotsForward
<1>7. AgentsForward
  BY <1>3, <1>6, StewardsStay DEF Active
<1>8. CurrentForward
  <2>1. ASSUME NEW c \in DOMAIN bots
        PROVE  bots'[c].status = "revoked" \/ EpochWasStale(c)' \/ HasCurrentKey(c)'
    <3>1. EpochWasStale(c)' = EpochWasStale(c)
      BY <1>1, <1>2, <1>3 DEF EpochWasStale, Personal
    <3>2. HasCurrentKey(c) => HasCurrentKey(c)'
      BY <1>3 DEF HasCurrentKey
    <3>3. bots[c].status = "revoked" => bots'[c].status = "revoked"
      BY <1>2 DEF SuspendBot
    <3> QED
      BY <3>1, <3>2, <3>3 DEF BotInv, KeysInv
  <2> QED
    BY <2>1 DEF CurrentForward
<1>9. NewRows
  BY <1>2, <1>3, NothingNew
<1> QED
  BY <1>0, <1>3, <1>4, <1>5, <1>6, <1>7, <1>8, <1>9 DEF Lasting, OnlyForward, TypeOK

LEMMA RevokeBotForward ==
    ASSUME BotInv, NEW actor \in Users, NEW b \in DOMAIN bots, RevokeBot(actor, b)
    PROVE  Lasting
<1>0. TypeOK /\ bots \in Seq(BotRecords) /\ bots[b] \in BotRecords
  BY DEF BotInv, TypeOK
<1>1. PICK new \in BotRecords :
        /\ bots' = [bots EXCEPT ![b] = new]
        /\ new.owner = bots[b].owner /\ new.team = bots[b].team /\ new.status = "revoked"
        /\ new.epoch = bots[b].epoch /\ new.gen = bots[b].gen + 1
  <2> DEFINE g == bots[b].gen + 1
             d == [bots[b] EXCEPT !.status = "revoked", !.gen = g]
  <2>0. g \in Nat
    BY <1>0 DEF BotRecords
  <2>1. bots' = [bots EXCEPT ![b] = d]
    BY DEF RevokeBot
  <2> HIDE DEF g
  <2>2. /\ d \in BotRecords /\ d.owner = bots[b].owner /\ d.team = bots[b].team
        /\ d.status = "revoked" /\ d.epoch = bots[b].epoch /\ d.gen = g
    BY <1>0, <2>0 DEF BotRecords
  <2> QED
    BY <2>1, <2>2 DEF g
<1>2. /\ bots' \in Seq(BotRecords) /\ DOMAIN bots' = DOMAIN bots /\ bots'[b] = new
      /\ \A c \in DOMAIN bots \ {b} : bots'[c] = bots[c]
  BY <1>0, <1>1
<1>3. UNCHANGED <<now, account, members, enrolling, issued, operations, agents, answers>>
  BY DEF RevokeBot
<1>4. /\ keys' \in Seq(KeyRecords) /\ DOMAIN keys' = DOMAIN keys
      /\ \A k \in DOMAIN keys :
            /\ keys'[k].bot = keys[k].bot /\ keys'[k].under = keys[k].under
            /\ keys'[k].retired = keys[k].retired
            /\ keys'[k].revoked <=> (keys[k].revoked \/ keys[k].bot \in {b})
  BY <1>0, RevokedKeys DEF RevokeBot
<1>5. /\ DOMAIN refresh' \subseteq DOMAIN refresh
      /\ refresh' \in [DOMAIN refresh' -> RefreshRecords]
      /\ \A i \in DOMAIN refresh' : refresh'[i] = refresh[i] /\ refresh[i].bot \notin {b}
      /\ \A i \in DOMAIN refresh \ DOMAIN refresh' : refresh[i].bot \in {b}
  BY <1>0, DroppedRows DEF RevokeBot
<1>6. TypeOK'
  BY <1>0, <1>2, <1>3, <1>4, <1>5 DEF TypeOK
<1>7. AccountsForward
  BY <1>0, <1>3, StillForward
<1>8. BotsForward
  <2>1. \A c \in DOMAIN bots : bots[c].gen \in Nat
    BY <1>0, RowsAreTyped DEF BotRecords
  <2>2. \A c \in DOMAIN bots : Kept(c)
    BY <1>1, <1>2, <1>3 DEF Kept
  <2>3. \A i \in DOMAIN refresh' : refresh'[i].bot # b
    BY <1>5
  <2>4. bots[b].gen <= bots'[b].gen
    BY <1>1, <1>2, <2>1
  <2> QED
    BY <1>1, <1>2, <2>1, <2>2, <2>3, <2>4 DEF BotsForward
<1>9. KeysForward
  BY <1>4 DEF KeysForward
<1>10. RefreshForward
  <2>1. bots[b].gen < bots'[b].gen
    BY <1>0, <1>1, <1>2 DEF BotRecords
  <2> QED
    BY <1>5, <2>1 DEF RefreshForward, RowsLeave
<1>11. AgentsForward
  BY <1>3, <1>8, StewardsStay DEF Active
<1>12. CurrentForward
  <2>1. ASSUME NEW c \in DOMAIN bots \ {b}
        PROVE  bots'[c].status = "revoked" \/ EpochWasStale(c)' \/ HasCurrentKey(c)'
    <3>1. EpochWasStale(c)' = EpochWasStale(c)
      BY <1>2, <1>3 DEF EpochWasStale, Personal
    <3>2. HasCurrentKey(c) => HasCurrentKey(c)'
      BY <1>4 DEF HasCurrentKey
    <3> QED
      BY <1>2, <3>1, <3>2 DEF BotInv, KeysInv
  <2> QED
    BY <1>1, <1>2, <2>1 DEF CurrentForward
<1>13. NewRows
  BY <1>2, <1>3, <1>4, <1>5, NothingNew
<1> QED
  BY <1>0, <1>3, <1>6, <1>7, <1>8, <1>9, <1>10, <1>11, <1>12, <1>13 DEF Lasting, OnlyForward, TypeOK

LEMMA FamilyForward ==
    ASSUME BotInv, NEW b \in DOMAIN bots, RevokeRefreshFamily(b), operations' \subseteq operations
    PROVE  Lasting
<1>0. TypeOK
  BY DEF BotInv
<1>1. /\ bots' \in Seq(BotRecords) /\ DOMAIN bots' = DOMAIN bots
      /\ \A c \in DOMAIN bots :
            /\ bots'[c].owner = bots[c].owner /\ bots'[c].team = bots[c].team
            /\ bots'[c].status = bots[c].status /\ bots'[c].epoch = bots[c].epoch
            /\ bots'[c].gen = IF c \in {b} THEN bots[c].gen + 1 ELSE bots[c].gen
  BY <1>0, BumpedBots DEF RevokeRefreshFamily
<1>2. UNCHANGED <<now, account, members, enrolling, issued, keys, agents, answers>>
  BY DEF RevokeRefreshFamily
<1>3. /\ DOMAIN refresh' \subseteq DOMAIN refresh
      /\ refresh' \in [DOMAIN refresh' -> RefreshRecords]
      /\ \A i \in DOMAIN refresh' : refresh'[i] = refresh[i] /\ refresh[i].bot \notin {b}
      /\ \A i \in DOMAIN refresh \ DOMAIN refresh' : refresh[i].bot \in {b}
  BY <1>0, DroppedRows DEF RevokeRefreshFamily
<1>4. TypeOK'
  BY <1>0, <1>1, <1>2, <1>3 DEF TypeOK
<1>5. AccountsForward /\ KeysForward
  BY <1>0, <1>2, StillForward
<1>6. \A c \in DOMAIN bots : Kept(c)
  BY <1>1, <1>2 DEF Kept
<1>7. BotsForward
  <2>1. \A c \in DOMAIN bots : bots[c].gen \in Nat
    BY <1>0, RowsAreTyped DEF BotRecords
  <2>2. \A c \in DOMAIN bots : bots[c].gen <= bots'[c].gen /\ (c # b => bots'[c].gen = bots[c].gen)
    BY <1>1, <2>1
  <2>3. \A i \in DOMAIN refresh' : refresh'[i].bot # b
    BY <1>3
  <2> QED
    BY <1>1, <1>6, <2>2, <2>3 DEF BotsForward
<1>8. RefreshForward
  <2>1. bots[b].gen < bots'[b].gen
    BY <1>0, <1>1, RowsAreTyped DEF BotRecords
  <2> QED
    BY <1>3, <2>1 DEF RefreshForward, RowsLeave
<1>9. AgentsForward
  BY <1>2, <1>7, StewardsStay DEF Active
<1>10. CurrentForward
  BY <1>1, <1>2, <1>6 DEF CurrentForward
<1>11. NewRows
  BY <1>1, <1>2, <1>3, NothingNew
<1> QED
  BY <1>0, <1>2, <1>4, <1>5, <1>7, <1>8, <1>9, <1>10, <1>11 DEF Lasting, OnlyForward, TypeOK

LEMMA IssueBotAccessTokenForward ==
    ASSUME BotInv, NEW actor \in Users, NEW b \in DOMAIN bots, IssueBotAccessToken(actor, b)
    PROVE  Lasting
<1>0. TypeOK /\ bots[b] \in BotRecords /\ b \in Nat
  BY DEF BotInv, TypeOK
<1>1. EpochBehind(b) \in Nat /\ EpochBehind(b) = bots[b].epoch
  <2>1. EpochBehind(b) \in Nat
    BY <1>0, RowsAreTyped DEF EpochBehind, EpochOf, BotRecords, Accounts
  <2>2. CASE Personal(b)
    BY <2>1, <2>2 DEF IssueBotAccessToken, BotAccountMatches, EpochBehind, EpochOf, Personal
  <2>3. CASE ~Personal(b)
    <3>1. bots[b].epoch <= 0 /\ EpochBehind(b) = 0
      BY <2>3 DEF Personal, BotInv, Epochs, CopiesEpoch, EpochBehind, EpochOf
    <3> QED
      BY <1>0, <2>1, <3>1 DEF BotRecords
  <2> QED
    BY <2>2, <2>3
<1>2. PICK n : /\ agents' \in Seq(AgentRecords) /\ DOMAIN agents' = DOMAIN agents \cup {n}
               /\ n \notin DOMAIN agents /\ \A i \in DOMAIN agents : agents'[i] = agents[i]
               /\ agents'[n].bot = b /\ agents'[n].gen = bots[b].gen
               /\ agents'[n].under = bots[b].epoch /\ agents'[n].issuer = actor
  <2> DEFINE d == [bot |-> b, gen |-> bots[b].gen, issuer |-> actor, expires |-> now + TokenTtl,
                   revoked |-> FALSE, under |-> EpochBehind(b)]
  <2>1. bots[b].gen \in Nat /\ now + TokenTtl \in Nat
    BY <1>0, ParametersAreDeclared DEF TypeOK, BotRecords
  <2>2. /\ d \in AgentRecords /\ d.bot = b /\ d.gen = bots[b].gen /\ d.under = bots[b].epoch
        /\ d.issuer = actor
    BY <1>0, <1>1, <2>1 DEF AgentRecords
  <2>3. agents' = Append(agents, d) /\ agents \in Seq(AgentRecords)
    BY <1>0 DEF IssueBotAccessToken, TypeOK
  <2> HIDE DEF d
  <2> QED
    BY <2>2, <2>3, AppendedSeq
<1>3. UNCHANGED <<now, account, members, bots, enrolling, keys, refresh, issued, operations, answers>>
  BY DEF IssueBotAccessToken
<1>4. TypeOK'
  BY <1>0, <1>2, <1>3 DEF TypeOK
<1>5. AccountsForward /\ BotsForward /\ KeysForward /\ RefreshForward /\ CurrentForward
  BY <1>0, <1>3, StillForward
<1>6. AgentsForward
  BY <1>2, <1>3, <1>5, StewardsStay DEF Active
<1>7. NewRows
  <2>1. IssuerStillStewards(n)'
    BY <1>2, <1>3 DEF IssueBotAccessToken, Manages, IssuerStillStewards, IsSteward, Personal, Active
  <2> QED
    BY <1>2, <1>3, <2>1 DEF NewRows
<1> QED
  BY <1>0, <1>3, <1>4, <1>5, <1>6, <1>7 DEF Lasting, OnlyForward, TypeOK

-----------------------------------------------------------------------------
(* Refresh tokens *)

\* What is stored once the next token is issued: the rows there were, less some
\* that expired or were never spent, and the new one.
Issues(rows, b, k) ==
    /\ issued' = issued + 1
    /\ DOMAIN refresh' \subseteq DOMAIN rows \cup {issued + 1}
    /\ refresh' \in [DOMAIN refresh' -> RefreshRecords]
    /\ \A i \in DOMAIN refresh' \cap DOMAIN rows : refresh'[i] = rows[i]
    /\ \A i \in DOMAIN refresh' \ DOMAIN rows :
          /\ refresh'[i].bot = b /\ refresh'[i].key = k /\ refresh'[i].gen = bots[b].gen
          /\ refresh'[i].used = Never
    /\ \A i \in DOMAIN rows \ DOMAIN refresh' : rows[i].expires <= now \/ rows[i].used = Never

LEMMA IssueRefreshIssues ==
    ASSUME TypeOK, NEW rows, DOMAIN rows \subseteq 1..issued, rows \in [DOMAIN rows -> RefreshRecords],
           NEW b \in DOMAIN bots, NEW k \in DOMAIN keys,
           refresh' = IssueRefresh(rows, b, k), issued' = issued + 1
    PROVE  Issues(rows, b, k)
<1> DEFINE d == [bot |-> b, key |-> k, gen |-> bots[b].gen, expires |-> now + RefreshTtl, used |-> Never]
           all == [i \in DOMAIN rows \cup {issued + 1} |-> IF i \in DOMAIN rows THEN rows[i] ELSE d]
           expired == { i \in DOMAIN all : all[i].bot = b /\ all[i].expires <= now }
           live == { i \in DOMAIN all \ expired : all[i].bot = b /\ all[i].used = Never }
           excess == { i \in live : Cardinality({ j \in live : j >= i }) > MaxLiveRefresh }
<1>1. /\ d \in RefreshRecords /\ d.bot = b /\ d.key = k /\ d.gen = bots[b].gen /\ d.used = Never
      /\ issued + 1 \notin DOMAIN rows
  <2>1. b \in Nat /\ k \in Nat /\ bots[b].gen \in Nat /\ now + RefreshTtl \in Nat /\ issued \in Nat
    <3>1. bots[b] \in BotRecords
      BY RowsAreTyped
    <3>2. b \in Nat /\ k \in Nat
      BY DEF TypeOK
    <3> QED
      BY <3>1, <3>2, ParametersAreDeclared DEF TypeOK, BotRecords
  <2> QED
    BY <2>1 DEF RefreshRecords
<1> HIDE DEF d
<1>2. /\ DOMAIN all = DOMAIN rows \cup {issued + 1}
      /\ \A i \in DOMAIN rows : all[i] = rows[i]
      /\ all[issued + 1] = d
  BY <1>1
<1>3. \A i \in DOMAIN rows : all[i] \in RefreshRecords
  BY <1>2
<1>4. refresh' = Restricted(all, DOMAIN all \ (expired \cup excess))
  BY DEF IssueRefresh, CapLiveRefresh, d
<1>5. \A i \in expired \cup excess : all[i].expires <= now \/ all[i].used = Never
  OBVIOUS
<1> HIDE DEF all, expired, excess
<1>6. /\ DOMAIN refresh' = DOMAIN all \ (expired \cup excess)
      /\ \A i \in DOMAIN refresh' : refresh'[i] = all[i]
      /\ refresh' = [i \in DOMAIN refresh' |-> refresh'[i]]
  BY <1>4 DEF Restricted
<1>7. refresh' \in [DOMAIN refresh' -> RefreshRecords]
  BY <1>1, <1>2, <1>3, <1>6
<1>8. \A i \in DOMAIN rows \ DOMAIN refresh' : rows[i].expires <= now \/ rows[i].used = Never
  BY <1>2, <1>5, <1>6
<1> QED
  BY <1>1, <1>2, <1>6, <1>7, <1>8 DEF Issues

LEMMA IssuesForward ==
    ASSUME BotInv, NEW rows, DOMAIN rows = DOMAIN refresh, NEW b \in DOMAIN bots, NEW k \in DOMAIN keys,
           keys[k].bot = b, Issues(rows, b, k),
           \A i \in DOMAIN rows :
              /\ rows[i].bot = refresh[i].bot /\ rows[i].key = refresh[i].key
              /\ rows[i].gen = refresh[i].gen /\ rows[i].expires = refresh[i].expires
              /\ refresh[i].used # Never => rows[i].used = refresh[i].used,
           \A i \in DOMAIN rows : rows[i].used = Never => \A a \in answers' : a[1] # i,
           UNCHANGED <<now, account, members, bots, enrolling, keys, agents>>,
           operations' \subseteq Operations, answers' \subseteq (1..issued') \X (1..issued')
    PROVE  Lasting
<1>0. TypeOK
  BY DEF BotInv
<1>1. issued \in Nat /\ issued' = issued + 1 /\ DOMAIN refresh \subseteq 1..issued
  BY <1>0 DEF TypeOK, Issues
<1>2. TypeOK'
  <2>1. issued' \in Nat /\ DOMAIN refresh' \subseteq 1..issued'
    BY <1>1 DEF Issues
  <2> QED
    BY <1>0, <2>1 DEF TypeOK, Issues
<1>3. AccountsForward /\ BotsForward /\ KeysForward /\ CurrentForward /\ AgentsForward
  BY <1>0, StillForward
<1>4. RefreshForward
  BY DEF RefreshForward, RowsLeave, Issues
<1>5. NewRows
  BY DEF NewRows, Issues
<1> QED
  BY <1>0, <1>2, <1>3, <1>4, <1>5 DEF Lasting, OnlyForward, TypeOK

\* Successors are kept when nothing is answered that was not.
LEMMA SuccessorsKept ==
    ASSUME BotInv, Lasting, answers' = answers, operations' \subseteq operations
    PROVE  SpentInv' /\ OneSuccessor'
<1>0. /\ answers \subseteq (1..issued) \X (1..issued) /\ issued \in Nat
      /\ operations \subseteq Operations /\ DOMAIN refresh \subseteq 1..issued
  BY DEF BotInv, TypeOK
<1>1. \A a \in answers : a[1] \in 1..issued /\ a[2] \in 1..issued
  BY <1>0
<1>2. \A i \in DOMAIN refresh' : i \in DOMAIN refresh \/ (i = issued + 1 /\ \A a \in answers : a[1] # i)
  BY <1>0, <1>1 DEF Lasting, NewRows
<1>3. SpentInv'
  BY <1>2 DEF BotInv, SpentInv, Lasting, OnlyForward, RefreshForward
<1>4. ASSUME NEW o \in operations', o.token \in DOMAIN refresh'
      PROVE  refresh'[o.token].used = o.created
  <2>1. o \in Operations /\ <<o.token, o.next>> \in answers
    BY <1>0 DEF BotInv, OneSuccessor
  <2>2. o.created # Never
    BY <2>1, ParametersAreDeclared DEF Operations
  <2>3. o.token \in DOMAIN refresh
    BY <1>2, <1>4, <2>1
  <2>4. refresh[o.token].used = o.created
    BY <2>3 DEF BotInv, OneSuccessor
  <2> QED
    BY <1>4, <2>2, <2>3, <2>4 DEF Lasting, OnlyForward, RefreshForward
<1>5. \A o \in operations' : /\ <<o.token, o.next>> \in answers'
                             /\ \A p \in operations' : p.token = o.token => p = o
  BY DEF BotInv, OneSuccessor
<1>6. \A a \in answers', b \in answers' : a[1] = b[1] <=> a[2] = b[2]
  BY DEF BotInv, OneSuccessor
<1>7. References' /\ Generations'
  BY LastingKeeps
<1> QED
  BY <1>3, <1>4, <1>5, <1>6, <1>7 DEF OneSuccessor, References, Generations

LEMMA LastingIsInv ==
    ASSUME BotInv, Lasting, SpentInv' /\ OneSuccessor'
    PROVE  BotInv'
  BY LastingKeeps DEF BotInv, Lasting

LEMMA ExchangeForward ==
    ASSUME BotInv, NEW k \in DOMAIN keys, ExchangeBotEnrollmentKey(k)
    PROVE  Lasting
<1>0. TypeOK
  BY DEF BotInv
<1>1. keys[k].bot \in DOMAIN bots /\ DOMAIN refresh \subseteq 1..issued /\ issued \in Nat
      /\ refresh \in [DOMAIN refresh -> RefreshRecords]
  BY <1>0 DEF BotInv, References, TypeOK
<1>2. Issues(refresh, keys[k].bot, k)
  BY <1>0, <1>1, IssueRefreshIssues DEF ExchangeBotEnrollmentKey
<1>3. \A i \in DOMAIN refresh : refresh[i].used = Never => \A a \in answers' : a[1] # i
  BY DEF ExchangeBotEnrollmentKey, BotInv, SpentInv
<1>4. operations' \subseteq Operations /\ answers' \subseteq (1..issued') \X (1..issued')
  <2>1. 1..issued \subseteq 1..issued'
    BY <1>1 DEF ExchangeBotEnrollmentKey
  <2> QED
    BY <1>0, <2>1 DEF ExchangeBotEnrollmentKey, TypeOK
<1> QED
  BY <1>1, <1>2, <1>3, <1>4, IssuesForward DEF ExchangeBotEnrollmentKey

\* A rotation spends the row it was asked with, answers once, and may record it.
LEMMA RotateKeeps ==
    ASSUME BotInv, NEW i \in DOMAIN refresh, Rotate(i),
           \/ operations' \subseteq operations
           \/ \E o \in Operations :
                 /\ operations' \subseteq operations \cup {o}
                 /\ o.token = i /\ o.next = issued + 1 /\ o.created = now
    PROVE  Lasting /\ BotInv'
<1>0. TypeOK /\ now # Never /\ issued \in Nat /\ DOMAIN refresh \subseteq 1..issued
  BY ParametersAreDeclared DEF BotInv, TypeOK
<1>1. PICK b \in DOMAIN bots, k \in DOMAIN keys : b = refresh[i].bot /\ k = refresh[i].key /\ keys[k].bot = b
  BY DEF BotInv, References
<1>2. PICK rows : rows = Spent(i)
  OBVIOUS
<1>3. /\ DOMAIN rows = DOMAIN refresh /\ rows \in [DOMAIN rows -> RefreshRecords]
      /\ rows[i].used = now
      /\ \A j \in DOMAIN refresh \ {i} : rows[j] = refresh[j]
      /\ \A j \in DOMAIN refresh :
            /\ rows[j].bot = refresh[j].bot /\ rows[j].key = refresh[j].key
            /\ rows[j].gen = refresh[j].gen /\ rows[j].expires = refresh[j].expires
            /\ refresh[j].used # Never => rows[j].used = refresh[j].used
  <2> DEFINE d == [refresh[i] EXCEPT !.used = now]
  <2>1. refresh[i] \in RefreshRecords /\ refresh[i].used = Never /\ now \in Nat
    BY <1>0 DEF Rotate, AcceptsRefresh, TypeOK
  <2>2. /\ d \in RefreshRecords /\ d.bot = refresh[i].bot /\ d.key = refresh[i].key
        /\ d.gen = refresh[i].gen /\ d.expires = refresh[i].expires /\ d.used = now
    BY <2>1 DEF RefreshRecords
  <2>3. rows = [refresh EXCEPT ![i] = d] /\ refresh \in [DOMAIN refresh -> RefreshRecords]
    BY <1>0, <1>2 DEF Spent, TypeOK
  <2> HIDE DEF d
  <2> QED
    BY <2>1, <2>2, <2>3
<1>4. /\ issued' = issued + 1 /\ answers' = answers \cup {<<i, issued + 1>>}
      /\ UNCHANGED <<now, account, members, bots, enrolling, keys, agents>>
      /\ refresh[i].used = Never
  BY DEF Rotate, AcceptsRefresh
<1>5. Issues(rows, b, k)
  <2>1. refresh' = IssueRefresh(rows, b, k)
    BY <1>1, <1>2 DEF Rotate
  <2> QED
    BY <1>0, <1>3, <1>4, <2>1, IssueRefreshIssues
<1>6. \A a \in answers : a[1] # i /\ a[1] \in 1..issued /\ a[2] \in 1..issued
  <2>1. answers \subseteq (1..issued) \X (1..issued)
    BY <1>0 DEF TypeOK
  <2> QED
    BY <1>4, <2>1 DEF BotInv, SpentInv
<1>7. \A j \in DOMAIN rows : rows[j].used = Never => \A a \in answers' : a[1] # j
  <2>1. \A j \in DOMAIN rows : rows[j].used = Never => j # i /\ refresh[j].used = Never
    BY <1>0, <1>3
  <2>2. \A j \in DOMAIN refresh : refresh[j].used = Never => \A a \in answers : a[1] # j
    BY DEF BotInv, SpentInv
  <2> QED
    BY <1>3, <1>4, <2>1, <2>2
<1>8. operations' \subseteq Operations
  BY <1>0 DEF TypeOK
<1>9. answers' \subseteq (1..issued') \X (1..issued')
  <2>1. answers \subseteq (1..issued) \X (1..issued) /\ i \in 1..issued
    BY <1>0 DEF TypeOK
  <2>2. 1..issued \subseteq 1..issued' /\ issued + 1 \in 1..issued'
    BY <1>0, <1>4
  <2> QED
    BY <1>4, <2>1, <2>2
<1>10. Lasting
  BY <1>1, <1>3, <1>4, <1>5, <1>7, <1>8, <1>9, IssuesForward
<1>11. SpentInv'
  <2>1. ASSUME NEW j \in DOMAIN refresh', refresh'[j].used = Never, NEW a \in answers' PROVE a[1] # j
    <3>1. CASE j \in DOMAIN rows
      BY <1>5, <1>7, <2>1, <3>1 DEF Issues
    <3>2. CASE j \notin DOMAIN rows
      BY <1>0, <1>4, <1>5, <1>6, <2>1, <3>2 DEF Issues
    <3> QED
      BY <3>1, <3>2
  <2> QED
    BY <2>1 DEF SpentInv
<1>12. \A a \in answers', c \in answers' : a[1] = c[1] <=> a[2] = c[2]
  <2>1. \A a \in answers : a[1] # i /\ a[2] # issued + 1
    BY <1>0, <1>6
  <2>2. \A a \in answers, c \in answers : a[1] = c[1] <=> a[2] = c[2]
    BY DEF BotInv, OneSuccessor
  <2> QED
    BY <1>4, <2>1, <2>2
<1>13. \A o \in operations : o.token # i /\ o.token \in 1..issued /\ <<o.token, o.next>> \in answers
  <2>1. \A o \in operations : <<o.token, o.next>> \in answers
    BY DEF BotInv, OneSuccessor
  <2>2. \A o \in operations : <<o.token, o.next>>[1] = o.token
    OBVIOUS
  <2> QED
    BY <1>6, <2>1, <2>2
<1>14. ASSUME NEW o \in operations
       PROVE  /\ o.token \in DOMAIN refresh' => refresh'[o.token].used = o.created
              /\ <<o.token, o.next>> \in answers'
  <2>1. o.token \in DOMAIN refresh => refresh[o.token].used = o.created
    BY DEF BotInv, OneSuccessor
  <2>2. o.token \in DOMAIN refresh' => o.token \in DOMAIN refresh /\ refresh'[o.token] = rows[o.token]
    <3>1. o.token \in Nat /\ o.token # issued + 1
      <4>1. o.token \in 1..issued /\ issued \in Nat
        BY <1>0, <1>13
      <4> QED
        BY <4>1
    <3> QED
      BY <1>3, <1>5, <3>1 DEF Issues
  <2> QED
    BY <1>3, <1>4, <1>13, <2>1, <2>2
<1>15. ASSUME NEW o \in operations', o \notin operations
       PROVE  /\ o.token = i /\ o.created = now /\ o.next = issued + 1
              /\ o.token \in DOMAIN refresh' => refresh'[o.token].used = o.created
  <2>1. o.token = i /\ o.created = now /\ o.next = issued + 1
    BY <1>15
  <2> QED
    BY <1>3, <1>5, <2>1 DEF Issues
<1>16. \A o \in operations', p \in operations' : p.token = o.token => p = o
  <2>1. \A o \in operations, p \in operations : p.token = o.token => p = o
    BY DEF BotInv, OneSuccessor
  <2>2. \A o \in operations', p \in operations' : o \notin operations /\ p \notin operations => o = p
    OBVIOUS
  <2> QED
    BY <1>13, <1>15, <2>1, <2>2
<1>17. OneSuccessor'
  <2>1. References' /\ Generations'
    BY <1>10, LastingKeeps
  <2> QED
    BY <1>4, <1>12, <1>14, <1>15, <1>16, <2>1 DEF OneSuccessor, References, Generations
<1> QED
  BY <1>10, <1>11, <1>17, LastingIsInv

LEMMA RefreshStepsKeep ==
    ASSUME BotInv, RefreshSteps
    PROVE  Lasting /\ BotInv'
<1>0. TypeOK /\ Pruned \subseteq operations
  BY DEF BotInv, Pruned
<1>1. ASSUME NEW k \in DOMAIN keys, ExchangeBotEnrollmentKey(k) PROVE Lasting /\ BotInv'
  BY <1>1, ExchangeForward, SuccessorsKept, LastingIsInv DEF ExchangeBotEnrollmentKey
<1>2. ASSUME NEW i \in DOMAIN refresh, RotateBotRefreshToken(i) PROVE Lasting /\ BotInv'
  BY <1>2, RotateKeeps DEF RotateBotRefreshToken
<1>3. ASSUME NEW i \in DOMAIN refresh, RevokeRefreshFamily(refresh[i].bot), operations' \subseteq operations
      PROVE  Lasting /\ BotInv'
  <2>1. refresh[i].bot \in DOMAIN bots
    BY DEF BotInv, References
  <2>2. Lasting
    BY <1>3, <2>1, FamilyForward
  <2> QED
    BY <1>3, <2>2, SuccessorsKept, LastingIsInv DEF RevokeRefreshFamily
<1>4. ASSUME NEW i \in DOMAIN refresh, NEW r \in Requests, NEW d \in Bodies, RotateIdempotent(i, r, d)
      PROVE  Lasting /\ BotInv'
  <2> DEFINE o == [token |-> i, request |-> r, body |-> d, created |-> now, next |-> issued + 1]
  <2>1. i \in Nat /\ now \in Nat /\ issued + 1 \in Nat
    BY <1>0 DEF TypeOK
  <2>2. o \in Operations /\ o.token = i /\ o.next = issued + 1 /\ o.created = now
    BY <2>1 DEF Operations
  <2>3. Rotate(i) /\ operations' \subseteq operations \cup {o}
    BY <1>0, <1>4 DEF RotateIdempotent
  <2> HIDE DEF o
  <2> QED
    BY <2>2, <2>3, RotateKeeps
<1>5. ASSUME UNCHANGED <<now, account, members, bots, enrolling, keys, refresh, issued, agents, answers>>,
             operations' \subseteq operations
      PROVE  Lasting /\ BotInv'
  <2>1. TypeOK' /\ now <= now'
    BY <1>0, <1>5 DEF TypeOK
  <2>2. Lasting
    BY <1>5, <2>1, ClockForward
  <2> QED
    BY <1>5, <2>2, SuccessorsKept, LastingIsInv
<1>6. ASSUME NEW i \in DOMAIN refresh, NEW o \in operations, ReplayRotation(i, o) PROVE Lasting /\ BotInv'
  <2>1. o.token = i /\ <<o.token, o.next>> \in answers
    BY <1>6 DEF ReplayRotation, Recorded, BotInv, OneSuccessor
  <2>2. answers' = answers
    BY <1>6, <2>1 DEF ReplayRotation
  <2> QED
    BY <1>0, <1>5, <1>6, <2>2 DEF ReplayRotation
<1> QED
  BY <1>0, <1>1, <1>2, <1>3, <1>4, <1>5, <1>6
    DEF RefreshSteps, RefreshReused, ReuseIdempotent, RefuseIdempotent

\* A step that touches no refresh token and no answer needs only go forward.
LEMMA ForwardIsEnough ==
    ASSUME BotInv, Lasting, UNCHANGED <<operations, answers>>
    PROVE  Lasting /\ BotInv'
  BY SuccessorsKept, LastingIsInv

LEMMA PeopleStepsKeep ==
    ASSUME BotInv, PeopleSteps
    PROVE  Lasting /\ BotInv'
<1>1. ASSUME NEW u \in Users, PasswordPath(u) PROVE Lasting /\ BotInv'
  BY <1>1, PasswordPathForward, ForwardIsEnough DEF PasswordPath
<1>2. ASSUME NEW u \in Users, NEW status \in Statuses, TransitionAccountStatus(u, status)
      PROVE  Lasting /\ BotInv'
  BY <1>2, TransitionForward, ForwardIsEnough DEF TransitionAccountStatus
<1>3. ASSUME NEW u \in Users, NEW t \in Teams, NEW v \in Users, AddTeamMember(u, t, v)
      PROVE  Lasting /\ BotInv'
  BY <1>3, AddTeamMemberForward, ForwardIsEnough DEF AddTeamMember
<1>4. ASSUME NEW u \in Users, NEW t \in Teams, NEW v \in Users, RemoveTeamMember(u, t, v)
      PROVE  Lasting /\ BotInv'
  BY <1>4, RemoveTeamMemberForward, ForwardIsEnough DEF RemoveTeamMember
<1> QED
  BY <1>1, <1>2, <1>3, <1>4 DEF PeopleSteps

LEMMA BotStepsKeep ==
    ASSUME BotInv, BotSteps
    PROVE  Lasting /\ BotInv'
<1>0. TypeOK
  BY DEF BotInv
<1>1. ASSUME NEW u \in Users, NEW owner \in Users \cup {Org}, NEW t \in Teams \cup {NoTeam}, NEW s \in Slugs,
             BeginEnroll(u, owner, t, s)
      PROVE  Lasting /\ BotInv'
  BY <1>1, BeginEnrollForward, ForwardIsEnough DEF BeginEnroll
<1>2. ASSUME NEW e \in enrolling, StoreEnrolledBot(e) PROVE Lasting /\ BotInv'
  BY <1>2, StoreEnrolledBotForward, ForwardIsEnough DEF StoreEnrolledBot
<1>3. ASSUME NEW e \in enrolling, EnrollConflict(e) PROVE Lasting /\ BotInv'
  <2>1. TypeOK' /\ now <= now'
    BY <1>0, <1>3 DEF EnrollConflict, TypeOK
  <2>2. Lasting
    BY <1>3, <2>1, ClockForward DEF EnrollConflict
  <2> QED
    BY <1>3, <2>2, ForwardIsEnough DEF EnrollConflict
<1>4. ASSUME NEW u \in Users, NEW b \in DOMAIN bots, RotateBotKey(u, b) PROVE Lasting /\ BotInv'
  BY <1>4, RotateBotKeyForward, ForwardIsEnough DEF RotateBotKey
<1>5. ASSUME NEW u \in Users, NEW b \in DOMAIN bots, SuspendBot(u, b) PROVE Lasting /\ BotInv'
  BY <1>5, SuspendBotForward, ForwardIsEnough DEF SuspendBot
<1>6. ASSUME NEW u \in Users, NEW b \in DOMAIN bots, RevokeBot(u, b) PROVE Lasting /\ BotInv'
  BY <1>6, RevokeBotForward, ForwardIsEnough DEF RevokeBot
<1>7. ASSUME NEW u \in Users, NEW b \in DOMAIN bots, IssueBotAccessToken(u, b) PROVE Lasting /\ BotInv'
  BY <1>7, IssueBotAccessTokenForward, ForwardIsEnough DEF IssueBotAccessToken
<1>8. ASSUME NEW u \in Users, NEW i \in DOMAIN agents, RevokeBotAccessToken(u, i) PROVE Lasting /\ BotInv'
  BY <1>8, RevokingForward, ForwardIsEnough DEF RevokeBotAccessToken
<1>9. ASSUME NEW u \in Users, RevokeIssuedTeamBotTokens(u) PROVE Lasting /\ BotInv'
  BY <1>9, RevokingForward, ForwardIsEnough DEF RevokeIssuedTeamBotTokens
<1> QED
  BY <1>1, <1>2, <1>3, <1>4, <1>5, <1>6, <1>7, <1>8, <1>9 DEF BotSteps

LEMMA NextKeeps ==
    ASSUME BotInv, Next
    PROVE  Lasting /\ BotInv'
<1>1. CASE Tick
  <2>0. TypeOK
    BY DEF BotInv
  <2>1. TypeOK' /\ now <= now'
    BY <1>1, <2>0 DEF Tick, TypeOK
  <2>2. Lasting
    BY <1>1, <2>1, ClockForward DEF Tick
  <2> QED
    BY <1>1, <2>2, ForwardIsEnough DEF Tick
<1> QED
  BY <1>1, PeopleStepsKeep, BotStepsKeep, RefreshStepsKeep DEF Next

LEMMA BotInitHolds == Init => BotInv
<1> SUFFICES ASSUME Init PROVE BotInv
  OBVIOUS
<1>1. DOMAIN bots = {} /\ DOMAIN keys = {} /\ DOMAIN refresh = {} /\ DOMAIN agents = {}
  BY DEF Init
<1>2. TypeOK
  BY <1>1 DEF Init, TypeOK, Accounts, Statuses
<1> QED
  BY <1>1, <1>2 DEF Init, BotInv, References, Epochs, StampsInv, KeysInv, SpentInv, Generations,
       OneSuccessor, UnrevokedIssuersSteward

-----------------------------------------------------------------------------
(* The theorems *)

\* The tables are well formed and every stamp is where it belongs, whatever the
\* order of enrollments, rotations and account changes (engine/bots.rs,
\* engine/bot_tokens.rs, engine/team_bots.rs).
THEOREM BotInvHolds == Spec => []BotInv
<1>1. BotInv /\ [Next]_vars => BotInv'
  <2>1. BotInv /\ UNCHANGED vars => BotInv'
    BY DEF vars, BotInv, TypeOK, References, Epochs, CopiesEpoch, EpochOf, StampsInv, KeysInv, HasCurrentKey,
         EpochWasStale, Personal, SpentInv, Generations, OneSuccessor, UnrevokedIssuersSteward,
         IssuerStillStewards, IsSteward, Active
  <2> QED
    BY <2>1, NextKeeps
<1> QED
  BY <1>1, BotInitHolds, PTL DEF Spec

\* Rotation, exchange and authentication refuse every credential issued before
\* the owner's last password change, recovery, lock or unlock
\* (BotRecord::auth_epoch, bot_account_matches).
THEOREM OldEpochRefused == Spec => []OldEpochIsRefused
<1>1. BotInv => OldEpochIsRefused
  <2> SUFFICES ASSUME BotInv PROVE OldEpochIsRefused
    OBVIOUS
  <2>1. ASSUME NEW b \in DOMAIN bots, BotAccountMatches(b) PROVE bots[b].epoch = EpochBehind(b)
    <3>1. CASE Personal(b)
      BY <2>1, <3>1 DEF BotAccountMatches, EpochBehind, EpochOf, Personal
    <3>2. CASE ~Personal(b)
      <4>1. bots[b].epoch <= 0 /\ EpochBehind(b) = 0
        BY <3>2 DEF Personal, BotInv, Epochs, CopiesEpoch, EpochBehind, EpochOf
      <4>2. bots[b].epoch \in Nat
        BY RowsAreTyped DEF BotInv, BotRecords
      <4> QED
        BY <4>1, <4>2
    <3> QED
      BY <3>1, <3>2
  <2>2. \A k \in DOMAIN keys : AcceptsKey(k) => keys[k].under = EpochBehind(keys[k].bot)
    BY <2>1 DEF AcceptsKey, KeyIsLive, BotInv, References, StampsInv
  <2>3. ASSUME NEW i \in DOMAIN refresh, AcceptsRefresh(i)
        PROVE  keys[refresh[i].key].under = EpochBehind(refresh[i].bot)
    BY <2>1, <2>3 DEF AcceptsRefresh, RefreshStands, KeyIsLive, BotInv, References, StampsInv
  <2>4. ASSUME NEW i \in DOMAIN agents, AcceptsAgent(i)
        PROVE  agents[i].under = EpochBehind(agents[i].bot)
    BY <2>1, <2>4 DEF AcceptsAgent, TokenIsLive, BotInv, References, StampsInv
  <2> QED
    BY <2>2, <2>3, <2>4 DEF OldEpochIsRefused
<1> QED
  BY <1>1, BotInvHolds, PTL

\* A refresh token has one successor and a successor one predecessor, and a
\* stored row belongs to its bot's current generation (rotate_bot_refresh_token,
\* rotate_bot_refresh_token_idempotent, revoke_refresh_family).
THEOREM SuccessorIsUnique == Spec => []OneSuccessor
<1>1. BotInv => OneSuccessor
  BY DEF BotInv
<1> QED
  BY <1>1, BotInvHolds, PTL

\* Every unrevoked token of a team bot was issued by someone who stewards it
\* (remove_team_member, transition_account_status, revoke_steward_tokens).
THEOREM StewardsTakeTheirTokens == Spec => []UnrevokedIssuersSteward
<1>1. BotInv => UnrevokedIssuersSteward
  BY DEF BotInv
<1> QED
  BY <1>1, BotInvHolds, PTL

\* No step of anybody, and no passage of time, makes a refused credential
\* acceptable again, and a spent refresh token stays on record until it expires
\* or its family goes (key_is_live, token_is_live, cap_live_refresh).
THEOREM RefusalsLast == Spec => RefusedStaysRefused
<1> DEFINE Stays ==
      /\ \A k \in DOMAIN keys : AcceptsKey(k)' => AcceptsKey(k)
      /\ \A i \in 1..issued : AcceptsRefresh(i)' => AcceptsRefresh(i)
      /\ \A i \in DOMAIN agents : AcceptsAgent(i)' => AcceptsAgent(i)
      /\ \A i \in DOMAIN refresh \ DOMAIN refresh' :
            refresh[i].expires > now /\ (\E a \in answers' : a[1] = i)
              => bots'[refresh[i].bot].gen > refresh[i].gen
<1>1. BotInv /\ [Next]_vars => [Stays]_vars
  <2> SUFFICES ASSUME BotInv, Next PROVE Stays
    OBVIOUS
  <2>1. Lasting
    BY NextKeeps
  <2>2. /\ \A k \in DOMAIN keys : AcceptsKey(k)' => AcceptsKey(k)
        /\ \A i \in 1..issued : AcceptsRefresh(i)' => AcceptsRefresh(i)
        /\ \A i \in DOMAIN agents : AcceptsAgent(i)' => AcceptsAgent(i)
    BY <2>1, LastingRefuses
  <2>3. ASSUME NEW i \in DOMAIN refresh \ DOMAIN refresh', refresh[i].expires > now,
               \E a \in answers' : a[1] = i
        PROVE  bots'[refresh[i].bot].gen > refresh[i].gen
    <3>1. /\ bots[refresh[i].bot].gen = refresh[i].gen /\ refresh[i] \in RefreshRecords
          /\ refresh[i].bot \in DOMAIN bots /\ now \in Nat
      BY DEF BotInv, Generations, References, TypeOK
    <3>2. bots[refresh[i].bot].gen < bots'[refresh[i].bot].gen \/ refresh[i].expires <= now
      BY <2>1, <2>3 DEF Lasting, OnlyForward, RefreshForward, RowsLeave
    <3>3. refresh[i].expires \in Nat /\ refresh[i].gen \in Nat
      BY <3>1 DEF RefreshRecords
    <3>4. bots'[refresh[i].bot].gen \in Nat
      <4>1. bots'[refresh[i].bot] \in BotRecords
        BY <2>1, <3>1 DEF Lasting, TypeOK, OnlyForward, BotsForward
      <4> QED
        BY <4>1 DEF BotRecords
    <3> QED
      BY <2>3, <3>1, <3>2, <3>3, <3>4
  <2> QED
    BY <2>2, <2>3
<1> QED
  BY <1>1, BotInvHolds, PTL DEF Spec, RefusedStaysRefused
=============================================================================

---------------------------- MODULE TradeProofs ----------------------------
(***************************************************************************)
(* For any number of players, items, positions and maps: the two partners  *)
(* of a trade agree on it, an acceptance is of the offers as they are, an  *)
(* exchange gives each player just what the other has offered, and no item *)
(* is in two positions.  The first part is about who trades with whom      *)
(* (IInv), the second about the offers and the goods (GoodsInv), the third *)
(* about the threads that cancel (CollideInv).                             *)
(***************************************************************************)
EXTENDS Trade, FiniteSetTheorems, WellFoundedInduction, TLAPS

\* The types of the variables the proofs need.
Types ==
    /\ phase \in {"world", "maps"}
    /\ online \subseteq Players
    /\ pTrader \in [Players -> Players \cup {None}]
    /\ acceptTrade \in [Players -> BOOLEAN]
    /\ DOMAIN tradeGold = Players
    /\ DOMAIN tradeItems = Players
    /\ cancelling \in [Players -> {"no", "checked", "cleared"}]

\* No map's thread cancels while the world thread works, and whoever is about
\* to reset a pTrader has reset the acceptance of both players.
CancelInv ==
    /\ phase = "world" => \A p \in Players : cancelling[p] = "no"
    /\ \A p \in Players : cancelling[p] = "cleared" /\ pTrader[p] # None =>
          ~acceptTrade[p] /\ ~acceptTrade[pTrader[p]]

\* Who trades with nobody has accepted nothing.
NoTradeNoAcceptance == \A p \in Players : pTrader[p] = None => ~acceptTrade[p]

IInv == Types /\ PartnersAgree /\ CancelInv /\ NoTradeNoAcceptance

\* While an acceptance stands, partner, gold and positions are the same.
TermsStand == \A p \in Players :
    acceptTrade[p] /\ acceptTrade'[p] =>
        /\ UNCHANGED <<pTrader[p], Terms(p)>>
        /\ \A q \in Players : pTrader[p] = q => UNCHANGED Terms(q)

\* The missing partner is not a player.
LEMMA NoneIsNobody == None \notin Players
BY TradeAssumption

-----------------------------------------------------------------------------

\* ClearTrade resets the players it names and leaves the others alone.
LEMMA ClearTradeEffect ==
    ASSUME NEW ps \in SUBSET Players, ClearTrade(ps), acceptTrade \in [Players -> BOOLEAN]
    PROVE  /\ acceptTrade' \in [Players -> BOOLEAN]
           /\ DOMAIN tradeGold' = Players /\ DOMAIN tradeItems' = Players
           /\ \A p \in ps : ~acceptTrade'[p]
           /\ \A p \in Players \ ps :
                 /\ acceptTrade'[p] = acceptTrade[p]
                 /\ tradeGold'[p] = tradeGold[p]
                 /\ tradeItems'[p] = tradeItems[p]
BY DEF ClearTrade

\* The partner of the partner.
LEMMA Partners ==
    ASSUME Types, PartnersAgree, NEW p \in Players, pTrader[p] # None
    PROVE  /\ pTrader[p] \in Players /\ pTrader[p] # p
           /\ pTrader[pTrader[p]] = p
           /\ {p, pTrader[p]} \subseteq online
           /\ \A r \in Players : pTrader[r] \in {p, pTrader[p]} => r \in {p, pTrader[p]}
<1>1. pTrader[p] \in Players
  BY DEF Types
<1>2. pTrader[p] # p /\ pTrader[pTrader[p]] = p /\ {p, pTrader[p]} \subseteq online
  BY <1>1 DEF PartnersAgree
<1>3. ASSUME NEW r \in Players, pTrader[r] \in {p, pTrader[p]} PROVE r \in {p, pTrader[p]}
  BY <1>1, <1>2, <1>3 DEF PartnersAgree
<1> QED
  BY <1>1, <1>2, <1>3

-----------------------------------------------------------------------------
(* The steps, by what they do to the trades.                               *)

\* A step that leaves the trades alone, on the world thread or a map's.
LEMMA QuietStep ==
    ASSUME IInv, UNCHANGED <<phase, online, tradeVars, cancelling>>
    PROVE  IInv' /\ TermsStand
<1>1. Types' /\ NoTradeNoAcceptance'
  BY DEF IInv, Types, NoTradeNoAcceptance, tradeVars
<1>2. PartnersAgree' /\ CancelInv'
  BY DEF IInv, PartnersAgree, CancelInv, tradeVars
<1>3. TermsStand
  BY DEF TermsStand, Terms, tradeVars
<1> QED
  BY <1>1, <1>2, <1>3 DEF IInv

\* The offer of p changes, or all offers are withdrawn: nobody of the two has
\* accepted any more.
LEMMA OfferStep ==
    ASSUME IInv, NEW p \in Players, pTrader[p] # None,
           UNCHANGED <<phase, online, pTrader, cancelling>>,
           acceptTrade' \in [Players -> BOOLEAN],
           DOMAIN tradeGold' = Players, DOMAIN tradeItems' = Players,
           ~acceptTrade'[p], ~acceptTrade'[pTrader[p]],
           \A r \in Players \ {p, pTrader[p]} :
              /\ acceptTrade'[r] = acceptTrade[r]
              /\ tradeGold'[r] = tradeGold[r]
              /\ tradeItems'[r] = tradeItems[r]
    PROVE  IInv' /\ TermsStand
<1>0. /\ pTrader[p] \in Players
      /\ \A r \in Players : pTrader[r] \in {p, pTrader[p]} => r \in {p, pTrader[p]}
  BY Partners DEF IInv
<1>1. Types'
  BY DEF IInv, Types
<1>2. PartnersAgree'
  BY DEF IInv, PartnersAgree
<1>3. NoTradeNoAcceptance'
  <2> SUFFICES ASSUME NEW r \in Players, pTrader[r] = None PROVE ~acceptTrade'[r]
    BY DEF NoTradeNoAcceptance
  <2>1. ~acceptTrade[r]
    BY DEF IInv, NoTradeNoAcceptance
  <2> QED
    BY <2>1
<1>4. CancelInv'
  <2>1. phase' = "world" => \A r \in Players : cancelling'[r] = "no"
    BY DEF IInv, CancelInv
  <2>2. ASSUME NEW r \in Players, cancelling[r] = "cleared", pTrader[r] # None
        PROVE  ~acceptTrade'[r] /\ ~acceptTrade'[pTrader[r]]
    <3>1. ~acceptTrade[r] /\ ~acceptTrade[pTrader[r]] /\ pTrader[r] \in Players
      BY <2>2 DEF IInv, CancelInv, Types
    <3> QED
      BY <3>1, <1>0
  <2> QED
    BY <2>1, <2>2 DEF CancelInv
<1>5. TermsStand
  <2> SUFFICES ASSUME NEW r \in Players, acceptTrade[r], acceptTrade'[r]
               PROVE  /\ UNCHANGED Terms(r)
                      /\ \A q \in Players : pTrader[r] = q => UNCHANGED Terms(q)
    BY DEF TermsStand
  <2>1. r \notin {p, pTrader[p]}
    OBVIOUS
  <2>2. pTrader[r] \notin {p, pTrader[p]}
    BY <2>1, <1>0
  <2> QED
    BY <2>1, <2>2 DEF Terms
<1> QED
  BY <1>1, <1>2, <1>3, <1>4, <1>5 DEF IInv

\* A trade ends on the world thread, and p may leave the world.
LEMMA EndStep ==
    ASSUME IInv, NEW p \in Players, pTrader[p] # None, phase = "world",
           ClearTrade({p, pTrader[p]}),
           pTrader' = [pTrader EXCEPT ![p] = None, ![pTrader[p]] = None],
           online' \in {online, online \ {p}},
           UNCHANGED <<phase, cancelling>>
    PROVE  IInv' /\ TermsStand
<1>0. /\ pTrader[p] \in Players
      /\ \A r \in Players : pTrader[r] \in {p, pTrader[p]} => r \in {p, pTrader[p]}
  BY Partners DEF IInv
<1>1. /\ acceptTrade' \in [Players -> BOOLEAN]
      /\ DOMAIN tradeGold' = Players /\ DOMAIN tradeItems' = Players
      /\ \A r \in {p, pTrader[p]} : ~acceptTrade'[r]
      /\ \A r \in Players \ {p, pTrader[p]} :
            /\ acceptTrade'[r] = acceptTrade[r]
            /\ tradeGold'[r] = tradeGold[r]
            /\ tradeItems'[r] = tradeItems[r]
  BY <1>0, ClearTradeEffect DEF IInv, Types
<1>2. \A r \in Players : pTrader'[r] = IF r \in {p, pTrader[p]} THEN None ELSE pTrader[r]
  BY <1>0 DEF IInv, Types
<1>3. Types'
  BY <1>1 DEF IInv, Types
<1>4. PartnersAgree'
  <2> SUFFICES ASSUME NEW r \in Players, NEW q \in Players, pTrader'[r] = q
               PROVE  r # q /\ pTrader'[q] = r /\ {r, q} \subseteq online'
    BY DEF PartnersAgree
  <2>1. r \notin {p, pTrader[p]} /\ pTrader[r] = q
    BY <1>2, NoneIsNobody
  <2>2. q \notin {p, pTrader[p]}
    BY <2>1, <1>0
  <2>3. r # q /\ pTrader[q] = r /\ {r, q} \subseteq online
    BY <2>1 DEF IInv, PartnersAgree
  <2> QED
    BY <2>1, <2>2, <2>3, <1>2
<1>5. NoTradeNoAcceptance'
  <2> SUFFICES ASSUME NEW r \in Players, pTrader'[r] = None PROVE ~acceptTrade'[r]
    BY DEF NoTradeNoAcceptance
  <2>1. CASE r \in {p, pTrader[p]}
    BY <2>1, <1>1
  <2>2. CASE r \notin {p, pTrader[p]}
    <3>1. pTrader[r] = None
      BY <2>2, <1>2
    <3>2. ~acceptTrade[r]
      BY <3>1 DEF IInv, NoTradeNoAcceptance
    <3> QED
      BY <3>2, <2>2, <1>1
  <2> QED
    BY <2>1, <2>2
<1>6. CancelInv'
  <2>1. \A r \in Players : cancelling'[r] = "no"
    BY DEF IInv, CancelInv
  <2> QED
    BY <2>1 DEF CancelInv
<1>7. TermsStand
  <2> SUFFICES ASSUME NEW r \in Players, acceptTrade[r], acceptTrade'[r]
               PROVE  /\ UNCHANGED <<pTrader[r], Terms(r)>>
                      /\ \A q \in Players : pTrader[r] = q => UNCHANGED Terms(q)
    BY DEF TermsStand
  <2>1. r \notin {p, pTrader[p]}
    BY <1>1
  <2>2. pTrader[r] \notin {p, pTrader[p]}
    BY <2>1, <1>0
  <2> QED
    BY <2>1, <2>2, <1>1, <1>2 DEF Terms
<1> QED
  BY <1>3, <1>4, <1>5, <1>6, <1>7 DEF IInv

-----------------------------------------------------------------------------
(* The other actions.                                                      *)

\* A trade begins between two players that have none.
LEMMA InitiateStep ==
    ASSUME IInv, NEW p \in Players, NEW q \in Players, InitiateTrade(p, q)
    PROVE  IInv' /\ TermsStand
<1>0. /\ phase = "world" /\ {p, q} \subseteq online /\ p # q
      /\ pTrader[p] = None /\ pTrader[q] = None
      /\ pTrader' = [pTrader EXCEPT ![p] = q, ![q] = p]
      /\ UNCHANGED <<phase, online, acceptTrade, tradeGold, tradeItems, cancelling>>
  BY DEF InitiateTrade, Running, MayTrade, whereVars, mapVars
<1>1. Types'
  BY <1>0 DEF IInv, Types
<1>2. PartnersAgree'
  <2> SUFFICES ASSUME NEW r \in Players, NEW t \in Players, pTrader'[r] = t
               PROVE  r # t /\ pTrader'[t] = r /\ {r, t} \subseteq online'
    BY DEF PartnersAgree
  <2>1. CASE r \in {p, q}
    BY <2>1, <1>0 DEF IInv, Types
  <2>2. CASE r \notin {p, q}
    <3>1. pTrader[r] = t
      BY <2>2, <1>0 DEF IInv, Types
    <3>2. r # t /\ pTrader[t] = r /\ {r, t} \subseteq online
      BY <3>1 DEF IInv, PartnersAgree
    <3>3. t \notin {p, q}
      BY <3>2, <1>0, NoneIsNobody
    <3> QED
      BY <3>2, <3>3, <1>0 DEF IInv, Types
  <2> QED
    BY <2>1, <2>2
<1>3. NoTradeNoAcceptance'
  <2> SUFFICES ASSUME NEW r \in Players, pTrader'[r] = None PROVE ~acceptTrade'[r]
    BY DEF NoTradeNoAcceptance
  <2>1. pTrader[r] = None
    BY <1>0, NoneIsNobody DEF IInv, Types
  <2> QED
    BY <2>1, <1>0 DEF IInv, NoTradeNoAcceptance
<1>4. CancelInv'
  <2>1. \A r \in Players : cancelling'[r] = "no"
    BY <1>0 DEF IInv, CancelInv
  <2> QED
    BY <2>1 DEF CancelInv
<1>5. TermsStand
  <2>1. ~acceptTrade[p] /\ ~acceptTrade[q]
    BY <1>0 DEF IInv, NoTradeNoAcceptance
  <2> SUFFICES ASSUME NEW r \in Players, acceptTrade[r]
               PROVE  /\ UNCHANGED <<pTrader[r], Terms(r)>>
                      /\ \A t \in Players : pTrader[r] = t => UNCHANGED Terms(t)
    BY DEF TermsStand
  <2>2. r \notin {p, q}
    BY <2>1
  <2> QED
    BY <2>2, <1>0 DEF Terms, IInv, Types
<1> QED
  BY <1>1, <1>2, <1>3, <1>4, <1>5 DEF IInv

\* On the world thread an acceptance is given by one who trades, or taken back.
LEMMA AcceptStep ==
    ASSUME IInv, NEW p \in Players, NEW b \in BOOLEAN, b => pTrader[p] # None,
           phase = "world",
           acceptTrade' = [acceptTrade EXCEPT ![p] = b],
           UNCHANGED <<phase, online, pTrader, tradeGold, tradeItems, cancelling>>
    PROVE  IInv' /\ TermsStand
<1>1. Types' /\ PartnersAgree'
  BY DEF IInv, Types, PartnersAgree
<1>2. NoTradeNoAcceptance'
  BY DEF IInv, Types, NoTradeNoAcceptance
<1>3. CancelInv'
  <2>1. \A r \in Players : cancelling'[r] = "no"
    BY DEF IInv, CancelInv
  <2> QED
    BY <2>1 DEF CancelInv
<1>4. TermsStand
  BY DEF TermsStand, Terms
<1> QED
  BY <1>1, <1>2, <1>3, <1>4 DEF IInv

\* The walk over the maps begins with no thread in TradeCancel and ends so;
\* or a player logs in.
LEMMA WalkStep ==
    ASSUME IInv, phase' \in {"world", "maps"},
           phase' = "world" => \A r \in Players : cancelling[r] = "no",
           online \subseteq online', online' \subseteq Players,
           UNCHANGED <<tradeVars, cancelling>>
    PROVE  IInv' /\ TermsStand
<1>1. Types' /\ NoTradeNoAcceptance'
  BY DEF IInv, Types, NoTradeNoAcceptance, tradeVars
<1>2. PartnersAgree' /\ CancelInv'
  BY DEF IInv, PartnersAgree, CancelInv, tradeVars
<1>3. TermsStand
  BY DEF TermsStand, Terms, tradeVars
<1> QED
  BY <1>1, <1>2, <1>3 DEF IInv

\* if (pTrader)
LEMMA CheckStep ==
    ASSUME IInv, NEW p \in Players, CheckTrader(p)
    PROVE  IInv' /\ TermsStand
<1>0. /\ phase = "maps" /\ cancelling' = [cancelling EXCEPT ![p] = "checked"]
      /\ UNCHANGED <<phase, online, pTrader, acceptTrade, tradeGold, tradeItems>>
  BY DEF CheckTrader, whereVars, tradeVars
<1>1. Types' /\ PartnersAgree' /\ NoTradeNoAcceptance'
  BY <1>0 DEF IInv, Types, PartnersAgree, NoTradeNoAcceptance
<1>2. CancelInv'
  BY <1>0 DEF IInv, Types, CancelInv
<1>3. TermsStand
  BY <1>0 DEF TermsStand, Terms
<1> QED
  BY <1>1, <1>2, <1>3 DEF IInv

\* ClearTrade of both players on a map's thread.
LEMMA ClearStep ==
    ASSUME IInv, NEW p \in Players, ClearBoth(p)
    PROVE  IInv' /\ TermsStand
<1>0. /\ cancelling[p] = "checked" /\ pTrader[p] # None
      /\ ClearTrade({p, pTrader[p]})
      /\ cancelling' = [cancelling EXCEPT ![p] = "cleared"]
      /\ UNCHANGED <<phase, online, pTrader>>
  BY DEF ClearBoth, whereVars
<1>1. /\ pTrader[p] \in Players
      /\ \A r \in Players : pTrader[r] \in {p, pTrader[p]} => r \in {p, pTrader[p]}
  BY <1>0, Partners DEF IInv
<1>2. /\ acceptTrade' \in [Players -> BOOLEAN]
      /\ DOMAIN tradeGold' = Players /\ DOMAIN tradeItems' = Players
      /\ \A r \in {p, pTrader[p]} : ~acceptTrade'[r]
      /\ \A r \in Players \ {p, pTrader[p]} :
            /\ acceptTrade'[r] = acceptTrade[r]
            /\ tradeGold'[r] = tradeGold[r]
            /\ tradeItems'[r] = tradeItems[r]
  BY <1>0, <1>1, ClearTradeEffect DEF IInv, Types
<1>3. Types' /\ PartnersAgree'
  <2>1. cancelling' \in [Players -> {"no", "checked", "cleared"}]
    BY <1>0 DEF IInv, Types
  <2>2. Types'
    BY <2>1, <1>0, <1>2 DEF IInv, Types
  <2>3. PartnersAgree'
    BY <1>0 DEF IInv, PartnersAgree
  <2> QED
    BY <2>2, <2>3
<1>4. \A r \in Players : ~acceptTrade[r] => ~acceptTrade'[r]
  BY <1>2
<1>5. NoTradeNoAcceptance'
  BY <1>0, <1>4 DEF IInv, NoTradeNoAcceptance
<1>6. CancelInv'
  <2>1. phase' = "world" => \A r \in Players : cancelling'[r] = "no"
    BY <1>0 DEF IInv, CancelInv
  <2>2. ASSUME NEW r \in Players, cancelling'[r] = "cleared", pTrader'[r] # None
        PROVE  ~acceptTrade'[r] /\ ~acceptTrade'[pTrader'[r]]
    <3>1. CASE r = p
      BY <3>1, <1>0, <1>2
    <3>2. CASE r # p
      <4>1. cancelling[r] = "cleared" /\ pTrader[r] # None /\ pTrader[r] \in Players
        BY <3>2, <2>2, <1>0 DEF IInv, Types
      <4>2. ~acceptTrade[r] /\ ~acceptTrade[pTrader[r]]
        BY <4>1 DEF IInv, CancelInv
      <4> QED
        BY <4>1, <4>2, <1>4, <1>0
    <3> QED
      BY <3>1, <3>2
  <2> QED
    BY <2>1, <2>2 DEF CancelInv
<1>7. TermsStand
  <2> SUFFICES ASSUME NEW r \in Players, acceptTrade[r], acceptTrade'[r]
               PROVE  /\ UNCHANGED <<pTrader[r], Terms(r)>>
                      /\ \A q \in Players : pTrader[r] = q => UNCHANGED Terms(q)
    BY DEF TermsStand
  <2>1. r \notin {p, pTrader[p]}
    BY <1>2
  <2>2. pTrader[r] \notin {p, pTrader[p]}
    BY <2>1, <1>1
  <2> QED
    BY <2>1, <2>2, <1>0, <1>2 DEF Terms
<1> QED
  BY <1>3, <1>5, <1>6, <1>7 DEF IInv

\* Both pTrader are reset on a map's thread.
LEMMA UnlinkStep ==
    ASSUME IInv, NEW p \in Players, Unlink(p)
    PROVE  IInv' /\ TermsStand
<1>0. /\ cancelling[p] = "cleared" /\ pTrader[p] # None
      /\ pTrader' = [pTrader EXCEPT ![p] = None, ![pTrader[p]] = None]
      /\ cancelling' = [cancelling EXCEPT ![p] = "no"]
      /\ UNCHANGED <<phase, online, acceptTrade, tradeGold, tradeItems>>
  BY DEF Unlink, whereVars
<1>1. /\ pTrader[p] \in Players
      /\ \A r \in Players : pTrader[r] \in {p, pTrader[p]} => r \in {p, pTrader[p]}
  BY <1>0, Partners DEF IInv
<1>2. ~acceptTrade[p] /\ ~acceptTrade[pTrader[p]]
  BY <1>0 DEF IInv, CancelInv
<1>3. \A r \in Players : pTrader'[r] = IF r \in {p, pTrader[p]} THEN None ELSE pTrader[r]
  BY <1>0, <1>1 DEF IInv, Types
<1>4. Types'
  BY <1>0, <1>1 DEF IInv, Types
<1>5. PartnersAgree'
  <2> SUFFICES ASSUME NEW r \in Players, NEW q \in Players, pTrader'[r] = q
               PROVE  r # q /\ pTrader'[q] = r /\ {r, q} \subseteq online'
    BY DEF PartnersAgree
  <2>1. r \notin {p, pTrader[p]} /\ pTrader[r] = q
    BY <1>3, NoneIsNobody
  <2>2. q \notin {p, pTrader[p]}
    BY <2>1, <1>1
  <2>3. r # q /\ pTrader[q] = r /\ {r, q} \subseteq online
    BY <2>1 DEF IInv, PartnersAgree
  <2> QED
    BY <2>1, <2>2, <2>3, <1>3, <1>0
<1>6. NoTradeNoAcceptance'
  BY <1>0, <1>2, <1>3 DEF IInv, NoTradeNoAcceptance
<1>7. CancelInv'
  <2>1. phase' = "world" => \A r \in Players : cancelling'[r] = "no"
    BY <1>0 DEF IInv, CancelInv
  <2>2. ASSUME NEW r \in Players, cancelling'[r] = "cleared", pTrader'[r] # None
        PROVE  ~acceptTrade'[r] /\ ~acceptTrade'[pTrader'[r]]
    <3>1. pTrader[r] = pTrader'[r] /\ cancelling[r] = "cleared"
      BY <2>2, <1>3, <1>0 DEF IInv, Types
    <3> QED
      BY <3>1, <2>2, <1>0 DEF IInv, CancelInv
  <2> QED
    BY <2>1, <2>2 DEF CancelInv
<1>8. TermsStand
  BY <1>0, <1>2, <1>3 DEF TermsStand, Terms
<1> QED
  BY <1>4, <1>5, <1>6, <1>7, <1>8 DEF IInv

-----------------------------------------------------------------------------

\* The invariant holds at the start.
LEMMA InitInv == Init => IInv
<1> SUFFICES ASSUME Init PROVE IInv
  OBVIOUS
<1>1. Types
  BY DEF Init, Types
<1>2. PartnersAgree
  BY NoneIsNobody DEF Init, PartnersAgree
<1>3. CancelInv /\ NoTradeNoAcceptance
  BY DEF Init, CancelInv, NoTradeNoAcceptance
<1> QED
  BY <1>1, <1>2, <1>3 DEF IInv

\* What an offer's change does.
LEMMA OfferChangesStep ==
    ASSUME IInv, NEW p \in Players, Trading(p), OfferChanges(p),
           DOMAIN tradeGold' = Players, DOMAIN tradeItems' = Players,
           \A r \in Players \ {p} :
              tradeGold'[r] = tradeGold[r] /\ tradeItems'[r] = tradeItems[r]
    PROVE  IInv' /\ TermsStand
<1>1. pTrader[p] # None /\ pTrader[p] \in Players /\ pTrader[pTrader[p]] = p
  BY Partners DEF Trading, IInv
<1>2. /\ acceptTrade' = [acceptTrade EXCEPT ![pTrader[p]] = FALSE, ![p] = FALSE]
      /\ UNCHANGED <<phase, online, pTrader, cancelling>>
  BY <1>1 DEF OfferChanges, SendUpdateTrade, whereVars, mapVars
<1>3. /\ acceptTrade' \in [Players -> BOOLEAN]
      /\ ~acceptTrade'[p] /\ ~acceptTrade'[pTrader[p]]
      /\ \A r \in Players \ {p, pTrader[p]} : acceptTrade'[r] = acceptTrade[r]
  BY <1>1, <1>2 DEF IInv, Types
<1> QED
  BY <1>1, <1>2, <1>3, OfferStep

\* Every step keeps the invariant, and every acceptance that stands.
LEMMA NextInv == ASSUME IInv, Next PROVE IInv' /\ TermsStand
<1>1. CASE UpdateMaps
  <2>1. phase' = "maps" /\ UNCHANGED <<online, tradeVars, cancelling>>
    BY <1>1 DEF UpdateMaps, mapVars
  <2>2. online \subseteq online' /\ online' \subseteq Players
    BY <2>1 DEF IInv, Types
  <2> QED
    BY <2>1, <2>2, WalkStep
<1>2. CASE MapsUpdated
  <2>1. /\ phase' = "world" /\ UNCHANGED <<online, tradeVars, cancelling>>
        /\ \A r \in Players : cancelling[r] = "no"
    BY <1>2 DEF MapsUpdated, mapVars
  <2>2. online \subseteq online' /\ online' \subseteq Players
    BY <2>1 DEF IInv, Types
  <2> QED
    BY <2>1, <2>2, WalkStep
<1>3. ASSUME NEW p \in Players, BeginTrade(p) PROVE IInv' /\ TermsStand
  <2>1. pTrader[p] # None /\ pTrader[p] \in Players
    BY <1>3, Partners DEF BeginTrade, Trading, IInv
  <2>2. ClearTrade({p, pTrader[p]}) /\ UNCHANGED <<phase, online, pTrader, cancelling>>
    BY <1>3 DEF BeginTrade, whereVars, mapVars
  <2>3. acceptTrade \in [Players -> BOOLEAN]
    BY DEF IInv, Types
  <2> QED
    BY <2>1, <2>2, <2>3, ClearTradeEffect, OfferStep
<1>4. ASSUME NEW p \in Players, Accept(p) PROVE IInv' /\ TermsStand
  <2>1. /\ phase = "world" /\ pTrader[p] # None
        /\ acceptTrade' = [acceptTrade EXCEPT ![p] = TRUE]
        /\ UNCHANGED <<phase, online, pTrader, tradeGold, tradeItems, cancelling>>
    BY <1>4 DEF Accept, Acceptable, Trading, Running, whereVars, mapVars
  <2> QED
    BY <2>1, AcceptStep
<1>5. ASSUME NEW p \in Players, Exchange(p) PROVE IInv' /\ TermsStand
  <2>1. /\ phase = "world" /\ pTrader[p] # None
        /\ ClearTrade({p, pTrader[p]})
        /\ pTrader' = [pTrader EXCEPT ![p] = None, ![pTrader[p]] = None]
        /\ UNCHANGED <<phase, online, cancelling>>
    BY <1>5 DEF Exchange, Acceptable, Trading, Running, whereVars, mapVars
  <2> QED
    BY <2>1, EndStep
<1>6. ASSUME NEW p \in Players, UnacceptTrade(p) PROVE IInv' /\ TermsStand
  <2>1. /\ phase = "world"
        /\ acceptTrade' = [acceptTrade EXCEPT ![p] = FALSE]
        /\ UNCHANGED <<phase, online, pTrader, tradeGold, tradeItems, cancelling>>
    BY <1>6 DEF UnacceptTrade, Trading, Running, whereVars, mapVars
  <2> QED
    BY <2>1, AcceptStep
<1>7. ASSUME NEW p \in Players, CancelTrade(p) PROVE IInv' /\ TermsStand
  <2>1. /\ phase = "world" /\ pTrader[p] # None /\ Cancelled(p)
        /\ UNCHANGED <<phase, online, cancelling>>
    BY <1>7 DEF CancelTrade, Trading, Running, whereVars, mapVars
  <2> QED
    BY <2>1, EndStep DEF Cancelled
<1>8. ASSUME NEW p \in Players, Logout(p) PROVE IInv' /\ TermsStand
  <2>1. /\ phase = "world" /\ Cancelled(p) /\ online' = online \ {p}
        /\ UNCHANGED <<phase, cancelling>>
    BY <1>8 DEF Logout, Running, mapVars
  <2>2. CASE pTrader[p] # None
    BY <2>1, <2>2, EndStep DEF Cancelled
  <2>3. CASE pTrader[p] = None
    <3>1. UNCHANGED tradeVars
      BY <2>1, <2>3 DEF Cancelled
    <3>2. PartnersAgree'
      <4> SUFFICES ASSUME NEW r \in Players, NEW q \in Players, pTrader[r] = q
                   PROVE  r # q /\ pTrader[q] = r /\ {r, q} \subseteq online \ {p}
        BY <2>1, <3>1 DEF PartnersAgree, tradeVars
      <4>1. r # q /\ pTrader[q] = r /\ {r, q} \subseteq online
        BY DEF IInv, PartnersAgree
      <4> QED
        BY <4>1, <2>3, NoneIsNobody
    <3>3. Types' /\ NoTradeNoAcceptance'
      BY <2>1, <3>1 DEF IInv, Types, NoTradeNoAcceptance, tradeVars
    <3>4. CancelInv'
      BY <2>1, <3>1 DEF IInv, CancelInv, tradeVars
    <3>5. TermsStand
      BY <3>1 DEF TermsStand, Terms, tradeVars
    <3> QED
      BY <3>2, <3>3, <3>4, <3>5 DEF IInv
  <2> QED
    BY <2>2, <2>3
<1>9. ASSUME NEW p \in Players, CheckTrader(p) PROVE IInv' /\ TermsStand
  BY <1>9, CheckStep
<1>10. ASSUME NEW p \in Players, ClearBoth(p) PROVE IInv' /\ TermsStand
  BY <1>10, ClearStep
<1>11. ASSUME NEW p \in Players, Unlink(p) PROVE IInv' /\ TermsStand
  BY <1>11, UnlinkStep
<1>12. ASSUME NEW p \in Players, FollowNull(p) PROVE IInv' /\ TermsStand
  BY <1>12, QuietStep DEF FollowNull, whereVars
<1>13. ASSUME NEW p \in Players, NEW q \in Players, InitiateTrade(p, q)
       PROVE  IInv' /\ TermsStand
  BY <1>13, InitiateStep
<1>14. ASSUME NEW p \in Players, NEW q \in Players, NotEnoughGold(p, q)
       PROVE  IInv' /\ TermsStand
  <2>1. /\ phase = "world"
        /\ acceptTrade' = [acceptTrade EXCEPT ![q] = FALSE]
        /\ UNCHANGED <<phase, online, pTrader, tradeGold, tradeItems, cancelling>>
    BY <1>14 DEF NotEnoughGold, Trading, Running, whereVars, mapVars
  <2> QED
    BY <2>1, AcceptStep
<1>15. ASSUME NEW p \in Players, NEW gold \in Gold, SetTradeGold(p, gold)
       PROVE  IInv' /\ TermsStand
  <2>1. /\ DOMAIN tradeGold' = Players /\ DOMAIN tradeItems' = Players
        /\ \A r \in Players \ {p} :
              tradeGold'[r] = tradeGold[r] /\ tradeItems'[r] = tradeItems[r]
    BY <1>15 DEF SetTradeGold, IInv, Types
  <2> QED
    BY <1>15, <2>1, OfferChangesStep DEF SetTradeGold
<1>16. ASSUME NEW p \in Players, NEW m \in 0..MAX_MONEY_AMOUNT, ModifyMoney(p, m)
       PROVE  IInv' /\ TermsStand
  BY <1>16, QuietStep DEF ModifyMoney, whereVars, mapVars
<1>17. ASSUME NEW p \in Players, NEW m \in Maps, Login(p, m) PROVE IInv' /\ TermsStand
  <2>1. /\ phase' = "world" /\ phase = "world" /\ online' = online \cup {p}
        /\ UNCHANGED <<tradeVars, cancelling>>
    BY <1>17 DEF Login, Running, mapVars
  <2> QED
    BY <2>1, WalkStep DEF IInv, Types, CancelInv
<1>18. ASSUME NEW p \in Players, NEW m \in Maps, Teleport(p, m)
       PROVE  IInv' /\ TermsStand
  BY <1>18, QuietStep DEF Teleport, mapVars
<1>19. ASSUME NEW p \in Players, NEW i \in TradeSlots, ClearTradeItem(p, i)
       PROVE  IInv' /\ TermsStand
  <2>1. /\ DOMAIN tradeGold' = Players /\ DOMAIN tradeItems' = Players
        /\ \A r \in Players \ {p} :
              tradeGold'[r] = tradeGold[r] /\ tradeItems'[r] = tradeItems[r]
    BY <1>19 DEF ClearTradeItem, IInv, Types
  <2> QED
    BY <1>19, <2>1, OfferChangesStep DEF ClearTradeItem
<1>20. ASSUME NEW p \in Players, NEW s \in Positions, NEW i \in TradeSlots,
              SetTradeItem(p, i, s)
       PROVE  IInv' /\ TermsStand
  <2>1. /\ DOMAIN tradeGold' = Players /\ DOMAIN tradeItems' = Players
        /\ \A r \in Players \ {p} :
              tradeGold'[r] = tradeGold[r] /\ tradeItems'[r] = tradeItems[r]
    BY <1>20 DEF SetTradeItem, IInv, Types
  <2> QED
    BY <1>20, <2>1, OfferChangesStep DEF SetTradeItem
<1>21. ASSUME NEW p \in Players, NEW s \in Positions, ItemGoes(p, s) \/ BindItem(p, s)
       PROVE  IInv' /\ TermsStand
  BY <1>21, QuietStep DEF ItemGoes, BindItem, whereVars, mapVars
<1>22. ASSUME NEW p \in Players, NEW s \in Positions, NEW t \in Positions, SwapItem(p, s, t)
       PROVE  IInv' /\ TermsStand
  BY <1>22, QuietStep DEF SwapItem, whereVars, mapVars
<1>23. ASSUME NEW p \in Players, NEW s \in Positions, NEW item \in Items, ItemComes(p, s, item)
       PROVE  IInv' /\ TermsStand
  BY <1>23, QuietStep DEF ItemComes, whereVars, mapVars
<1> QED
  BY <1>1, <1>2, <1>3, <1>4, <1>5, <1>6, <1>7, <1>8, <1>9, <1>10, <1>11, <1>12, <1>13,
     <1>14, <1>15, <1>16, <1>17, <1>18, <1>19, <1>20, <1>21, <1>22, <1>23 DEF Next

\* A step that changes nothing.
LEMMA StutterInv == ASSUME IInv, UNCHANGED vars PROVE IInv' /\ TermsStand
BY QuietStep DEF vars, whereVars, mapVars

\* The invariant holds in every state.
LEMMA Invariance == Spec => []IInv
<1>1. IInv /\ [Next]_vars => IInv'
  BY NextInv, StutterInv
<1> QED
  BY InitInv, <1>1, PTL DEF Spec

\* For any number of players: the two partners of a trade agree on it and are
\* in the world, whichever threads cancel (HandleInitiateTradeOpcode,
\* TradeCancel, CleanupsBeforeDelete).
THEOREM PartnersCorrect == Spec => []PartnersAgree
<1>1. IInv => PartnersAgree
  BY DEF IInv
<1> QED
  BY Invariance, <1>1, PTL

\* Items are moved by their owner or by the exchange.
MovedByOwner == \A r \in Players : UNCHANGED inventory[r] \/ MovesItems(r)

\* Who is not of the trade keeps its items in the exchange, and who is has not
\* accepted any more.
ExchangedByTraders == \E p \in Players :
    /\ pTrader[p] # None
    /\ \A r \in Players \ {p, pTrader[p]} : UNCHANGED inventory[r]
    /\ \A r \in {p, pTrader[p]} : ~acceptTrade'[r]

\* The items of an inventory.
LEMMA ItemsKinds ==
    ASSUME IInv, inventory \in [Players -> [Positions -> Items \cup {None}]], [Next]_vars
    PROVE  MovedByOwner \/ ExchangedByTraders
<1>1. ASSUME UNCHANGED inventory PROVE MovedByOwner
  BY <1>1 DEF MovedByOwner
<1>2. ASSUME NEW p \in Players, NEW s \in Positions, ItemGoes(p, s) PROVE MovedByOwner
  <2>1. MovesItems(p)
    BY <1>2 DEF MovesItems
  <2>2. \A r \in Players \ {p} : UNCHANGED inventory[r]
    BY <1>2 DEF ItemGoes
  <2> QED
    BY <2>1, <2>2 DEF MovedByOwner
<1>3. ASSUME NEW p \in Players, NEW s \in Positions, NEW t \in Positions, SwapItem(p, s, t)
      PROVE  MovedByOwner
  <2>1. MovesItems(p)
    BY <1>3 DEF MovesItems
  <2>2. \A r \in Players \ {p} : UNCHANGED inventory[r]
    BY <1>3 DEF SwapItem
  <2> QED
    BY <2>1, <2>2 DEF MovedByOwner
<1>4. ASSUME NEW p \in Players, NEW s \in Positions, NEW item \in Items, ItemComes(p, s, item)
      PROVE  MovedByOwner
  <2>1. MovesItems(p)
    BY <1>4 DEF MovesItems
  <2>2. \A r \in Players \ {p} : UNCHANGED inventory[r]
    BY <1>4 DEF ItemComes
  <2> QED
    BY <2>1, <2>2 DEF MovedByOwner
<1>5. ASSUME NEW p \in Players, Exchange(p) PROVE ExchangedByTraders
  <2>1. pTrader[p] # None /\ pTrader[p] \in Players
    BY <1>5, Partners DEF Exchange, Acceptable, Trading, IInv
  <2>2. \A r \in Players \ {p, pTrader[p]} : UNCHANGED inventory[r]
    BY <1>5, <2>1 DEF Exchange
  <2>3. \A r \in {p, pTrader[p]} : ~acceptTrade'[r]
    <3>1. ClearTrade({p, pTrader[p]})
      BY <1>5 DEF Exchange
    <3>2. acceptTrade \in [Players -> BOOLEAN] /\ {p, pTrader[p]} \in SUBSET Players
      BY <2>1 DEF IInv, Types
    <3> QED
      BY <3>1, <3>2, ClearTradeEffect, Zenon
  <2> QED
    BY <2>1, <2>2, <2>3, Zenon DEF ExchangedByTraders
<1>6. CASE UNCHANGED vars
  BY <1>1, <1>6, Zenon DEF vars, goods
<1>7. ASSUME UpdateMaps \/ MapsUpdated PROVE UNCHANGED inventory
  BY <1>7 DEF UpdateMaps, MapsUpdated, goods
<1>8. ASSUME NEW p \in Players,
             \/ BeginTrade(p) \/ Accept(p) \/ UnacceptTrade(p) \/ CancelTrade(p) \/ Logout(p)
             \/ CheckTrader(p) \/ ClearBoth(p) \/ Unlink(p) \/ FollowNull(p)
             \/ \E q \in Players : InitiateTrade(p, q) \/ NotEnoughGold(p, q)
             \/ \E gold \in Gold : SetTradeGold(p, gold)
             \/ \E m \in 0..MAX_MONEY_AMOUNT : ModifyMoney(p, m)
             \/ \E m \in Maps : Login(p, m) \/ Teleport(p, m)
             \/ \E i \in TradeSlots : ClearTradeItem(p, i)
             \/ \E s \in Positions : BindItem(p, s)
             \/ \E s \in Positions, i \in TradeSlots : SetTradeItem(p, i, s)
      PROVE  UNCHANGED inventory
  BY <1>8 DEF goods, BeginTrade, Accept, UnacceptTrade, CancelTrade, Logout, CheckTrader, ClearBoth,
              Unlink, FollowNull, InitiateTrade, NotEnoughGold, SetTradeGold, ModifyMoney, Login,
              Teleport, ClearTradeItem, BindItem, SetTradeItem, OfferChanges
<1>9. CASE Next
  BY <1>1, <1>2, <1>3, <1>4, <1>5, <1>7, <1>8, <1>9, Zenon DEF Next
<1> QED
  BY <1>6, <1>9

\* Positions that stay and an inventory that stays show the same.
LEMMA ShownStays ==
    ASSUME NEW r \in Players, UNCHANGED Terms(r), UNCHANGED inventory[r] \/ MovesItems(r)
    PROVE  OfferStands(r)
<1>1. CASE MovesItems(r)
  BY <1>1 DEF OfferStands
<1>2. CASE UNCHANGED inventory[r]
  <2>1. UNCHANGED tradeItems[r]
    BY DEF Terms
  <2>2. UNCHANGED Shown(r)
    BY <1>2, <2>1 DEF Shown
  <2> QED
    BY <2>2 DEF OfferStands
<1> QED
  BY <1>1, <1>2

\* Every step keeps what was accepted.
LEMMA AcceptanceNext ==
    ASSUME IInv, inventory \in [Players -> [Positions -> Items \cup {None}]], [Next]_vars
    PROVE  AcceptanceStands
<1>1. TermsStand
  BY NextInv, StutterInv
<1>2. ASSUME NEW p \in Players, acceptTrade[p], acceptTrade'[p]
      PROVE  /\ UNCHANGED pTrader[p] /\ OfferStands(p)
             /\ \A q \in Players : pTrader[p] = q => OfferStands(q)
  <2>1. /\ UNCHANGED <<pTrader[p], Terms(p)>>
        /\ \A q \in Players : pTrader[p] = q => UNCHANGED Terms(q)
    BY <1>1, <1>2 DEF TermsStand
  <2>2. ASSUME NEW r \in Players, r = p \/ r = pTrader[p]
        PROVE  UNCHANGED inventory[r] \/ MovesItems(r)
    <3>1. CASE MovedByOwner
      BY <3>1 DEF MovedByOwner
    <3>2. CASE ExchangedByTraders
      <4>1. PICK t \in Players :
               /\ pTrader[t] # None
               /\ \A u \in Players \ {t, pTrader[t]} : UNCHANGED inventory[u]
               /\ \A u \in {t, pTrader[t]} : ~acceptTrade'[u]
        BY <3>2 DEF ExchangedByTraders
      <4>2. \A u \in Players : pTrader[u] \in {t, pTrader[t]} => u \in {t, pTrader[t]}
        BY <4>1, Partners DEF IInv
      <4>3. p \notin {t, pTrader[t]}
        BY <4>1, <1>2
      <4>4. r \notin {t, pTrader[t]}
        BY <4>2, <4>3, <2>2
      <4> QED
        BY <4>1, <4>4
    <3> QED
      BY <3>1, <3>2, ItemsKinds
  <2> QED
    BY <2>1, <2>2, ShownStays
<1> QED
  BY <1>2 DEF AcceptanceStands

-----------------------------------------------------------------------------
(* The exchange of the items.                                              *)

\* A set of natural numbers that is not empty has a least element.
LEMMA LeastNatural ==
  ASSUME NEW T \in SUBSET Nat, T # {}
  PROVE  \E n \in T : \A m \in T : ~(m < n)
<1>1. IsWellFoundedOn(OpToRel(<, Nat), Nat)
  BY NatLessThanWellFounded
<1>2. \E n \in T : \A m \in T : ~(<<m, n>> \in OpToRel(<, Nat))
  BY <1>1, WFMin
<1> QED
  BY <1>2 DEF OpToRel

Inventories == [Positions -> Items \cup {None}]
NothingTwice(inv) == \A s, t \in Positions : inv[s] = inv[t] /\ inv[s] # None => s = t
Free(p, inv) == {s \in Room(p) : inv[s] = None}

\* The empty value is neither an item, nor a position, nor a player.
LEMMA NoneIsNoThing == None \notin Items /\ None \notin Positions /\ None \notin Players
<1>1. None \notin Int /\ Positions \subseteq Int
  BY TradeAssumption, SMTT(30)
<1> QED
  BY <1>1, TradeAssumption, Zenon

\* The free positions of an inventory can be counted.
LEMMA RoomIsFinite ==
    ASSUME NEW p \in Players, NEW inv
    PROVE  /\ Room(p) \subseteq Positions /\ Free(p, inv) \subseteq Positions
           /\ IsFiniteSet(Free(p, inv))
<1>1. Room(p) \subseteq Positions /\ Free(p, inv) \subseteq Positions
  BY DEF Room, Free
<1>2. IsFiniteSet(Positions)
  BY TradeAssumption
<1> QED
  BY <1>1, <1>2, FS_Subset

\* An item that finds room is put in a position that was free.
LEMMA StoreEffect ==
    ASSUME NEW p \in Players, NEW inv \in Inventories, NEW item \in Items,
           HasRoom(p, inv, item)
    PROVE  \E s \in Free(p, inv) : Store(p, inv, item) = [inv EXCEPT ![s] = item]
<1>1. item # None
  BY NoneIsNoThing
<1>2. Free(p, inv) # {}
  BY <1>1 DEF HasRoom, Free
<1>3. Free(p, inv) \in SUBSET Nat
  BY RoomIsFinite, TradeAssumption
<1>4. PICK s \in Free(p, inv) : \A t \in Free(p, inv) : ~(t < s)
  BY <1>2, <1>3, LeastNatural
<1>5. \A t \in Free(p, inv) : s <= t
  BY <1>3, <1>4
<1> DEFINE IsFirst(n) == inv[n] = None /\ \A t \in Room(p) : inv[t] = None => n <= t
           first == CHOOSE n \in Room(p) : IsFirst(n)
<1>6. s \in Room(p) /\ IsFirst(s)
  BY <1>4, <1>5 DEF Free
<1>7. first \in Room(p) /\ IsFirst(first)
  <2> HIDE DEF IsFirst
  <2> QED
    BY <1>6, Zenon
<1>8. first \in Free(p, inv)
  BY <1>7 DEF Free
<1>9. Store(p, inv, item) = [inv EXCEPT ![first] = item]
  BY <1>1 DEF Store
<1> QED
  BY <1>8, <1>9

\* What p has handed over after the first i slots, and what it has still to hand over.
Handed(p, i) == {Given(p)[j] : j \in 1..i} \ {None}
Due(p, i) == {j \in (i + 1)..Traded : Given(p)[j] # None}

\* The inventory of p after the first i slots of its exchange with q: what p
\* keeps and what q has handed over, and room for what comes.
Side(p, q, mine, i) ==
    /\ mine \in Inventories
    /\ NothingTwice(mine)
    /\ Held(mine) = Held(Remaining(p)) \cup Handed(q, i)
    /\ Cardinality(Due(q, i)) <= Cardinality(Free(p, mine))

OfferTypes ==
    /\ tradeGold \in [Players -> Gold]
    /\ tradeItems \in [Players -> [TradeSlots -> Positions \cup {None}]]

GoodsTypes ==
    /\ inventory \in [Players -> Inventories]
    /\ money \in [Players -> 0..MAX_MONEY_AMOUNT]
    /\ soulbound \subseteq Items

\* A player offers a position once.
OffersDiffer ==
    \A p \in Players : \A i, j \in TradeSlots :
        tradeItems[p][i] = tradeItems[p][j] /\ tradeItems[p][i] # None => i = j

GoodsInv == OfferTypes /\ GoodsTypes /\ OffersDiffer /\ NoItemTwice

\* No item is in two positions of one player.
LEMMA OnePosition ==
    ASSUME NoItemTwice, NEW p \in Players
    PROVE  NothingTwice(inventory[p])
BY DEF NoItemTwice, NothingTwice

\* What is given in a slot is the item in a position of the giver, and no other
\* slot gives it.
LEMMA GivenItems ==
    ASSUME GoodsInv, NEW p \in Players, NEW i \in TradedSlots
    PROVE  /\ Given(p)[i] \in Items \cup {None}
           /\ Given(p)[i] # None =>
                 /\ tradeItems[p][i] \in Positions
                 /\ Given(p)[i] = inventory[p][tradeItems[p][i]]
                 /\ Given(p)[i] \in Held(inventory[p])
                 /\ \A j \in TradedSlots : Given(p)[j] = Given(p)[i] => j = i
<1>1. \A j \in TradedSlots : j \in TradeSlots /\ tradeItems[p][j] \in Positions \cup {None}
  <2>1. \A j \in TradedSlots : j \in TradeSlots
    BY TradeAssumption DEF TradedSlots, TradeSlots
  <2> QED
    BY <2>1 DEF GoodsInv, OfferTypes
<1>2. \A j \in TradedSlots : Given(p)[j] =
          IF tradeItems[p][j] = None THEN None ELSE inventory[p][tradeItems[p][j]]
  BY DEF Given
<1>3. \A s \in Positions : inventory[p][s] \in Items \cup {None}
  BY DEF GoodsInv, GoodsTypes, Inventories
<1>4. Given(p)[i] \in Items \cup {None}
  BY <1>1, <1>2, <1>3
<1>5. ASSUME Given(p)[i] # None
      PROVE  /\ tradeItems[p][i] \in Positions
             /\ Given(p)[i] = inventory[p][tradeItems[p][i]]
             /\ Given(p)[i] \in Held(inventory[p])
             /\ \A j \in TradedSlots : Given(p)[j] = Given(p)[i] => j = i
  <2>1. tradeItems[p][i] \in Positions /\ Given(p)[i] = inventory[p][tradeItems[p][i]]
    BY <1>1, <1>2, <1>5
  <2>2. Given(p)[i] \in Held(inventory[p])
    BY <1>5, <2>1 DEF Held
  <2>3. ASSUME NEW j \in TradedSlots, Given(p)[j] = Given(p)[i] PROVE j = i
    <3>1. tradeItems[p][j] \in Positions /\ Given(p)[j] = inventory[p][tradeItems[p][j]]
      BY <1>1, <1>2, <1>5, <2>3
    <3>2. tradeItems[p][j] = tradeItems[p][i]
      BY <1>5, <2>1, <2>3, <3>1, OnePosition DEF GoodsInv, NothingTwice
    <3>3. tradeItems[p][i] # None
      BY <2>1, NoneIsNoThing
    <3> QED
      BY <1>1, <3>2, <3>3 DEF GoodsInv, OffersDiffer
  <2> QED
    BY <2>1, <2>2, <2>3
<1> QED
  BY <1>4, <1>5

\* The items a player keeps are those that it does not give.
LEMMA RemainingItems ==
    ASSUME GoodsInv, NEW p \in Players
    PROVE  /\ Remaining(p) \in Inventories /\ NothingTwice(Remaining(p))
           /\ Held(Remaining(p)) = Held(inventory[p]) \ Gives(p)
<1>0. inventory[p] \in Inventories
  BY DEF GoodsInv, GoodsTypes
<1>1. Remaining(p) \in Inventories
  BY <1>0 DEF Remaining, Inventories
<1>2. \A s \in Positions : Remaining(p)[s] =
          IF \E i \in TradedSlots : tradeItems[p][i] = s THEN None ELSE inventory[p][s]
  BY DEF Remaining
<1>3. NothingTwice(Remaining(p))
  BY <1>2 DEF NothingTwice, GoodsInv, NoItemTwice
<1>4. ASSUME NEW x \in Held(Remaining(p)) PROVE x \in Held(inventory[p]) \ Gives(p)
  <2>1. PICK s \in Positions : x = Remaining(p)[s] /\ x # None
    BY <1>4 DEF Held
  <2>2. x = inventory[p][s] /\ ~\E i \in TradedSlots : tradeItems[p][i] = s
    BY <1>2, <2>1
  <2>3. ASSUME NEW i \in TradedSlots, Given(p)[i] = x PROVE FALSE
    <3>1. tradeItems[p][i] \in Positions /\ x = inventory[p][tradeItems[p][i]]
      BY <2>1, <2>3, GivenItems
    <3>2. tradeItems[p][i] = s
      BY <2>1, <2>2, <3>1, OnePosition DEF GoodsInv, NothingTwice
    <3> QED
      BY <2>2, <3>2
  <2> QED
    BY <2>1, <2>2, <2>3 DEF Held, Gives
<1>5. ASSUME NEW x \in Held(inventory[p]) \ Gives(p) PROVE x \in Held(Remaining(p))
  <2>1. PICK s \in Positions : x = inventory[p][s] /\ x # None
    BY <1>5 DEF Held
  <2>2. ASSUME NEW i \in TradedSlots, tradeItems[p][i] = s PROVE FALSE
    <3>1. Given(p)[i] = x
      BY <2>1, <2>2, NoneIsNoThing DEF Given
    <3> QED
      BY <2>1, <3>1, <1>5 DEF Gives
  <2>3. x = Remaining(p)[s]
    BY <1>2, <2>1, <2>2
  <2> QED
    BY <2>1, <2>3 DEF Held
<1> QED
  BY <1>1, <1>3, <1>4, <1>5

\* Before the first slot: what is offered fits.
LEMMA SideBegins ==
    ASSUME GoodsInv, NEW p \in Players, NEW q \in Players, CanStoreItems(p, q)
    PROVE  Side(p, q, Remaining(p), 0)
<1>1. Handed(q, 0) = {}
  BY DEF Handed
<1>2. Due(q, 0) = {i \in TradedSlots : Given(q)[i] # None}
  BY DEF Due, TradedSlots
<1>3. Cardinality(Due(q, 0)) <= Cardinality(Free(p, Remaining(p)))
  BY <1>2 DEF CanStoreItems, Free
<1> QED
  BY <1>1, <1>3, RemainingItems DEF Side

\* The next slot: its item finds room, and the inventory is the one after the slot.
LEMMA SideStep ==
    ASSUME GoodsInv, NEW p \in Players, NEW q \in Players, p # q,
           NEW i \in TradedSlots, NEW mine, Side(p, q, mine, i - 1)
    PROVE  /\ HasRoom(p, mine, Given(q)[i])
           /\ Side(p, q, Store(p, mine, Given(q)[i]), i)
<1> DEFINE item == Given(q)[i]
<1>0. i \in 1..Traded /\ i - 1 + 1 = i /\ Traded \in Nat
  BY TradeAssumption DEF TradedSlots
<1>1. mine \in Inventories /\ NothingTwice(mine)
  BY DEF Side
<1>2. /\ IsFiniteSet(Due(q, i)) /\ IsFiniteSet(Due(q, i - 1)) /\ IsFiniteSet(Free(p, mine))
      /\ Cardinality(Due(q, i)) \in Nat /\ Cardinality(Free(p, mine)) \in Nat
  <2>1. Due(q, i) \subseteq 1..Traded /\ Due(q, i - 1) \subseteq 1..Traded
    BY <1>0 DEF Due
  <2>2. IsFiniteSet(1..Traded)
    BY <1>0, FS_Interval
  <2>3. IsFiniteSet(Due(q, i)) /\ IsFiniteSet(Due(q, i - 1)) /\ IsFiniteSet(Free(p, mine))
    BY <2>1, <2>2, FS_Subset, RoomIsFinite
  <2> QED
    BY <2>3, FS_CardinalityType
<1>3. Cardinality(Due(q, i - 1)) <= Cardinality(Free(p, mine))
  BY DEF Side
<1>4. CASE item = None
  <2>1. HasRoom(p, mine, item) /\ Store(p, mine, item) = mine
    BY <1>4 DEF HasRoom, Store
  <2>2. Handed(q, i) = Handed(q, i - 1)
    BY <1>0, <1>4 DEF Handed
  <2>3. Due(q, i) = Due(q, i - 1)
    BY <1>0, <1>4 DEF Due
  <2> QED
    BY <2>1, <2>2, <2>3 DEF Side
<1>5. CASE item # None
  <2>1. item \in Items
    BY <1>5, GivenItems
  <2>2. Due(q, i - 1) = Due(q, i) \cup {i} /\ i \notin Due(q, i)
    BY <1>0, <1>5 DEF Due
  <2>3. Cardinality(Due(q, i - 1)) = Cardinality(Due(q, i)) + 1
    BY <2>2, <1>2, FS_AddElement
  <2>4. Free(p, mine) # {}
    BY <1>2, <1>3, <2>3, FS_EmptySet
  <2>5. HasRoom(p, mine, item)
    BY <2>4 DEF HasRoom, Free
  <2>6. PICK s \in Free(p, mine) : Store(p, mine, item) = [mine EXCEPT ![s] = item]
    BY <1>1, <2>1, <2>5, StoreEffect
  <2> DEFINE next == Store(p, mine, item)
  <2>7. s \in Positions /\ mine[s] = None
    BY RoomIsFinite DEF Free
  <2>8. next \in Inventories /\ \A t \in Positions : next[t] = IF t = s THEN item ELSE mine[t]
    BY <1>1, <2>1, <2>6, <2>7 DEF Inventories
  <2>9. item \notin Held(mine)
    <3>1. item \notin Held(Remaining(p))
      <4> SUFFICES ASSUME item \in Held(Remaining(p)) PROVE FALSE
        OBVIOUS
      <4>1. item \in Held(inventory[p])
        BY RemainingItems
      <4>2. item \in Held(inventory[q])
        BY <1>5, GivenItems
      <4>3. PICK t \in Positions : item = inventory[p][t]
        BY <4>1 DEF Held
      <4>4. PICK u \in Positions : item = inventory[q][u]
        BY <4>2 DEF Held
      <4>5. inventory[p][t] = inventory[q][u] /\ inventory[p][t] # None => p = q
        BY DEF GoodsInv, NoItemTwice
      <4> QED
        BY <4>3, <4>4, <4>5, <1>5
    <3>2. item \notin Handed(q, i - 1)
      <4> SUFFICES ASSUME NEW j \in 1..(i - 1), Given(q)[j] = item PROVE FALSE
        BY DEF Handed
      <4>1. j \in TradedSlots /\ j # i
        BY <1>0 DEF TradedSlots
      <4> QED
        BY <4>1, <1>5, GivenItems
    <3> QED
      BY <3>1, <3>2 DEF Side
  <2>10. NothingTwice(next)
    <3> SUFFICES ASSUME NEW t \in Positions, NEW u \in Positions,
                        next[t] = next[u], next[t] # None
                 PROVE  t = u
      BY DEF NothingTwice
    <3>1. \A v \in Positions : mine[v] # None => mine[v] # item
      BY <2>9, <1>5 DEF Held
    <3>2. mine[t] = mine[u] /\ mine[t] # None => t = u
      BY <1>1 DEF NothingTwice
    <3> HIDE DEF next, item
    <3> QED
      BY <3>1, <3>2, <2>8, <1>5
  <2>11. Held(next) = Held(mine) \cup {item}
    <3>1. \A x : x \in Held(mine) <=> \E t \in Positions : x = mine[t] /\ x # None
      BY DEF Held
    <3>2. \A x : x \in Held(next) <=> \E t \in Positions : x = next[t] /\ x # None
      BY DEF Held
    <3> HIDE DEF next, item
    <3>3. ASSUME NEW x \in Held(next) PROVE x \in Held(mine) \cup {item}
      BY <3>1, <3>2, <2>8
    <3>4. ASSUME NEW x \in Held(mine) PROVE x \in Held(next)
      <4>1. PICK t \in Positions : x = mine[t] /\ x # None
        BY <3>1
      <4>2. next[t] = x
        BY <4>1, <2>7, <2>8
      <4> QED
        BY <4>1, <4>2, <3>2
    <3>5. item \in Held(next)
      <4>1. next[s] = item
        BY <2>7, <2>8
      <4> QED
        BY <4>1, <1>5, <2>7, <3>2
    <3> QED
      BY <3>3, <3>4, <3>5
  <2>12. Handed(q, i) = Handed(q, i - 1) \cup {item}
    <3>1. 1..i = 1..(i - 1) \cup {i}
      BY <1>0
    <3> QED
      BY <3>1, <1>5 DEF Handed
  <2>13. Held(next) = Held(Remaining(p)) \cup Handed(q, i)
    <3>1. Held(mine) = Held(Remaining(p)) \cup Handed(q, i - 1)
      BY DEF Side
    <3> QED
      BY <3>1, <2>11, <2>12
  <2>14. Cardinality(Due(q, i)) <= Cardinality(Free(p, next))
    <3>1. Free(p, next) = Free(p, mine) \ {s}
      <4>1. \A t \in Room(p) : t \in Positions
        BY RoomIsFinite
      <4> HIDE DEF next
      <4> QED
        BY <4>1, <2>8, <1>5 DEF Free
    <3>2. Cardinality(Free(p, next)) = Cardinality(Free(p, mine)) - 1
      BY <3>1, <1>2, FS_RemoveElement
    <3> HIDE DEF next
    <3> QED
      BY <3>2, <2>3, <1>2, <1>3
  <2> QED
    BY <2>5, <2>8, <2>10, <2>13, <2>14 DEF Side
<1> QED
  BY <1>4, <1>5

\* One slot of moveItems.
Moved(p, q, pair, i) ==
    LET mine == pair[1]  his == pair[2]
        my == Given(p)[i]  hs == Given(q)[i]
    IN  IF HasRoom(q, his, my) /\ HasRoom(p, mine, hs)
        THEN <<Store(p, mine, hs), Store(q, his, my)>>
        ELSE <<Store(p, mine, my), Store(q, his, hs)>>

\* The function that MoveItems defines exists: its values can be computed one after
\* the other.
LEMMA MoveRecursion ==
    ASSUME NEW p, NEW q
    PROVE  \E m : /\ m = [i \in 0..Traded |-> IF i = 0 THEN <<Remaining(p), Remaining(q)>>
                                              ELSE Moved(p, q, m[i - 1], i)]
                  /\ MoveItems(p, q) = m[Traded]
<1> DEFINE first == <<Remaining(p), Remaining(q)>>
           Moves(k) == \E m : m = [i \in 0..k |-> IF i = 0 THEN first
                                                  ELSE Moved(p, q, m[i - 1], i)]
           Bad == {k \in Nat : ~Moves(k)}
<1>1. Bad = {}
  <2> SUFFICES ASSUME Bad # {} PROVE FALSE
    OBVIOUS
  <2>1. PICK k \in Bad : \A n \in Bad : ~(n < k)
    BY LeastNatural
  <2>2. CASE k = 0
    <3>1. Moves(0)
      <4> DEFINE m == [i \in 0..0 |-> first]
      <4>1. m = [i \in 0..0 |-> IF i = 0 THEN first ELSE Moved(p, q, m[i - 1], i)]
        <5>1. \A i \in 0..0 : i = 0
          BY SMTT(30)
        <5> HIDE DEF first
        <5> QED
          BY <5>1, Zenon
      <4> QED
        BY <4>1
    <3> QED
      BY <2>1, <2>2, <3>1
  <2>3. CASE k # 0
    <3>1. k \in Nat /\ k - 1 \in Nat /\ k - 1 < k
      BY <2>3, SMTT(30)
    <3>2. Moves(k - 1)
      BY <2>1, <3>1
    <3>3. PICK g : g = [i \in 0..(k - 1) |-> IF i = 0 THEN first ELSE Moved(p, q, g[i - 1], i)]
      BY <3>2
    <3> DEFINE m == [i \in 0..k |-> IF i = 0 THEN first ELSE Moved(p, q, g[i - 1], i)]
    <3> HIDE DEF first
    <3>4. ASSUME NEW i \in 0..(k - 1) PROVE m[i] = g[i]
      <4>1. i \in 0..k
        BY <3>1, SMTT(30)
      <4>2. g[i] = [j \in 0..(k - 1) |-> IF j = 0 THEN first ELSE Moved(p, q, g[j - 1], j)][i]
        BY <3>3, Zenon
      <4> QED
        BY <4>1, <4>2
    <3>5. \A i \in 0..k : i # 0 => i - 1 \in 0..(k - 1)
      BY <3>1, SMTT(30)
    <3>6. m = [i \in 0..k |-> IF i = 0 THEN first ELSE Moved(p, q, m[i - 1], i)]
      <4>1. ASSUME NEW i \in 0..k, i # 0 PROVE m[i - 1] = g[i - 1]
        BY <4>1, <3>4, <3>5, Zenon
      <4> QED
        BY <4>1, Zenon
    <3>7. Moves(k)
      BY <3>6, Zenon DEF first
    <3> QED
      BY <2>1, <3>7
  <2> QED
    BY <2>2, <2>3
<1> DEFINE IsMoves(m) == m = [i \in 0..Traded |-> IF i = 0 THEN first ELSE Moved(p, q, m[i - 1], i)]
           moves == CHOOSE m : IsMoves(m)
<1>2. \E m : IsMoves(m)
  BY <1>1, TradeAssumption
<1>3. IsMoves(moves)
  <2> HIDE DEF IsMoves
  <2> QED
    BY <1>2, Zenon
<1>4. MoveItems(p, q) = moves[Traded]
  BY Zenon DEF MoveItems, Moved
<1> QED
  BY <1>3, <1>4, Zenon

\* What moveItems returns, where both have room: the inventories after the last slot.
LEMMA MoveItemsEffect ==
    ASSUME GoodsInv, NEW p \in Players, NEW q \in Players, p # q, CanComplete(p, q)
    PROVE  /\ Side(p, q, MoveItems(p, q)[1], Traded)
           /\ Side(q, p, MoveItems(p, q)[2], Traded)
<1>1. PICK m : /\ m = [i \in 0..Traded |-> IF i = 0 THEN <<Remaining(p), Remaining(q)>>
                                           ELSE Moved(p, q, m[i - 1], i)]
               /\ MoveItems(p, q) = m[Traded]
  BY MoveRecursion, Zenon
<1>2. Traded \in Nat
  BY TradeAssumption
<1> DEFINE Both(i) == Side(p, q, m[i][1], i) /\ Side(q, p, m[i][2], i)
           Bad == {i \in 0..Traded : ~Both(i)}
<1>3. \A i \in 0..Traded : m[i] =
          IF i = 0 THEN <<Remaining(p), Remaining(q)>> ELSE Moved(p, q, m[i - 1], i)
  <2> TAKE i \in 0..Traded
  <2>1. m[i] = [j \in 0..Traded |-> IF j = 0 THEN <<Remaining(p), Remaining(q)>>
                                    ELSE Moved(p, q, m[j - 1], j)][i]
    BY <1>1, Zenon
  <2> QED
    BY <2>1, Zenon
<1>4. Both(0)
  <2>1. m[0] = <<Remaining(p), Remaining(q)>>
    BY <1>2, <1>3
  <2>2. m[0][1] = Remaining(p) /\ m[0][2] = Remaining(q)
    BY <2>1
  <2> QED
    BY <2>2, SideBegins DEF CanComplete
<1>5. ASSUME NEW i \in 1..Traded, Both(i - 1) PROVE Both(i)
  <2>1. m[i] = Moved(p, q, m[i - 1], i)
    BY <1>2, <1>3
  <2>2. i \in TradedSlots
    BY DEF TradedSlots
  <2>3. /\ HasRoom(p, m[i - 1][1], Given(q)[i])
        /\ Side(p, q, Store(p, m[i - 1][1], Given(q)[i]), i)
    BY <1>5, <2>2, SideStep
  <2>4. /\ HasRoom(q, m[i - 1][2], Given(p)[i])
        /\ Side(q, p, Store(q, m[i - 1][2], Given(p)[i]), i)
    BY <1>5, <2>2, SideStep
  <2>5. m[i] = <<Store(p, m[i - 1][1], Given(q)[i]), Store(q, m[i - 1][2], Given(p)[i])>>
    BY <2>1, <2>3, <2>4, Zenon DEF Moved
  <2>6. /\ m[i][1] = Store(p, m[i - 1][1], Given(q)[i])
        /\ m[i][2] = Store(q, m[i - 1][2], Given(p)[i])
    BY <2>5
  <2> QED
    BY <2>3, <2>4, <2>6
<1>6. Bad = {}
  <2> SUFFICES ASSUME Bad # {} PROVE FALSE
    OBVIOUS
  <2> HIDE DEF Both
  <2>1. Bad \in SUBSET Nat
    BY SMTT(30)
  <2>2. PICK i \in Bad : \A j \in Bad : ~(j < i)
    BY <2>1, LeastNatural
  <2>3. i # 0 /\ i \in 0..Traded /\ ~Both(i)
    BY <2>2, <1>4
  <2>4. i \in 1..Traded /\ i - 1 \in 0..Traded /\ i - 1 < i
    BY <2>3, <1>2, SMTT(30)
  <2>5. Both(i - 1)
    BY <2>2, <2>4
  <2> QED
    BY <2>3, <2>4, <2>5, <1>5
<1>7. Both(Traded)
  BY <1>2, <1>6
<1> QED
  BY <1>1, <1>7

\* The money after an exchange: the offers were covered.
LEMMA MoneyExchanged ==
    ASSUME NEW m \in 0..MAX_MONEY_AMOUNT, NEW d \in 0..MAX_MONEY_AMOUNT,
           NEW e \in 0..MAX_MONEY_AMOUNT, d <= m
    PROVE  /\ MoreMoney(LessMoney(m, d), e) = Capped(m - d + e)
           /\ MoreMoney(LessMoney(m, d), e) \in 0..MAX_MONEY_AMOUNT
<1>0. MAX_MONEY_AMOUNT \in Nat
  BY TradeAssumption
<1>1. LessMoney(m, d) = m - d
  BY <1>0 DEF LessMoney
<1>2. MoreMoney(m - d, e) = Capped(m - d + e) /\ MoreMoney(m - d, e) \in 0..MAX_MONEY_AMOUNT
  BY <1>0 DEF MoreMoney, Capped
<1> QED
  BY <1>1, <1>2

\* After the last slot a player holds what it has kept and what the other gave.
LEMMA SideEnds ==
    ASSUME GoodsInv, NEW p \in Players, NEW q \in Players, NEW mine,
           Side(p, q, mine, Traded)
    PROVE  Held(mine) = (Held(inventory[p]) \ Gives(p)) \cup Gives(q)
<1>1. Handed(q, Traded) = Gives(q)
  BY DEF Handed, Gives, TradedSlots
<1> QED
  BY <1>1, RemainingItems DEF Side

\* The exchange keeps the goods sound, and is of the offers.
LEMMA ExchangeStep ==
    ASSUME IInv, GoodsInv, NEW p \in Players, Exchange(p)
    PROVE  /\ GoodsTypes' /\ NoItemTwice'
           /\ Exchanged(p, pTrader[p]) /\ Exchanged(pTrader[p], p)
<1> DEFINE q == pTrader[p]
           a == MoveItems(p, q)[1]
           b == MoveItems(p, q)[2]
<1>1. pTrader[p] # None
  BY DEF Exchange, Acceptable, Trading
<1>2. q \in Players /\ q # p
  BY <1>1, Partners DEF IInv
<1>3. EnoughGold(p) /\ EnoughGold(q) /\ CanComplete(p, q)
  BY DEF Exchange, Acceptable
<1>4. Side(p, q, a, Traded) /\ Side(q, p, b, Traded)
  BY <1>2, <1>3, MoveItemsEffect
<1>5. /\ inventory' = [inventory EXCEPT ![p] = a, ![q] = b]
      /\ money' = [money EXCEPT ![p] = MoreMoney(LessMoney(money[p], tradeGold[p]), tradeGold[q]),
                                ![q] = MoreMoney(LessMoney(money[q], tradeGold[q]), tradeGold[p])]
      /\ pTrader' = [pTrader EXCEPT ![p] = None, ![q] = None]
      /\ soulbound' = soulbound
  BY DEF Exchange
<1> HIDE DEF a, b, q
<1>6. /\ a \in Inventories /\ b \in Inventories /\ NothingTwice(a) /\ NothingTwice(b)
      /\ Held(a) = (Held(inventory[p]) \ Gives(p)) \cup Gives(q)
      /\ Held(b) = (Held(inventory[q]) \ Gives(q)) \cup Gives(p)
  <2>1. a \in Inventories /\ b \in Inventories /\ NothingTwice(a) /\ NothingTwice(b)
    BY <1>4 DEF Side
  <2> QED
    BY <1>2, <1>4, <2>1, SideEnds
<1>7. \A r \in Players : inventory'[r] = IF r = p THEN a ELSE IF r = q THEN b ELSE inventory[r]
  BY <1>2, <1>5 DEF GoodsInv, GoodsTypes
<1>8. \A r \in Players : /\ money[r] \in 0..MAX_MONEY_AMOUNT
                         /\ tradeGold[r] \in 0..MAX_MONEY_AMOUNT
  BY DEF GoodsInv, GoodsTypes, OfferTypes, Gold
<1>9. /\ money'[p] = Capped(money[p] - tradeGold[p] + tradeGold[q])
      /\ money'[q] = Capped(money[q] - tradeGold[q] + tradeGold[p])
      /\ money' \in [Players -> 0..MAX_MONEY_AMOUNT]
  <2>1. /\ MoreMoney(LessMoney(money[p], tradeGold[p]), tradeGold[q])
              = Capped(money[p] - tradeGold[p] + tradeGold[q])
        /\ MoreMoney(LessMoney(money[p], tradeGold[p]), tradeGold[q]) \in 0..MAX_MONEY_AMOUNT
    BY <1>2, <1>3, <1>8, MoneyExchanged DEF EnoughGold
  <2>2. /\ MoreMoney(LessMoney(money[q], tradeGold[q]), tradeGold[p])
              = Capped(money[q] - tradeGold[q] + tradeGold[p])
        /\ MoreMoney(LessMoney(money[q], tradeGold[q]), tradeGold[p]) \in 0..MAX_MONEY_AMOUNT
    BY <1>2, <1>3, <1>8, MoneyExchanged DEF EnoughGold
  <2>3. money \in [Players -> 0..MAX_MONEY_AMOUNT]
    BY DEF GoodsInv, GoodsTypes
  <2> QED
    BY <1>2, <1>5, <2>1, <2>2, <2>3
<1>10. pTrader'[p] = None /\ pTrader'[q] = None
  BY <1>2, <1>5 DEF IInv, Types
<1>11. GoodsTypes'
  <2>1. inventory' \in [Players -> Inventories]
    BY <1>2, <1>5, <1>6 DEF GoodsInv, GoodsTypes
  <2>2. soulbound' \subseteq Items
    BY <1>5 DEF GoodsInv, GoodsTypes
  <2> QED
    BY <1>9, <2>1, <2>2 DEF GoodsTypes
<1>12. Exchanged(p, q) /\ Exchanged(q, p)
  <2>1. inventory'[p] = a /\ inventory'[q] = b
    BY <1>2, <1>7
  <2> QED
    BY <1>6, <1>9, <1>10, <2>1 DEF Exchanged
<1>13. NoItemTwice'
  <2>1. \A r \in Players : NothingTwice(inventory[r])
    BY OnePosition DEF GoodsInv
  <2>2. \A r \in Players : NothingTwice(inventory'[r])
    BY <1>6, <1>7, <2>1
  <2>3. \A r, t \in Players : \A x : x \in Held(inventory[r]) /\ x \in Held(inventory[t]) => r = t
    BY DEF GoodsInv, NoItemTwice, Held
  <2>4. \A r \in Players : Gives(r) \subseteq Held(inventory[r])
    <3> SUFFICES ASSUME NEW r \in Players, NEW i \in TradedSlots, Given(r)[i] # None
                 PROVE  Given(r)[i] \in Held(inventory[r])
      BY DEF Gives
    <3> QED
      BY GivenItems
  <2>5. \A r \in Players : r \notin {p, q} => Held(inventory'[r]) = Held(inventory[r])
    BY <1>7
  <2>6. Held(inventory'[p]) = Held(a) /\ Held(inventory'[q]) = Held(b)
    BY <1>2, <1>7
  <2>7. ASSUME NEW r \in Players, NEW t \in Players, NEW x,
               x \in Held(inventory'[r]), x \in Held(inventory'[t])
        PROVE  r = t
    <3>1. Gives(p) \subseteq Held(inventory[p]) /\ Gives(q) \subseteq Held(inventory[q])
      BY <1>2, <2>4
    <3>2. CASE r \notin {p, q} /\ t \notin {p, q}
      BY <2>3, <2>5, <2>7, <3>2
    <3>3. ASSUME NEW v \in Players, NEW w \in {p, q}, v \notin {p, q},
                 x \in Held(inventory'[v]), x \in Held(inventory'[w])
          PROVE  FALSE
      <4>1. x \in Held(inventory[v])
        BY <2>5, <3>3
      <4>2. x \in Held(inventory[p]) \/ x \in Held(inventory[q])
        BY <1>6, <2>6, <3>1, <3>3
      <4> QED
        BY <1>2, <2>3, <3>3, <4>1, <4>2
    <3>4. ~(x \in Held(inventory'[p]) /\ x \in Held(inventory'[q]))
      <4>1. ~(x \in Held(inventory[p]) /\ x \in Held(inventory[q]))
        BY <1>2, <2>3
      <4> QED
        BY <1>6, <2>6, <3>1, <4>1
    <3> QED
      BY <2>7, <3>2, <3>3, <3>4
  <2> SUFFICES ASSUME NEW r \in Players, NEW t \in Players, NEW s \in Positions, NEW u \in Positions,
                      inventory'[r][s] = inventory'[t][u], inventory'[r][s] # None
               PROVE  r = t /\ s = u
    BY DEF NoItemTwice
  <2>8. inventory'[r][s] \in Held(inventory'[r]) /\ inventory'[r][s] \in Held(inventory'[t])
    BY DEF Held
  <2>9. r = t
    BY <2>7, <2>8
  <2> QED
    BY <2>2, <2>9 DEF NothingTwice
<1> QED
  BY <1>11, <1>12, <1>13 DEF q

-----------------------------------------------------------------------------
(* The other steps, by what they do to the offers and the goods.           *)

\* ClearTrade leaves offers that are as before, or none.
LEMMA ClearTradeOffers ==
    ASSUME OfferTypes, OffersDiffer, NEW ps, ClearTrade(ps)
    PROVE  OfferTypes' /\ OffersDiffer'
<1>1. tradeGold' \in [Players -> Gold]
  BY TradeAssumption DEF ClearTrade, OfferTypes, Gold
<1>2. NoItems \in [TradeSlots -> Positions \cup {None}] /\ \A i \in TradeSlots : NoItems[i] = None
  BY DEF NoItems
<1>3. \A p \in Players : tradeItems'[p] = IF p \in ps THEN NoItems ELSE tradeItems[p]
  BY DEF ClearTrade
<1>4. tradeItems' = [p \in Players |-> IF p \in ps THEN NoItems ELSE tradeItems[p]]
  BY DEF ClearTrade
<1>5. OfferTypes'
  BY <1>1, <1>2, <1>4 DEF OfferTypes
<1>6. OffersDiffer'
  BY <1>2, <1>3 DEF OffersDiffer
<1> QED
  BY <1>5, <1>6

\* Every step keeps the offers well formed, each of different positions.
LEMMA OffersNext ==
    ASSUME OfferTypes, OffersDiffer, Next PROVE OfferTypes' /\ OffersDiffer'
<1>0. CASE UNCHANGED <<tradeGold, tradeItems>>
  BY <1>0 DEF OfferTypes, OffersDiffer
<1>1. CASE UpdateMaps \/ MapsUpdated
  BY <1>0, <1>1 DEF UpdateMaps, MapsUpdated, tradeVars
<1>2. ASSUME NEW p \in Players,
             BeginTrade(p) \/ Exchange(p) \/ ClearBoth(p)
      PROVE  OfferTypes' /\ OffersDiffer'
  BY <1>2, ClearTradeOffers DEF BeginTrade, Exchange, ClearBoth
<1>3. ASSUME NEW p \in Players, CancelTrade(p) \/ Logout(p)
      PROVE  OfferTypes' /\ OffersDiffer'
  <2>1. Cancelled(p)
    BY <1>3 DEF CancelTrade, Logout
  <2>2. UNCHANGED tradeVars \/ ClearTrade({p, pTrader[p]})
    BY <2>1 DEF Cancelled
  <2> QED
    BY <1>0, <2>2, ClearTradeOffers DEF tradeVars
<1>4. ASSUME NEW p \in Players,
             \/ Accept(p) \/ UnacceptTrade(p) \/ CheckTrader(p) \/ Unlink(p) \/ FollowNull(p)
      PROVE  OfferTypes' /\ OffersDiffer'
  BY <1>0, <1>4 DEF Accept, UnacceptTrade, CheckTrader, Unlink, FollowNull, tradeVars
<1>5. ASSUME NEW p \in Players, NEW q \in Players, InitiateTrade(p, q) \/ NotEnoughGold(p, q)
      PROVE  OfferTypes' /\ OffersDiffer'
  BY <1>0, <1>5 DEF InitiateTrade, NotEnoughGold
<1>6. ASSUME NEW p \in Players, NEW gold \in Gold, SetTradeGold(p, gold)
      PROVE  OfferTypes' /\ OffersDiffer'
  BY <1>6 DEF SetTradeGold, OfferTypes, OffersDiffer
<1>7. ASSUME NEW p \in Players, NEW m, ModifyMoney(p, m) \/ Login(p, m) \/ Teleport(p, m)
      PROVE  OfferTypes' /\ OffersDiffer'
  BY <1>0, <1>7 DEF ModifyMoney, Login, Teleport, tradeVars
<1>8. ASSUME NEW p \in Players, NEW i \in TradeSlots, NEW x \in Positions \cup {None},
             tradeItems' = [tradeItems EXCEPT ![p][i] = x], tradeGold' = tradeGold,
             x # None => ~Offered(p, x)
      PROVE  OfferTypes' /\ OffersDiffer'
  <2>1. OfferTypes'
    BY <1>8 DEF OfferTypes
  <2>2. \A q \in Players : \A j \in TradeSlots :
            tradeItems'[q][j] = IF q = p /\ j = i THEN x ELSE tradeItems[q][j]
    BY <1>8 DEF OfferTypes
  <2>3. x # None => \A j \in TradeSlots : tradeItems[p][j] # x
    BY <1>8 DEF Offered
  <2> SUFFICES ASSUME NEW q \in Players, NEW j \in TradeSlots, NEW k \in TradeSlots,
                      tradeItems'[q][j] = tradeItems'[q][k], tradeItems'[q][j] # None
               PROVE  j = k
    BY <2>1 DEF OffersDiffer
  <2>4. tradeItems[q][j] = tradeItems[q][k] /\ tradeItems[q][j] # None => j = k
    BY DEF OffersDiffer
  <2> QED
    BY <2>2, <2>3, <2>4
<1>9. ASSUME NEW p \in Players, NEW i \in TradeSlots, ClearTradeItem(p, i)
      PROVE  OfferTypes' /\ OffersDiffer'
  <2>1. tradeItems' = [tradeItems EXCEPT ![p][i] = None] /\ tradeGold' = tradeGold
    BY <1>9 DEF ClearTradeItem
  <2> QED
    BY <2>1, <1>8
<1>10. ASSUME NEW p \in Players, NEW s \in Positions, NEW i \in TradeSlots, SetTradeItem(p, i, s)
      PROVE  OfferTypes' /\ OffersDiffer'
  <2>1. /\ tradeItems' = [tradeItems EXCEPT ![p][i] = s] /\ tradeGold' = tradeGold
        /\ ~Offered(p, s)
    BY <1>10 DEF SetTradeItem
  <2> QED
    BY <2>1, <1>8
<1>11. ASSUME NEW p \in Players, NEW s \in Positions, NEW t, NEW item,
              ItemGoes(p, s) \/ BindItem(p, s) \/ SwapItem(p, s, t) \/ ItemComes(p, s, item)
       PROVE  OfferTypes' /\ OffersDiffer'
  BY <1>0, <1>11 DEF ItemGoes, BindItem, SwapItem, ItemComes, tradeVars
<1> QED
  BY <1>1, <1>2, <1>3, <1>4, <1>5, <1>6, <1>7, <1>9, <1>10, <1>11 DEF Next

\* Where the items change, no item gets a second position: only one player's
\* inventory changes, and all it holds after it has held before or nobody has.
LEMMA ItemsStep ==
    ASSUME GoodsTypes, NoItemTwice, NEW p \in Players, NEW inv \in Inventories,
           inventory' = [inventory EXCEPT ![p] = inv],
           NothingTwice(inv),
           \A s \in Positions : inv[s] # None =>
              \/ \E t \in Positions : inventory[p][t] = inv[s]
              \/ \A q \in Players, t \in Positions : inventory[q][t] # inv[s]
    PROVE  inventory' \in [Players -> Inventories] /\ NoItemTwice'
<1>1. inventory' \in [Players -> Inventories]
  BY DEF GoodsTypes
<1>2. \A q \in Players : inventory'[q] = IF q = p THEN inv ELSE inventory[q]
  BY DEF GoodsTypes
<1>3. ASSUME NEW q \in Players, q # p, NEW s \in Positions, NEW t \in Positions,
             inventory[q][t] = inv[s], inv[s] # None
      PROVE  FALSE
  <2>1. PICK u \in Positions : inventory[p][u] = inv[s]
    BY <1>3
  <2>2. inventory[p][u] = inventory[q][t] /\ inventory[p][u] # None => p = q
    BY DEF NoItemTwice
  <2> QED
    BY <1>3, <2>1, <2>2
<1>4. \A q, r \in Players : \A s, t \in Positions :
          inventory[q][s] = inventory[r][t] /\ inventory[q][s] # None => q = r /\ s = t
  BY DEF NoItemTwice
<1> SUFFICES ASSUME NEW q \in Players, NEW r \in Players, NEW s \in Positions, NEW t \in Positions,
                    inventory'[q][s] = inventory'[r][t], inventory'[q][s] # None
             PROVE  q = r /\ s = t
  BY <1>1 DEF NoItemTwice
<1>5. CASE q # p /\ r # p
  BY <1>2, <1>4, <1>5
<1>6. CASE q = p /\ r = p
  BY <1>2, <1>6 DEF NothingTwice
<1>7. CASE q # p /\ r = p
  <2>1. inventory[q][s] = inv[t] /\ inv[t] # None
    BY <1>2, <1>7
  <2> QED
    BY <2>1, <1>3, <1>7
<1>8. CASE q = p /\ r # p
  <2>1. inventory[r][t] = inv[s] /\ inv[s] # None
    BY <1>2, <1>8
  <2> QED
    BY <2>1, <1>3, <1>8
<1> QED
  BY <1>5, <1>6, <1>7, <1>8

\* Every step keeps the goods well formed, and every item in one position.
LEMMA GoodsNext ==
    ASSUME IInv, GoodsInv, Next PROVE GoodsTypes' /\ NoItemTwice'
<1> USE DEF GoodsInv
<1>0. CASE UNCHANGED goods
  BY <1>0 DEF GoodsTypes, NoItemTwice, goods
<1>1. CASE UpdateMaps \/ MapsUpdated
  BY <1>0, <1>1 DEF UpdateMaps, MapsUpdated
<1>2. ASSUME NEW p \in Players,
             \/ BeginTrade(p) \/ Accept(p) \/ UnacceptTrade(p) \/ CancelTrade(p) \/ Logout(p)
             \/ CheckTrader(p) \/ ClearBoth(p) \/ Unlink(p) \/ FollowNull(p)
      PROVE  GoodsTypes' /\ NoItemTwice'
  BY <1>0, <1>2 DEF BeginTrade, Accept, UnacceptTrade, CancelTrade, Logout, CheckTrader,
                    ClearBoth, Unlink, FollowNull
<1>3. ASSUME NEW p \in Players, Exchange(p) PROVE GoodsTypes' /\ NoItemTwice'
  BY <1>3, ExchangeStep
<1>4. ASSUME NEW p \in Players, NEW q,
             InitiateTrade(p, q) \/ NotEnoughGold(p, q) \/ SetTradeGold(p, q)
             \/ Login(p, q) \/ Teleport(p, q) \/ ClearTradeItem(p, q)
      PROVE  GoodsTypes' /\ NoItemTwice'
  BY <1>0, <1>4 DEF InitiateTrade, NotEnoughGold, SetTradeGold, Login, Teleport,
                    ClearTradeItem, OfferChanges
<1>5. ASSUME NEW p \in Players, NEW i, NEW s, SetTradeItem(p, i, s)
      PROVE  GoodsTypes' /\ NoItemTwice'
  BY <1>0, <1>5 DEF SetTradeItem, OfferChanges
<1>6. ASSUME NEW p \in Players, NEW m \in 0..MAX_MONEY_AMOUNT, ModifyMoney(p, m)
      PROVE  GoodsTypes' /\ NoItemTwice'
  BY <1>6 DEF ModifyMoney, GoodsTypes, NoItemTwice
<1>7. ASSUME NEW p \in Players, NEW s \in Positions, BindItem(p, s)
      PROVE  GoodsTypes' /\ NoItemTwice'
  <2>1. inventory[p][s] \in Items
    BY <1>7, TradeAssumption DEF BindItem
  <2> QED
    BY <1>7, <2>1 DEF BindItem, GoodsTypes, NoItemTwice
<1>8. ASSUME NEW p \in Players, NEW s \in Positions, ItemGoes(p, s)
      PROVE  GoodsTypes' /\ NoItemTwice'
  <2> DEFINE inv == [inventory[p] EXCEPT ![s] = None]
  <2>0. inventory[p] \in Inventories /\ NothingTwice(inventory[p])
    BY OnePosition DEF GoodsTypes
  <2>1. inventory' = [inventory EXCEPT ![p] = inv]
    BY <1>8 DEF ItemGoes
  <2>2. inv \in Inventories /\ \A t \in Positions : inv[t] = IF t = s THEN None ELSE inventory[p][t]
    BY <2>0 DEF Inventories
  <2> HIDE DEF inv
  <2>3. NothingTwice(inv)
    BY <2>0, <2>2 DEF NothingTwice
  <2>4. inventory' \in [Players -> Inventories] /\ NoItemTwice'
    BY <2>1, <2>2, <2>3, ItemsStep
  <2>5. money' = money /\ soulbound' \subseteq soulbound
    BY <1>8 DEF ItemGoes
  <2> QED
    BY <2>4, <2>5 DEF GoodsTypes
<1>9. ASSUME NEW p \in Players, NEW s \in Positions, NEW item \in Items, ItemComes(p, s, item)
      PROVE  GoodsTypes' /\ NoItemTwice'
  <2> DEFINE inv == [inventory[p] EXCEPT ![s] = item]
  <2>0. inventory[p] \in Inventories /\ NothingTwice(inventory[p])
    BY OnePosition DEF GoodsTypes
  <2>1. /\ inventory' = [inventory EXCEPT ![p] = inv]
        /\ \A q \in Players, t \in Positions : inventory[q][t] # item
    BY <1>9 DEF ItemComes
  <2>2. inv \in Inventories /\ \A t \in Positions : inv[t] = IF t = s THEN item ELSE inventory[p][t]
    BY <2>0 DEF Inventories
  <2> HIDE DEF inv
  <2>3. NothingTwice(inv)
    BY <2>0, <2>1, <2>2 DEF NothingTwice
  <2>4. inventory' \in [Players -> Inventories] /\ NoItemTwice'
    <3>1. \A t \in Positions :
             \/ \E u \in Positions : inventory[p][u] = inv[t]
             \/ \A q \in Players, u \in Positions : inventory[q][u] # inv[t]
      BY <2>1, <2>2
    <3> QED
      BY <2>1, <2>2, <2>3, <3>1, ItemsStep
  <2>5. money' = money /\ soulbound' = soulbound
    BY <1>9 DEF ItemComes
  <2> QED
    BY <2>4, <2>5 DEF GoodsTypes
<1>10. ASSUME NEW p \in Players, NEW s \in Positions, NEW t \in Positions, SwapItem(p, s, t)
       PROVE  GoodsTypes' /\ NoItemTwice'
  <2> DEFINE inv == [[inventory[p] EXCEPT ![s] = inventory[p][t]] EXCEPT ![t] = inventory[p][s]]
  <2>0. inventory[p] \in Inventories /\ NothingTwice(inventory[p])
    BY OnePosition DEF GoodsTypes
  <2>1. inventory' = [inventory EXCEPT ![p] = inv]
    <3>1. inventory' = [inventory EXCEPT ![p][s] = inventory[p][t], ![p][t] = inventory[p][s]]
      BY <1>10 DEF SwapItem
    <3> QED
      BY <3>1 DEF GoodsTypes
  <2>2. inv \in Inventories /\ \A u \in Positions : inv[u] =
            IF u = t THEN inventory[p][s] ELSE IF u = s THEN inventory[p][t] ELSE inventory[p][u]
    BY <2>0 DEF Inventories
  <2> HIDE DEF inv
  <2>3. NothingTwice(inv)
    BY <2>0, <2>2 DEF NothingTwice
  <2>4. inventory' \in [Players -> Inventories] /\ NoItemTwice'
    BY <2>1, <2>2, <2>3, ItemsStep
  <2>5. money' = money /\ soulbound' = soulbound
    BY <1>10 DEF SwapItem
  <2> QED
    BY <2>4, <2>5 DEF GoodsTypes
<1> QED
  BY <1>1, <1>2, <1>3, <1>4, <1>5, <1>6, <1>7, <1>8, <1>9, <1>10 DEF Next

-----------------------------------------------------------------------------
(* Threads that cancel at the same time.                                   *)

\* They update different maps, and whoever finds its partner gone has had a
\* partner on another map.
CollideInv ==
    /\ place \in [Players -> Maps] /\ crashed \in BOOLEAN
    /\ \A p \in Players : cancelling[p] # "no" => p \in online /\ phase = "maps"
    /\ \A p, q \in Players :
          p # q /\ cancelling[p] # "no" /\ cancelling[q] # "no" => place[p] # place[q]
    /\ \A p \in Players : cancelling[p] # "no" /\ pTrader[p] = None =>
          \E q \in Players : place[p] # place[q]
    /\ OnlyMapsApartCollide

\* A step of the world's thread, where no map's thread cancels.
LEMMA WorldStep ==
    ASSUME IInv, CollideInv, phase = "world", ~crashed,
           place' \in [Players -> Maps], UNCHANGED mapVars
    PROVE  CollideInv'
<1>1. \A p \in Players : cancelling'[p] = "no"
  BY DEF IInv, CancelInv, mapVars
<1>2. ~crashed' /\ crashed' \in BOOLEAN
  BY DEF CollideInv, mapVars
<1>3. OnlyMapsApartCollide'
  BY <1>2 DEF OnlyMapsApartCollide
<1> QED
  BY <1>1, <1>2, <1>3, Zenon DEF CollideInv

\* Every step keeps the threads that cancel apart.
LEMMA CollideNext == ASSUME IInv, CollideInv, Next PROVE CollideInv'
<1>0. place \in [Players -> Maps]
  BY DEF CollideInv
<1>1. CASE UpdateMaps
  <2>1. phase = "world" /\ ~crashed /\ UNCHANGED <<place, mapVars>>
    BY <1>1 DEF UpdateMaps, Running
  <2> QED
    BY <2>1, <1>0, WorldStep
<1>2. CASE MapsUpdated
  <2>1. /\ ~crashed /\ UNCHANGED <<place, cancelling, crashed>>
        /\ \A p \in Players : cancelling[p] = "no"
    BY <1>2 DEF MapsUpdated, mapVars
  <2> QED
    BY <2>1, <1>0 DEF CollideInv, OnlyMapsApartCollide
<1>3. ASSUME NEW p \in Players,
             BeginTrade(p) \/ Accept(p) \/ Exchange(p) \/ UnacceptTrade(p) \/ CancelTrade(p) \/ Logout(p)
      PROVE  CollideInv'
  <2>1. phase = "world" /\ ~crashed /\ UNCHANGED <<place, mapVars>>
    BY <1>3 DEF BeginTrade, Accept, Exchange, UnacceptTrade, CancelTrade, Logout, Acceptable,
                Trading, Running, whereVars
  <2> QED
    BY <2>1, <1>0, WorldStep
<1>4. ASSUME NEW p \in Players, CheckTrader(p) PROVE CollideInv'
  <2>1. /\ phase = "maps" /\ ~crashed /\ p \in online /\ ~MapBusy(place[p]) /\ pTrader[p] # None
        /\ cancelling' = [cancelling EXCEPT ![p] = "checked"]
        /\ UNCHANGED <<phase, online, place, pTrader, crashed>>
    BY <1>4 DEF CheckTrader, whereVars, tradeVars
  <2>2. \A q \in Players : cancelling'[q] = IF q = p THEN "checked" ELSE cancelling[q]
    BY <2>1 DEF IInv, Types
  <2>3. \A q \in Players : cancelling[q] # "no" => q \in online /\ place[q] # place[p]
    BY <2>1 DEF CollideInv, MapBusy
  <2>4. \A q, r \in Players :
            q # r /\ cancelling'[q] # "no" /\ cancelling'[r] # "no" => place[q] # place[r]
    BY <2>2, <2>3 DEF CollideInv
  <2>5. \A q \in Players : cancelling'[q] # "no" /\ pTrader[q] = None =>
            \E r \in Players : place[q] # place[r]
    BY <2>1, <2>2 DEF CollideInv
  <2>6. \A q \in Players : cancelling'[q] # "no" => q \in online /\ phase = "maps"
    BY <2>1, <2>2 DEF CollideInv
  <2> QED
    BY <2>1, <2>4, <2>5, <2>6, <1>0 DEF CollideInv, OnlyMapsApartCollide
<1>5. ASSUME NEW p \in Players, ClearBoth(p) PROVE CollideInv'
  <2>1. /\ ~crashed /\ cancelling[p] = "checked"
        /\ cancelling' = [cancelling EXCEPT ![p] = "cleared"]
        /\ UNCHANGED <<phase, online, place, pTrader, crashed>>
    BY <1>5 DEF ClearBoth, whereVars
  <2>2. \A q \in Players : cancelling'[q] # "no" <=> cancelling[q] # "no"
    BY <2>1 DEF IInv, Types
  <2> QED
    BY <2>1, <2>2, <1>0 DEF CollideInv, OnlyMapsApartCollide
<1>6. ASSUME NEW p \in Players, Unlink(p) PROVE CollideInv'
  <2>1. /\ ~crashed /\ cancelling[p] = "cleared" /\ pTrader[p] # None
        /\ pTrader' = [pTrader EXCEPT ![p] = None, ![pTrader[p]] = None]
        /\ cancelling' = [cancelling EXCEPT ![p] = "no"]
        /\ UNCHANGED <<phase, online, place, crashed>>
    BY <1>6 DEF Unlink, whereVars
  <2>2. pTrader[p] \in Players
    BY <2>1, Partners DEF IInv
  <2>3. \A q \in Players : /\ pTrader'[q] = IF q \in {p, pTrader[p]} THEN None ELSE pTrader[q]
                           /\ cancelling'[q] = IF q = p THEN "no" ELSE cancelling[q]
    BY <2>1, <2>2 DEF IInv, Types
  <2>4. \A q, r \in Players :
            q # r /\ cancelling[q] # "no" /\ cancelling[r] # "no" => place[q] # place[r]
    BY DEF CollideInv
  <2>5. ASSUME NEW q \in Players, cancelling'[q] # "no", pTrader'[q] = None
        PROVE  \E r \in Players : place[q] # place[r]
    <3>1. q # p /\ cancelling[q] # "no"
      BY <2>3, <2>5
    <3>2. place[q] # place[p]
      BY <2>1, <2>4, <3>1
    <3> QED
      BY <3>2
  <2>6. \A q \in Players : cancelling'[q] # "no" => q \in online /\ phase = "maps"
    BY <2>3 DEF CollideInv
  <2>7. \A q, r \in Players :
            q # r /\ cancelling'[q] # "no" /\ cancelling'[r] # "no" => place[q] # place[r]
    BY <2>3, <2>4
  <2> QED
    BY <2>1, <2>5, <2>6, <2>7, <1>0 DEF CollideInv, OnlyMapsApartCollide
<1>7. ASSUME NEW p \in Players, FollowNull(p) PROVE CollideInv'
  <2>1. /\ cancelling[p] # "no" /\ pTrader[p] = None /\ crashed' = TRUE
        /\ UNCHANGED <<phase, online, place, pTrader, cancelling>>
    BY <1>7 DEF FollowNull, whereVars, tradeVars
  <2>2. \E q \in Players : place[p] # place[q]
    BY <2>1 DEF CollideInv
  <2> QED
    BY <2>1, <2>2, <1>0 DEF CollideInv, OnlyMapsApartCollide
<1>8. ASSUME NEW p \in Players, NEW q,
             \/ InitiateTrade(p, q) \/ NotEnoughGold(p, q) \/ SetTradeGold(p, q)
             \/ ClearTradeItem(p, q) \/ ModifyMoney(p, q) \/ ItemGoes(p, q) \/ BindItem(p, q)
      PROVE  CollideInv'
  <2>1. phase = "world" /\ ~crashed /\ UNCHANGED <<place, mapVars>>
    BY <1>8 DEF InitiateTrade, NotEnoughGold, SetTradeGold, ClearTradeItem, ModifyMoney, ItemGoes,
                BindItem, OfferChanges, Trading, Running, whereVars
  <2> QED
    BY <2>1, <1>0, WorldStep
<1>9. ASSUME NEW p \in Players, NEW m \in Maps, Login(p, m) \/ Teleport(p, m) PROVE CollideInv'
  <2>1. phase = "world" /\ ~crashed /\ place' = [place EXCEPT ![p] = m] /\ UNCHANGED mapVars
    BY <1>9 DEF Login, Teleport, Running
  <2>2. place' \in [Players -> Maps]
    BY <2>1, <1>0
  <2> QED
    BY <2>1, <2>2, WorldStep
<1>10. ASSUME NEW p \in Players, NEW s, NEW t,
              SetTradeItem(p, t, s) \/ SwapItem(p, s, t) \/ ItemComes(p, s, t)
       PROVE  CollideInv'
  <2>1. phase = "world" /\ ~crashed /\ UNCHANGED <<place, mapVars>>
    BY <1>10 DEF SetTradeItem, SwapItem, ItemComes, OfferChanges, Trading, Running, whereVars
  <2> QED
    BY <2>1, <1>0, WorldStep
<1> QED
  BY <1>1, <1>2, <1>3, <1>4, <1>5, <1>6, <1>7, <1>8, <1>9, <1>10 DEF Next

-----------------------------------------------------------------------------

WholeInv == IInv /\ GoodsInv /\ CollideInv

\* The whole invariant holds at the start.
LEMMA WholeInit == Init => WholeInv
<1> SUFFICES ASSUME Init PROVE WholeInv
  OBVIOUS
<1>1. OfferTypes /\ OffersDiffer
  <2>1. tradeGold \in [Players -> Gold]
    BY TradeAssumption DEF Init, Gold
  <2>2. tradeItems \in [Players -> [TradeSlots -> Positions \cup {None}]]
    BY DEF Init, NoItems
  <2>3. OffersDiffer
    BY DEF Init, NoItems, OffersDiffer
  <2> QED
    BY <2>1, <2>2, <2>3 DEF OfferTypes
<1>2. GoodsTypes
  BY TradeAssumption DEF Init, GoodsTypes, Inventories
<1>3. NoItemTwice
  BY DEF Init, NoItemTwice
<1>4. CollideInv
  BY DEF Init, CollideInv, OnlyMapsApartCollide
<1> QED
  BY <1>1, <1>2, <1>3, <1>4, InitInv DEF WholeInv, GoodsInv

\* A step keeps the whole invariant.
LEMMA WholeNext == WholeInv /\ [Next]_vars => WholeInv'
<1>1. ASSUME WholeInv, Next PROVE WholeInv'
  BY <1>1, NextInv, OffersNext, GoodsNext, CollideNext DEF WholeInv, GoodsInv
<1>2. ASSUME WholeInv, UNCHANGED vars PROVE WholeInv'
  <2>1. UNCHANGED <<place, tradeGold, tradeItems, inventory, money, soulbound, crashed, phase, online,
                    pTrader, acceptTrade, cancelling>>
    BY <1>2 DEF vars, whereVars, tradeVars, goods, mapVars
  <2>2. IInv'
    BY <1>2, StutterInv DEF WholeInv
  <2>3. GoodsInv'
    BY <1>2, <2>1 DEF WholeInv, GoodsInv, OfferTypes, GoodsTypes, OffersDiffer, NoItemTwice
  <2>4. CollideInv'
    BY <1>2, <2>1 DEF WholeInv, CollideInv, OnlyMapsApartCollide
  <2> QED
    BY <2>2, <2>3, <2>4 DEF WholeInv
<1> QED
  BY <1>1, <1>2

\* The whole invariant holds in every state.
LEMMA WholeInvariant == Spec => []WholeInv
BY WholeInit, WholeNext, PTL DEF Spec

\* For any number of players, items and positions: the variables have their types.
THEOREM TypesCorrect == Spec => []TypeOK
<1>1. WholeInv => TypeOK
  BY DEF WholeInv, IInv, Types, GoodsInv, OfferTypes, GoodsTypes, Inventories, CollideInv, TypeOK
<1> QED
  BY WholeInvariant, <1>1, PTL

\* For any number of players, items and positions: an item is in one position of
\* one player, and threads that cancel collide only on different maps
\* (HandleSetTradeItemOpcode, moveItems, Player::TradeCancel).
THEOREM SoundCorrect == Spec => []TradeIsSound
<1>1. WholeInv => TradeIsSound
  BY DEF WholeInv, GoodsInv, CollideInv, TradeIsSound
<1> QED
  BY WholeInvariant, <1>1, PTL

\* For any number of players, items, positions and slots: the exchange gives each
\* player just what the other has offered, or it does not take place
\* (HandleAcceptTradeOpcode, moveItems).
THEOREM ExchangeCorrect == Spec => ExchangeIsWhole
<1> DEFINE Whole == \A p \in Players : (Accept(p) \/ Exchange(p)) =>
               \/ UNCHANGED goods
               \/ Exchanged(p, pTrader[p]) /\ Exchanged(pTrader[p], p)
<1>1. WholeInv /\ [Next]_vars => [Whole]_vars
  <2> SUFFICES ASSUME WholeInv, NEW p \in Players, Accept(p) \/ Exchange(p)
               PROVE  \/ UNCHANGED goods
                      \/ Exchanged(p, pTrader[p]) /\ Exchanged(pTrader[p], p)
    OBVIOUS
  <2>1. CASE Accept(p)
    BY <2>1 DEF Accept
  <2>2. CASE Exchange(p)
    BY <2>2, ExchangeStep DEF WholeInv
  <2> QED
    BY <2>1, <2>2
<1>2. Spec => [][Whole]_vars
  BY WholeInvariant, <1>1, PTL DEF Spec
<1> QED
  BY <1>2 DEF ExchangeIsWhole

\* For any number of players, items and positions: while an acceptance stands,
\* the partner, the gold, the positions and the items at them are the same, but for
\* an item that its owner moves at a position it offers (SendUpdateTrade, ClearTrade,
\* TradeCancel, HandleAcceptTradeOpcode).
THEOREM AcceptanceCorrect == Spec => AcceptanceIsOfTheOffers
<1>1. WholeInv => IInv /\ inventory \in [Players -> [Positions -> Items \cup {None}]]
  BY DEF WholeInv, GoodsInv, GoodsTypes, Inventories
<1>2. WholeInv /\ [Next]_vars => [AcceptanceStands]_vars
  BY <1>1, AcceptanceNext
<1> QED
  BY WholeInvariant, <1>2, PTL DEF Spec, AcceptanceIsOfTheOffers
=============================================================================

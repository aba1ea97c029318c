---------------------------- MODULE EconomyProofs ----------------------------
(***************************************************************************)
(* Three models of the economy's outer parts, proved for every number of   *)
(* visitors, servers, agents and calls: what a platform menu charges and   *)
(* shows, what the books say an NPC spent, and what reconcile() of the     *)
(* native-coin balance leaves behind.                                      *)
(***************************************************************************)
EXTENDS Sequences, MerchantMenu, OnchainPay, NativeSettlement, SumTheorems

-----------------------------------------------------------------------------
(***************************************************************************)
(* The menus.                                                              *)
(***************************************************************************)

MenuNodes == {"closed", "main", "plans", "pricing", "provider", "calc"}
Handlers ==
    [step : {"none", "estimate", "amount", "confirm"}, action : Actions \cup {"none"},
     amounts : Seq(Sums), key : Nat]
Requests ==
    [id : Nat, from : Visitors, payer : Visitors, action : Actions, amounts : Seq(Sums),
     dry : BOOLEAN, key : Nat, reply : {"none", "ok", "refused"}, awaited : BOOLEAN]
SeedSteps == {"idle", "fetch", "create"}

MerchantTypeOK ==
    /\ sent \in Nat
    /\ menu \in [Visitors -> [node : MenuNodes, handler : Handlers]]
    /\ execs \subseteq Requests
    /\ menuRegistry \in [PlatformNpcs -> {"none", "offline", "live"}]
    /\ seeding \in [PlatformNpcs -> SeedSteps]

\* A handler that waits for a yes is about a preview this visitor was shown.
AsksAbout(v, h) == [to |-> v, key |-> h.key, action |-> h.action, amounts |-> h.amounts]
HandlersOfPreviews ==
    \A v \in Visitors :
        menu[v].handler.step = "confirm" => AsksAbout(v, menu[v].handler) \in previewed

\* A request is paid for by the session that made it; a settlement is of a
\* preview that session was shown, under the preview's key, and agreed to.
RequestsAgreed ==
    \A e \in execs :
        /\ e.payer = e.from
        /\ ~e.dry => Preview(e) \in previewed /\ [by |-> e.from, key |-> e.key] \in agreed

\* What a view will show belongs to the visitor that asked for it.
ViewsOwn ==
    /\ \A r \in views : r.wallet = r.from
    /\ \A s \in shown : s.wallet = s.to

\* A menu is registered before the record of its NPC is created.
MenuBeforeNpc ==
    /\ \A npc \in PlatformNpcs : seeding[npc] = "create" => menuRegistry[npc] # "none"
    /\ made \subseteq PlatformNpcs
    /\ \A npc \in made : menuRegistry[npc] # "none"

MenuInvariant ==
    /\ MerchantTypeOK
    /\ HandlersOfPreviews
    /\ RequestsAgreed
    /\ ChargesConfirmed
    /\ ViewsOwn
    /\ MenuBeforeNpc

LEMMA MenuConstants ==
    /\ NoHandler \in Handlers
    /\ Closed \in [node : MenuNodes, handler : Handlers]
    /\ Closed.handler = NoHandler /\ NoHandler.step = "none"
<1>1. <<>> \in Seq(Sums)
  OBVIOUS
<1>2. QED
  BY <1>1 DEF NoHandler, Handler, Handlers, Closed, MenuNodes

\* What Result() keeps: a host that drops or keeps a handler stays in type, and
\* a handler that waits for a yes still has its preview.
LEMMA ResultKeepsMenu ==
    ASSUME NEW v \in Visitors, NEW node \in MenuNodes, NEW handler \in Handlers,
           MerchantTypeOK, HandlersOfPreviews, previewed \subseteq previewed',
           handler.step = "confirm" => AsksAbout(v, handler) \in previewed',
           Result(v, node, handler)
    PROVE  /\ menu' \in [Visitors -> [node : MenuNodes, handler : Handlers]]
           /\ HandlersOfPreviews'
<1>1. PICK h \in {NoHandler, menu[v].handler, handler} :
          menu' = [menu EXCEPT ![v] = IF @.node = "closed" THEN Closed
                                      ELSE [node |-> node, handler |-> h]]
  BY DEF Result
<1>2. menu[v] \in [node : MenuNodes, handler : Handlers]
  BY DEF MerchantTypeOK
<1>3. h \in Handlers
  BY <1>1, <1>2, MenuConstants
<1>4. menu' \in [Visitors -> [node : MenuNodes, handler : Handlers]]
  BY <1>1, <1>3, MenuConstants DEF MerchantTypeOK
<1>5. ASSUME NEW w \in Visitors, menu'[w].handler.step = "confirm"
      PROVE  AsksAbout(w, menu'[w].handler) \in previewed'
  <2>1. CASE w # v
    <3>1. menu'[w] = menu[w]
      BY <1>1, <2>1 DEF MerchantTypeOK
    <3>2. QED
      BY <1>5, <3>1 DEF HandlersOfPreviews
  <2>2. CASE w = v
    <3>1. menu'[v] = IF menu[v].node = "closed" THEN Closed
                     ELSE [node |-> node, handler |-> h]
      BY <1>1 DEF MerchantTypeOK
    <3>2. menu[v].node # "closed" /\ menu'[v].handler = h
      BY <1>5, <2>2, <3>1, MenuConstants
    <3>3. h = menu[v].handler \/ h = handler
      BY <1>1, <1>5, <2>2, <3>2, MenuConstants
    <3>4. QED
      BY <1>5, <2>2, <3>2, <3>3 DEF HandlersOfPreviews
  <2>3. QED
    BY <2>1, <2>2
<1>6. QED
  BY <1>4, <1>5 DEF HandlersOfPreviews

\* A step that puts a session without a handler somewhere keeps its menu in type.
LEMMA MenuMoves ==
    ASSUME NEW v \in Visitors, NEW node \in MenuNodes,
           MerchantTypeOK, HandlersOfPreviews, previewed \subseteq previewed',
           menu' = [menu EXCEPT ![v] = [node |-> node, handler |-> NoHandler]]
    PROVE  /\ menu' \in [Visitors -> [node : MenuNodes, handler : Handlers]]
           /\ HandlersOfPreviews'
<1>1. menu' \in [Visitors -> [node : MenuNodes, handler : Handlers]]
  BY MenuConstants DEF MerchantTypeOK
<1>2. ASSUME NEW w \in Visitors, menu'[w].handler.step = "confirm"
      PROVE  AsksAbout(w, menu'[w].handler) \in previewed'
  <2>1. w # v /\ menu'[w] = menu[w]
    BY <1>2, MenuConstants DEF MerchantTypeOK
  <2>2. QED
    BY <1>2, <2>1 DEF HandlersOfPreviews
<1>3. QED
  BY <1>1, <1>2 DEF HandlersOfPreviews

LEMMA MenuInit == ASSUME MerchantInit PROVE MenuInvariant
<1>1. MerchantTypeOK
  BY MenuConstants DEF MerchantInit, MerchantTypeOK, PlatformNpcs, SeedSteps
<1>2. HandlersOfPreviews
  BY MenuConstants DEF MerchantInit, HandlersOfPreviews
<1>3. QED
  BY <1>1, <1>2 DEF MerchantInit, MenuInvariant, RequestsAgreed, ChargesConfirmed, ViewsOwn,
                    MenuBeforeNpc

\* Seeding and restarts.
LEMMA SeedKeepsMenu == ASSUME MenuInvariant, SeedNext PROVE MenuInvariant'
<1> USE DEF MenuInvariant
<1>1. UNCHANGED <<sessionVars, execVars, chainVars>>
  BY DEF SeedNext, SeedMerchant, SeedPricingConsultant, PricingFetched, SeedCreates,
         RegisterPricingMenu, SeedOnly
<1>2. /\ HandlersOfPreviews' /\ RequestsAgreed' /\ ChargesConfirmed' /\ ViewsOwn'
      /\ menu' = menu /\ sent' = sent /\ execs' = execs
  BY <1>1 DEF sessionVars, execVars, chainVars, HandlersOfPreviews, RequestsAgreed,
              ChargesConfirmed, ViewsOwn, AsksAbout, Preview
<1> DEFINE Seeds == /\ menuRegistry' \in [PlatformNpcs -> {"none", "offline", "live"}]
                    /\ seeding' \in [PlatformNpcs -> SeedSteps]
                    /\ MenuBeforeNpc'
<1> USE DEF MerchantTypeOK, MenuBeforeNpc, PlatformNpcs, SeedSteps, Register, SeedAt
<1>3. ASSUME NEW refresh \in BOOLEAN, SeedMerchant(refresh) PROVE Seeds
  BY <1>3 DEF SeedMerchant
<1>4. ASSUME NEW refresh \in BOOLEAN, SeedPricingConsultant(refresh) PROVE Seeds
  BY <1>4 DEF SeedPricingConsultant
<1>5. ASSUME NEW ok \in BOOLEAN, PricingFetched(ok) PROVE Seeds
  BY <1>5 DEF PricingFetched
<1>6. ASSUME NEW npc \in PlatformNpcs, SeedCreates(npc) PROVE Seeds
  BY <1>6 DEF SeedCreates
<1>7. ASSUME RegisterPricingMenu PROVE Seeds
  BY <1>7 DEF RegisterPricingMenu
<1>8. Seeds
  BY <1>3, <1>4, <1>5, <1>6, <1>7 DEF SeedNext
<1>9. QED
  BY <1>2, <1>8

\* What a restart, a timeout or a lost answer leaves of a request is the
\* request, without the one who waits for it.
LEMMA UnheardIsRequest ==
    ASSUME NEW e \in Requests, NEW u \in Unheard(e)
    PROVE  /\ u \in Requests /\ ~u.dry /\ ~e.dry
           /\ u.payer = e.payer /\ u.from = e.from
           /\ u.key = e.key /\ Preview(u) = Preview(e)
BY DEF Unheard, Requests, Preview

LEMMA RestartKeepsMenu == ASSUME MenuInvariant, ProcessRestarts PROVE MenuInvariant'
<1> USE DEF MenuInvariant
<1>1. /\ menu' = [v \in Visitors |-> Closed] /\ UNCHANGED <<sent, charges, previewed, agreed, shown>>
      /\ execs' = UNION {Unheard(e) : e \in execs}
      /\ views' = {} /\ made' = {}
      /\ menuRegistry' = [npc \in PlatformNpcs |-> "none"]
      /\ seeding' = [npc \in PlatformNpcs |-> "idle"]
  BY DEF ProcessRestarts
<1>2. ASSUME NEW u \in execs' PROVE \E e \in execs : u \in Unheard(e)
  BY <1>1
<1>3. execs' \subseteq Requests
  BY <1>2, UnheardIsRequest DEF MerchantTypeOK
<1>4. MerchantTypeOK'
  BY <1>1, <1>3, MenuConstants DEF MerchantTypeOK, PlatformNpcs, SeedSteps
<1>5. HandlersOfPreviews'
  BY <1>1, MenuConstants DEF HandlersOfPreviews
<1>6. RequestsAgreed'
  <2>1. ASSUME NEW u \in execs'
        PROVE  /\ u.payer = u.from
               /\ Preview(u) \in previewed /\ [by |-> u.from, key |-> u.key] \in agreed
    BY <1>2, UnheardIsRequest DEF RequestsAgreed, MerchantTypeOK
  <2>2. QED
    BY <1>1, <2>1 DEF RequestsAgreed, Preview
<1>7. QED
  BY <1>1, <1>4, <1>5, <1>6 DEF ChargesConfirmed, ViewsOwn, MenuBeforeNpc, PlatformNpcs

-----------------------------------------------------------------------------
\* The walk through the menus.

\* What a step that only moves sessions around leaves alone.
LEMMA WalkFrame ==
    ASSUME MenuInvariant, UNCHANGED <<execVars, seedVars>>,
           menu' \in [Visitors -> [node : MenuNodes, handler : Handlers]],
           HandlersOfPreviews', ViewsOwn'
    PROVE  MenuInvariant'
BY DEF MenuInvariant, execVars, seedVars, MerchantTypeOK, RequestsAgreed, ChargesConfirmed,
       MenuBeforeNpc, Preview

LEMMA MenuNodesInType ==
    ASSUME MerchantTypeOK, NEW v \in Visitors
    PROVE  /\ menu[v] \in [node : MenuNodes, handler : Handlers]
           /\ menu[v].node \in MenuNodes /\ menu[v].handler \in Handlers
           /\ Leads(menu[v].node) \subseteq MenuNodes
BY DEF MerchantTypeOK, Leads, MainMenu, PlansList, PricingMenu, ProviderMenu, CalcMenu, MenuNodes

\* A step that keeps the session where it is.
LEMMA StaysKeepsMenu ==
    ASSUME NEW v \in Visitors, MerchantTypeOK, HandlersOfPreviews,
           previewed \subseteq previewed', Stays(v)
    PROVE  /\ menu' \in [Visitors -> [node : MenuNodes, handler : Handlers]]
           /\ HandlersOfPreviews'
BY MenuConstants, MenuNodesInType, ResultKeepsMenu DEF Stays

LEMMA VisitKeepsMenu == ASSUME MenuInvariant, VisitNext PROVE MenuInvariant'
<1> USE DEF MenuInvariant
<1>1. ASSUME NEW v \in Visitors, Reconnect(v) PROVE MenuInvariant'
  BY <1>1, WalkFrame DEF Reconnect, chainVars, execVars, ViewsOwn, MerchantTypeOK,
                         HandlersOfPreviews
<1>2. ASSUME NEW v \in Visitors, NEW npc \in PlatformNpcs, Visit(v, npc) PROVE MenuInvariant'
  <2>1. PICK node \in MenuNodes : menu' = [menu EXCEPT ![v].node = node]
    BY <1>2 DEF Visit, MenuNodes
  <2>2. menu' = [menu EXCEPT ![v] = [node |-> node, handler |-> NoHandler]]
    <3>1. menu[v].handler = NoHandler
      BY <1>2, MenuConstants DEF Visit
    <3>2. [menu[v] EXCEPT !.node = node] = [node |-> node, handler |-> NoHandler]
      BY <3>1, MenuNodesInType
    <3>3. QED
      BY <2>1, <3>2
  <2>3. UNCHANGED <<execVars, seedVars, views, shown, previewed>>
    BY <1>2 DEF Visit, ExecOff, chainVars, execVars
  <2>4. QED
    BY <2>2, <2>3, MenuMoves, WalkFrame DEF ViewsOwn
<1>3. QED
  BY <1>1, <1>2 DEF VisitNext

LEMMA WalkKeepsMenu == ASSUME MenuInvariant, WalkNext PROVE MenuInvariant'
<1> USE DEF MenuInvariant
<1> DEFINE Walks == UNCHANGED <<execVars, seedVars, previewed>>
<1> DEFINE ChainStill == UNCHANGED <<views, shown>>
<1>1. ASSUME NEW v \in Visitors, PickPlain(v) PROVE MenuInvariant'
  <2>1. Walks /\ ChainStill
    BY <1>1 DEF PickPlain, ExecOff, chainVars, execVars
  <2>2. PICK node \in MenuNodes : menu' = [menu EXCEPT ![v] = [node |-> node, handler |-> NoHandler]]
    BY <1>1, MenuNodesInType DEF PickPlain
  <2>3. QED
    BY <2>1, <2>2, MenuMoves, WalkFrame DEF ViewsOwn
<1>2. ASSUME NEW v \in Visitors, ShowGuide(v) PROVE MenuInvariant'
  <2>1. Walks /\ ChainStill /\ menu' = menu
    BY <1>2 DEF ShowGuide, ExecOff, chainVars, execVars
  <2>2. QED
    BY <2>1, WalkFrame DEF ViewsOwn, HandlersOfPreviews, MerchantTypeOK
<1>3. ASSUME NEW v \in Visitors, PickEstimate(v) PROVE MenuInvariant'
  <2>1. Walks /\ ChainStill /\ Result(v, "calc", Handler("estimate", "none", <<>>, 0))
    BY <1>3 DEF PickEstimate, ExecOff, chainVars, execVars
  <2>2. /\ Handler("estimate", "none", <<>>, 0) \in Handlers
        /\ Handler("estimate", "none", <<>>, 0).step = "estimate" /\ "calc" \in MenuNodes
    BY DEF Handler, Handlers, MenuNodes
  <2>3. QED
    BY <2>1, <2>2, ResultKeepsMenu, WalkFrame DEF ViewsOwn
<1>4. ASSUME NEW v \in Visitors, Estimated(v) PROVE MenuInvariant'
  <2>1. Walks /\ ChainStill /\ Stays(v)
    BY <1>4 DEF Estimated, ExecOff, chainVars, execVars
  <2>2. QED
    BY <2>1, StaysKeepsMenu, WalkFrame DEF ViewsOwn
<1>5. ASSUME NEW v \in Visitors, PickAccount(v) PROVE MenuInvariant'
  <2>1. Walks /\ menu' = menu /\ shown' = shown
    BY <1>5 DEF PickAccount, ExecOff, execVars
  <2>2. \A r \in views' : r \in views \/ r = [from |-> v, wallet |-> v]
    BY <1>5 DEF PickAccount, Picks
  <2>3. QED
    BY <2>1, <2>2, WalkFrame DEF ViewsOwn, HandlersOfPreviews, MerchantTypeOK
<1>6. ASSUME NEW r \in views, BalancesShown(r) PROVE MenuInvariant'
  <2>1. Walks /\ menu' = menu /\ views' \subseteq views
    BY <1>6 DEF BalancesShown, ExecOff, execVars
  <2>2. shown' \subseteq shown \cup {[to |-> r.from, wallet |-> r.wallet]}
    BY <1>6 DEF BalancesShown
  <2>3. QED
    BY <2>1, <2>2, WalkFrame DEF ViewsOwn, HandlersOfPreviews, MerchantTypeOK
<1>7. QED
  BY <1>1, <1>2, <1>3, <1>4, <1>5, <1>6 DEF WalkNext

-----------------------------------------------------------------------------
\* The flow that buys.

\* A handler of a step before the confirmation, or of a preview shown now.
LEMMA BuyHandlerInType ==
    ASSUME NEW step \in {"estimate", "amount", "confirm"}, NEW action \in Actions,
           NEW amounts \in Seq(Sums), NEW key \in Nat
    PROVE  /\ Handler(step, action, amounts, key) \in Handlers
           /\ Handler(step, action, amounts, key).step = step
           /\ \A v : AsksAbout(v, Handler(step, action, amounts, key))
                        = [to |-> v, key |-> key, action |-> action, amounts |-> amounts]
BY DEF Handler, Handlers, AsksAbout

LEMMA PickBuyKeepsMenu ==
    ASSUME MenuInvariant, NEW v \in Visitors, NEW action \in Actions, PickBuy(v, action)
    PROVE  MenuInvariant'
<1>1. /\ UNCHANGED <<execVars, seedVars, previewed, views, shown>>
      /\ Result(v, "main", Handler("amount", action, <<>>, 0))
  BY DEF PickBuy, ExecOff, chainVars, execVars
<1>2. /\ Handler("amount", action, <<>>, 0) \in Handlers
      /\ Handler("amount", action, <<>>, 0).step = "amount" /\ "main" \in MenuNodes
  BY BuyHandlerInType, <<>> \in Seq(Sums) DEF MenuNodes
<1>3. QED
  BY <1>1, <1>2, ResultKeepsMenu, WalkFrame DEF ViewsOwn, MenuInvariant

\* A request that is sent in type and with what was agreed keeps the invariant.
LEMMA SendingKeepsMenu ==
    ASSUME MenuInvariant, NEW e \in Requests, execs' = execs \cup {e}, sent' \in Nat,
           e.payer = e.from, agreed \subseteq agreed',
           ~e.dry => Preview(e) \in previewed /\ [by |-> e.from, key |-> e.key] \in agreed',
           UNCHANGED <<menu, charges, previewed, chainVars, seedVars>>
    PROVE  MenuInvariant'
<1> USE DEF MenuInvariant
<1>1. MerchantTypeOK' /\ HandlersOfPreviews'
  BY DEF MerchantTypeOK, HandlersOfPreviews, seedVars, AsksAbout
<1>2. RequestsAgreed'
  BY DEF RequestsAgreed, Preview
<1>3. ChargesConfirmed'
  BY DEF ChargesConfirmed
<1>4. ViewsOwn' /\ MenuBeforeNpc'
  BY DEF ViewsOwn, MenuBeforeNpc, chainVars, seedVars
<1>5. QED
  BY <1>1, <1>2, <1>3, <1>4

LEMMA PreviewRequestKeepsMenu ==
    ASSUME MenuInvariant, NEW v \in Visitors, NEW action \in Actions,
           NEW amounts \in Seq(Sums), AsksPreview(v, action, amounts)
    PROVE  MenuInvariant'
<1> DEFINE e == Exec(v, action, amounts, TRUE, sent + 1)
<1>1. /\ current' = v /\ execs' = execs \cup {e} /\ sent' = sent + 1
      /\ UNCHANGED <<menu, charges, previewed, agreed, chainVars, seedVars>>
  BY DEF AsksPreview, HandlerRuns, Sends
<1>2. e \in Requests /\ e.payer = e.from /\ e.dry /\ sent + 1 \in Nat
  BY <1>1 DEF Exec, Requests, MenuInvariant, MerchantTypeOK
<1> HIDE DEF e
<1>3. QED
  BY <1>1, <1>2, SendingKeepsMenu

LEMMA ConfirmedKeepsMenu ==
    ASSUME MenuInvariant, NEW v \in Visitors, NEW action \in Actions, Confirmed(v, action)
    PROVE  MenuInvariant'
<1> DEFINE h == menu[v].handler
           e == Settles(v, action)
<1>1. /\ h.step = "confirm" /\ h.action = action /\ current' = v
      /\ agreed' = agreed \cup {[by |-> v, key |-> h.key]}
      /\ execs' = execs \cup {e} /\ sent' = sent + 1
      /\ UNCHANGED <<menu, charges, previewed, chainVars, seedVars>>
  BY DEF Confirmed, HandlerRuns, Sends
<1>2. h \in Handlers /\ sent \in Nat
  BY MenuNodesInType DEF MenuInvariant, MerchantTypeOK
<1>3. e = [id |-> sent + 1, from |-> v, payer |-> current', action |-> action,
           amounts |-> h.amounts, dry |-> FALSE, key |-> h.key, reply |-> "none",
           awaited |-> TRUE]
  BY DEF Settles, Exec
<1>4. AsksAbout(v, h) \in previewed
  BY <1>1 DEF MenuInvariant, HandlersOfPreviews
<1>5. e \in Requests
  BY <1>1, <1>2, <1>3 DEF Requests, Handlers
<1>6. /\ e.payer = e.from /\ e.from = v /\ e.key = h.key
      /\ Preview(e) = AsksAbout(v, h) /\ sent + 1 \in Nat
  BY <1>1, <1>2, <1>3 DEF AsksAbout, Preview
<1> HIDE DEF e, h
<1>7. [by |-> e.from, key |-> e.key] \in agreed' /\ agreed \subseteq agreed'
  BY <1>1, <1>6
<1>8. QED
  BY <1>1, <1>4, <1>5, <1>6, <1>7, SendingKeepsMenu

\* A step that drops requests, or swaps one for what is left of it.
LEMMA RequestsGo ==
    ASSUME MenuInvariant, NEW e \in execs,
           \A u \in execs' : u \in execs \/ u = e \/ u \in Unheard(e),
           previewed \subseteq previewed', agreed' = agreed
    PROVE  execs' \subseteq Requests /\ RequestsAgreed'
<1> USE DEF MenuInvariant
<1>1. e \in Requests /\ execs \subseteq Requests
  BY DEF MerchantTypeOK
<1>2. ASSUME NEW u \in execs'
      PROVE  /\ u \in Requests /\ u.payer = u.from
             /\ ~u.dry => Preview(u) \in previewed' /\ [by |-> u.from, key |-> u.key] \in agreed'
  <2>1. CASE u \in execs
    BY <1>1, <2>1 DEF RequestsAgreed
  <2>2. CASE u \in Unheard(e)
    BY <1>1, <2>2, UnheardIsRequest DEF RequestsAgreed
  <2>3. QED
    BY <1>2, <2>1, <2>2
<1>3. QED
  BY <1>2 DEF RequestsAgreed, Preview

LEMMA ServedKeepsMenu ==
    ASSUME MenuInvariant, NEW e \in execs, NEW reply \in {"ok", "refused"}, Served(e, reply)
    PROVE  MenuInvariant'
<1> USE DEF MenuInvariant
<1>1. UNCHANGED <<menu, sent, previewed, agreed, views, shown, seedVars>>
  BY DEF Served, sessionVars, chainVars
<1>2. e \in Requests /\ execs \subseteq Requests
  BY DEF MerchantTypeOK
<1>3. ASSUME NEW u \in execs' PROVE u \in execs \/ (u = [e EXCEPT !.reply = reply])
  BY DEF Served
<1>4. /\ [e EXCEPT !.reply = reply] \in Requests
      /\ [e EXCEPT !.reply = reply].payer = e.payer /\ [e EXCEPT !.reply = reply].from = e.from
      /\ [e EXCEPT !.reply = reply].dry = e.dry /\ [e EXCEPT !.reply = reply].key = e.key
      /\ Preview([e EXCEPT !.reply = reply]) = Preview(e)
  BY <1>2 DEF Requests, Preview
<1>5. execs' \subseteq Requests
  BY <1>2, <1>3, <1>4
<1>6. RequestsAgreed'
  <2>1. ASSUME NEW u \in execs'
        PROVE  /\ u.payer = u.from
               /\ ~u.dry => Preview(u) \in previewed /\ [by |-> u.from, key |-> u.key] \in agreed
    BY <1>3, <1>4 DEF RequestsAgreed
  <2>2. QED
    BY <1>1, <2>1 DEF RequestsAgreed, Preview
<1>7. ChargesConfirmed'
  <2>1. CASE charges' = charges
    BY <1>1, <2>1 DEF ChargesConfirmed
  <2>2. CASE charges' # charges
    <3> DEFINE x == [id |-> e.id, key |-> e.key, payer |-> e.payer,
                     action |-> e.action, amounts |-> e.amounts]
    <3>1. ~e.dry /\ charges' = charges \cup {x} /\ \A c \in charges : c.key # e.key
      BY <2>2 DEF Served
    <3>2. /\ Preview(e) = [to |-> x.payer, key |-> x.key, action |-> x.action,
                           amounts |-> x.amounts]
          /\ x.payer = e.from /\ x.key = e.key
      BY DEF RequestsAgreed, Preview
    <3>3. Preview(e) \in previewed /\ [by |-> e.from, key |-> e.key] \in agreed
      BY <3>1 DEF RequestsAgreed
    <3> HIDE DEF x
    <3>4. QED
      BY <1>1, <3>1, <3>2, <3>3 DEF ChargesConfirmed
  <2>3. QED
    BY <2>1, <2>2
<1>8. MerchantTypeOK' /\ HandlersOfPreviews' /\ ViewsOwn' /\ MenuBeforeNpc'
  BY <1>1, <1>5 DEF seedVars, MerchantTypeOK, HandlersOfPreviews, AsksAbout, ViewsOwn, MenuBeforeNpc
<1>9. QED
  BY <1>6, <1>7, <1>8

LEMMA AnsweredKeepsMenu ==
    ASSUME MenuInvariant, NEW e \in execs, Answered(e)
    PROVE  MenuInvariant'
<1> USE DEF MenuInvariant
<1>1. /\ execs' = execs \ {e}
      /\ UNCHANGED <<sent, charges, agreed, views, shown, seedVars>>
      /\ previewed \subseteq previewed'
  BY DEF Answered, chainVars
<1>2. e \in Requests
  BY DEF MerchantTypeOK
<1>3. menu' \in [Visitors -> [node : MenuNodes, handler : Handlers]] /\ HandlersOfPreviews'
  <2>1. CASE e.dry /\ e.reply = "ok"
    <3> DEFINE h == Handler("confirm", e.action, e.amounts, e.key)
    <3>1. /\ Result(e.from, menu[e.from].node, h)
          /\ previewed' = previewed \cup {Preview(e)}
      BY <2>1 DEF Answered
    <3>2. h \in Handlers /\ AsksAbout(e.from, h) = Preview(e) /\ e.from \in Visitors
      BY <1>2, BuyHandlerInType DEF Requests, Preview
    <3>3. AsksAbout(e.from, h) \in previewed'
      BY <3>1, <3>2
    <3> HIDE DEF h
    <3>4. QED
      BY <1>1, <3>1, <3>2, <3>3, ResultKeepsMenu, MenuNodesInType
  <2>2. CASE ~(e.dry /\ e.reply = "ok")
    <3>1. Stays(e.from) /\ e.from \in Visitors
      BY <1>2, <2>2 DEF Answered, Requests
    <3>2. QED
      BY <1>1, <3>1, StaysKeepsMenu
  <2>3. QED
    BY <2>1, <2>2
<1>4. execs' \subseteq Requests /\ RequestsAgreed'
  BY <1>1, RequestsGo
<1>5. ChargesConfirmed'
  BY <1>1 DEF ChargesConfirmed
<1>6. MerchantTypeOK' /\ ViewsOwn' /\ MenuBeforeNpc'
  BY <1>1, <1>3, <1>4 DEF seedVars, MerchantTypeOK, ViewsOwn, MenuBeforeNpc
<1>7. QED
  BY <1>3, <1>4, <1>5, <1>6

LEMMA NetworkErrorKeepsMenu ==
    ASSUME MenuInvariant, NEW e \in execs, NetworkError(e)
    PROVE  MenuInvariant'
<1> USE DEF MenuInvariant
<1>1. /\ UNCHANGED <<sent, charges, previewed, agreed, views, shown, seedVars>>
      /\ Stays(e.from)
  BY DEF NetworkError, chainVars
<1>2. \A u \in execs' : u \in execs \/ u \in Unheard(e)
  BY DEF NetworkError
<1>3. execs' \subseteq Requests /\ RequestsAgreed'
  BY <1>1, <1>2, RequestsGo
<1>4. e.from \in Visitors
  BY DEF MerchantTypeOK, Requests
<1>5. menu' \in [Visitors -> [node : MenuNodes, handler : Handlers]] /\ HandlersOfPreviews'
  BY <1>1, <1>4, StaysKeepsMenu
<1>6. QED
  BY <1>1, <1>3, <1>5 DEF seedVars, MerchantTypeOK, ViewsOwn, MenuBeforeNpc, ChargesConfirmed

LEMMA BuyKeepsMenu == ASSUME MenuInvariant, BuyNext PROVE MenuInvariant'
<1>1. ASSUME NEW v \in Visitors, TopupGccFlow(v) \/ BuyGccCcaFlow(v) PROVE MenuInvariant'
  BY <1>1, PickBuyKeepsMenu DEF TopupGccFlow, BuyGccCcaFlow, Actions
<1>2. ASSUME NEW v \in Visitors, NEW usdc \in Sums, TopupGccAmountHandler(v, usdc)
      PROVE  MenuInvariant'
  BY <1>2, PreviewRequestKeepsMenu, <<usdc>> \in Seq(Sums) DEF TopupGccAmountHandler, Actions
<1>3. ASSUME NEW v \in Visitors, NEW currency \in Sums, NEW maxPrice \in Sums,
             BuyGccCcaInputHandler(v, currency, maxPrice)
      PROVE  MenuInvariant'
  BY <1>3, PreviewRequestKeepsMenu, <<currency, maxPrice>> \in Seq(Sums)
     DEF BuyGccCcaInputHandler, Actions
<1>4. ASSUME NEW v \in Visitors, TopupGccConfirmHandler(v) \/ BuyGccCcaConfirmHandler(v)
      PROVE  MenuInvariant'
  BY <1>4, ConfirmedKeepsMenu DEF TopupGccConfirmHandler, BuyGccCcaConfirmHandler, Actions
<1>5. ASSUME NEW v \in Visitors, NotUnderstood(v) PROVE MenuInvariant'
  <2>1. /\ UNCHANGED <<execVars, seedVars, previewed, views, shown>>
        /\ Result(v, menu[v].node, menu[v].handler)
    BY <1>5 DEF NotUnderstood, ExecOff, chainVars, execVars
  <2>2. menu[v].node \in MenuNodes /\ menu[v].handler \in Handlers
    BY MenuNodesInType DEF MenuInvariant
  <2>3. menu[v].handler.step = "confirm" => AsksAbout(v, menu[v].handler) \in previewed'
    BY <2>1 DEF MenuInvariant, HandlersOfPreviews
  <2>4. QED
    BY <2>1, <2>2, <2>3, ResultKeepsMenu, WalkFrame DEF MenuInvariant, ViewsOwn
<1>6. ASSUME NEW v \in Visitors, Declined(v) PROVE MenuInvariant'
  <2>1. UNCHANGED <<execVars, seedVars, previewed, views, shown>> /\ Stays(v)
    BY <1>6 DEF Declined, ExecOff, chainVars, execVars
  <2>2. QED
    BY <2>1, StaysKeepsMenu, WalkFrame DEF MenuInvariant, ViewsOwn
<1>7. QED
  BY <1>1, <1>2, <1>3, <1>4, <1>5, <1>6, ServedKeepsMenu, AnsweredKeepsMenu,
     NetworkErrorKeepsMenu
  DEF BuyNext

LEMMA MenuStep ==
    ASSUME MenuInvariant, [MerchantNext]_merchantVars
    PROVE  MenuInvariant'
<1>1. CASE UNCHANGED merchantVars
  BY <1>1 DEF merchantVars, sessionVars, execVars, chainVars, seedVars, MenuInvariant,
              MerchantTypeOK, HandlersOfPreviews, AsksAbout, RequestsAgreed, Preview,
              ChargesConfirmed, ViewsOwn, MenuBeforeNpc
<1>2. QED
  BY <1>1, SeedKeepsMenu, RestartKeepsMenu, VisitKeepsMenu, WalkKeepsMenu, BuyKeepsMenu
     DEF MerchantNext

\* ai.gg charges a visitor only for a preview that visitor saw and agreed to,
\* once; every balance shown is the visitor's own; an NPC this process created
\* has a menu.  For every number of visitors, amounts, requests and restarts.
THEOREM MenuSafe == MerchantSpec => []MenuKept
<1>1. MerchantInit => MenuInvariant
  BY MenuInit
<1>2. MenuInvariant /\ [MerchantNext]_merchantVars => MenuInvariant'
  BY MenuStep
<1>3. MenuInvariant => MenuKept
  BY DEF MenuInvariant, MenuKept, ViewsOwn, MenuBeforeNpc
<1>4. QED
  BY <1>1, <1>2, <1>3, PTL DEF MerchantSpec

-----------------------------------------------------------------------------
(***************************************************************************)
(* The books of what NPCs pay.                                             *)
(***************************************************************************)

BillSteps == {"save", "nonce", "submit", "book", "set", "mirror"}
BillRecords == [pc : BillSteps, server : Servers, npc : Agents, cost : Costs,
                nonce : Nat, seen : Nat]

PayTypeOK ==
    /\ strategy \in {"ledger", "permit", "verify", "exact"}
    /\ nonces \in [Wallets -> Nat] /\ paid \in [Wallets -> Nat]
    /\ local \in [Servers -> [Agents -> Nat]] /\ world \in [Agents -> Nat]
    /\ bill \in [Bills -> {NoBill} \cup BillRecords]

\* The indices handed out are 0..next-1, one for each NPC that has one, and
\* the host has stored those below some index.
Paired(pairs, n) ==
    /\ pairs \subseteq [npc : Agents, idx : Nat] /\ n \in Nat
    /\ \A i \in Nat : i < n <=> \E p \in pairs : p.idx = i
    /\ \A p, q \in pairs : p.npc = q.npc <=> p.idx = q.idx
KeysOK ==
    /\ Paired(index, next)
    /\ \E n \in Nat : n <= next /\ saved = {p \in index : p.idx < n}

\* What a wallet has paid belongs to an NPC whose index the host has stored;
\* so does the wallet of every bill that may sign.
WalletsStored ==
    /\ \A w \in Wallets : paid[w] > 0 => \E p \in saved : p.idx = w
    /\ \A b \in Bills : bill[b] # NoBill =>
        /\ Indexed(bill[b].npc)
        /\ bill[b].pc # "save" => \E p \in saved : p.npc = bill[b].npc

Spent(npc) == IF Indexed(npc) THEN paid[WalletOf(npc)] ELSE 0

\* What an NPC paid and no server has read the books for yet.
OwedBy(npc) == [b \in Bills |-> IF bill[b].pc = "book" /\ bill[b].npc = npc
                                THEN bill[b].cost ELSE 0]
Owed(npc) == SumOf(OwedBy(npc), Bills)

\* No book, and nothing a bill is about to write, exceeds what was paid less
\* what is still to be booked.
Within(npc) ==
    /\ world[npc] + Owed(npc) <= Spent(npc)
    /\ \A s \in Servers : local[s][npc] + Owed(npc) <= Spent(npc)
    /\ \A b \in Bills : bill[b].pc \in {"set", "mirror"} /\ bill[b].npc = npc =>
                            bill[b].seen + bill[b].cost + Owed(npc) <= Spent(npc)

Concerns(b, npc) == bill[b] # NoBill /\ bill[b].npc = npc

\* While nothing overlapped or got lost, the World lags by the one bill.
Exact(npc) ==
    /\ \A b, c \in Bills : Concerns(b, npc) /\ Concerns(c, npc) => b = c
    /\ ~Overlapping(npc) => world[npc] = Spent(npc)
    /\ \A b \in Bills : Concerns(b, npc) =>
        /\ bill[b].pc \in {"save", "nonce", "submit"} => world[npc] = Spent(npc)
        /\ bill[b].pc \in {"book", "set", "mirror"} => world[npc] + bill[b].cost = Spent(npc)
        /\ bill[b].pc \in {"set", "mirror"} => bill[b].seen = world[npc]

Pays == strategy \in {"permit", "exact"}
BooksOK ==
    Pays => \A npc \in Agents :
                Within(npc) /\ (readThrough /\ npc \notin unsure => Exact(npc))

PayInvariant == PayTypeOK /\ KeysOK /\ WalletsStored /\ BooksOK

LEMMA BillFacts ==
    ASSUME PayTypeOK, NEW b \in Bills
    PROVE  /\ bill[b] = NoBill => bill[b].pc = "idle"
           /\ bill[b] # NoBill => bill[b] \in BillRecords
           /\ \A r \in BillRecords : r # NoBill /\ r.pc # "idle"
BY DEF PayTypeOK, NoBill, BillRecords, BillSteps

\* Every index handed out is that of a wallet.
LEMMA PairsFit ==
    ASSUME NEW pairs, NEW n, Paired(pairs, n)
    PROVE  n <= Cardinality(Agents) /\ \A p \in pairs : p.idx \in Wallets
<1> USE DEF Paired
<1> DEFINE f == [i \in 0..(n - 1) |-> (CHOOSE p \in pairs : p.idx = i).npc]
<1>1. ASSUME NEW i \in 0..(n - 1)
      PROVE  \E p \in pairs : p.idx = i /\ f[i] = p.npc
  <2>1. i \in Nat /\ i < n
    OBVIOUS
  <2>2. \E p \in pairs : p.idx = i
    BY <2>1
  <2>3. QED
    BY <2>2
<1>2. f \in [0..(n - 1) -> Agents]
  BY <1>1
<1>3. ASSUME NEW i \in 0..(n - 1), NEW j \in 0..(n - 1), f[i] = f[j] PROVE i = j
  <2> HIDE DEF f
  <2>1. QED
    BY <1>1, <1>3
<1>4. f \in Injection(0..(n - 1), Agents)
  <2> HIDE DEF f
  <2>1. QED
    BY <1>2, <1>3 DEF Injection, IsInjective
<1>5. Cardinality(0..(n - 1)) <= Cardinality(Agents)
  <2> HIDE DEF f
  <2>1. QED
    BY <1>4, FS_Injection, PayAssumption
<1>6. Cardinality(0..(n - 1)) = n
  <2>1. n - 1 \in Int /\ 0 \in Int
    OBVIOUS
  <2>2. QED
    BY <2>1, FS_Interval
<1>7. Cardinality(Agents) \in Nat
  BY FS_CardinalityType, PayAssumption
<1>8. QED
  BY <1>5, <1>6, <1>7 DEF Wallets

LEMMA WalletOfPair ==
    ASSUME KeysOK, NEW p \in index
    PROVE  /\ Indexed(p.npc) /\ WalletOf(p.npc) = p.idx
           /\ p.idx \in Wallets /\ Spent(p.npc) = paid[p.idx]
<1>1. Indexed(p.npc)
  BY DEF Indexed
<1>2. WalletOf(p.npc) = p.idx
  BY DEF WalletOf, KeysOK, Paired
<1>3. QED
  BY <1>1, <1>2, PairsFit DEF KeysOK, Spent

LEMMA SpentIsNat ==
    ASSUME PayTypeOK, KeysOK, NEW npc
    PROVE  Spent(npc) \in Nat
<1>1. CASE Indexed(npc)
  BY <1>1, WalletOfPair DEF Indexed, PayTypeOK
<1>2. CASE ~Indexed(npc)
  BY <1>2 DEF Spent
<1>3. QED
  BY <1>1, <1>2

LEMMA OwedIsNat ==
    ASSUME PayTypeOK, NEW npc
    PROVE  Owed(npc) \in Nat /\ \A b \in Bills : OwedBy(npc)[b] \in Nat
<1>1. \A b \in Bills : OwedBy(npc)[b] \in Nat
  BY BillFacts, PayAssumption DEF OwedBy, BillRecords
<1>2. QED
  BY <1>1, SumType, PayAssumption DEF Owed

\* One bill changes: what is owed changes by that bill.
LEMMA OwedChanges ==
    ASSUME PayTypeOK, PayTypeOK', NEW b \in Bills, NEW npc,
           \A c \in Bills \ {b} : bill'[c] = bill[c]
    PROVE  Owed(npc)' + OwedBy(npc)[b] = Owed(npc) + OwedBy(npc)'[b]
<1>1. \A c \in Bills : OwedBy(npc)[c] \in Nat /\ OwedBy(npc)'[c] \in Nat
  <2>1. \A c \in Bills : OwedBy(npc)[c] \in Nat
    BY OwedIsNat
  <2>2. ASSUME NEW c \in Bills PROVE OwedBy(npc)'[c] \in Nat
    <3>1. bill'[c] \in {NoBill} \cup BillRecords
      BY DEF PayTypeOK
    <3>2. bill'[c].pc = "book" => bill'[c].cost \in Nat
      <4>1. ASSUME bill'[c] \in BillRecords PROVE bill'[c].cost \in Nat
        BY <4>1, PayAssumption DEF BillRecords
      <4>2. bill'[c] = NoBill => bill'[c].pc = "idle"
        BY DEF NoBill
      <4>3. QED
        BY <3>1, <4>1, <4>2
    <3>3. QED
      BY <3>2 DEF OwedBy
  <2>3. QED
    BY <2>1, <2>2
<1>2. \A c \in Bills \ {b} : OwedBy(npc)[c] = OwedBy(npc)'[c]
  BY DEF OwedBy
<1>3. SumOf(OwedBy(npc)', Bills) + OwedBy(npc)[b] = SumOf(OwedBy(npc), Bills) + OwedBy(npc)'[b]
  BY <1>1, <1>2, SumUpdate, PayAssumption
<1>4. QED
  BY <1>3 DEF Owed

BooksOf(npc) == Within(npc) /\ (readThrough /\ npc \notin unsure => Exact(npc))

\* The books of an NPC that no change is about.
LEMMA SameBooks ==
    ASSUME PayTypeOK, PayTypeOK', NEW npc \in Agents, BooksOf(npc),
           \A b \in Bills : Concerns(b, npc) \/ Concerns(b, npc)' => bill'[b] = bill[b],
           world'[npc] = world[npc], \A s \in Servers : local'[s][npc] = local[s][npc],
           Spent(npc)' = Spent(npc), readThrough' = readThrough,
           npc \in unsure => npc \in unsure'
    PROVE  BooksOf(npc)'
<1>1. \A b \in Bills : OwedBy(npc)'[b] = OwedBy(npc)[b]
  <2>1. ASSUME NEW b \in Bills, ~Concerns(b, npc), ~Concerns(b, npc)'
        PROVE  OwedBy(npc)'[b] = OwedBy(npc)[b]
    <3>1. OwedBy(npc)[b] = 0
      BY <2>1 DEF OwedBy, Concerns, NoBill
    <3>2. OwedBy(npc)'[b] = 0
      BY <2>1 DEF OwedBy, Concerns, NoBill
    <3>3. QED
      BY <3>1, <3>2
  <2>2. QED
    BY <2>1 DEF OwedBy
<1>2. Owed(npc)' = Owed(npc)
  BY <1>1, SumSame DEF Owed
<1>3. \A b \in Bills : Concerns(b, npc)' => Concerns(b, npc) /\ bill'[b] = bill[b]
  BY DEF Concerns
<1>4. \A b \in Bills : bill'[b].pc \in {"set", "mirror"} => bill'[b] # NoBill
  BY DEF NoBill
<1>5. Within(npc)'
  BY <1>2, <1>3, <1>4 DEF Within, BooksOf, Concerns
<1>6. Overlapping(npc)' <=> Overlapping(npc)
  BY <1>3 DEF Overlapping, Concerns
<1>7. Exact(npc) => Exact(npc)'
  BY <1>3, <1>6 DEF Exact, Concerns
<1>8. QED
  BY <1>5, <1>7 DEF BooksOf

LEMMA KeysStand ==
    ASSUME UNCHANGED keyVars
    PROVE  /\ KeysOK => KeysOK'
           /\ \A npc : /\ Indexed(npc)' <=> Indexed(npc)
                       /\ WalletOf(npc)' = WalletOf(npc)
           /\ paid' = paid => \A npc : Spent(npc)' = Spent(npc)
BY DEF keyVars, KeysOK, Indexed, WalletOf, Spent

\* A bill past its save moves on, ends or throws: the rest stands.
LEMMA BillMoves ==
    ASSUME PayInvariant, NEW b \in Bills, bill[b] # NoBill, bill[b].pc # "save",
           NEW n \in Agents, n = bill[b].npc,
           NEW r \in {NoBill} \cup BillRecords, bill' = [bill EXCEPT ![b] = r],
           r # NoBill => r.npc = n,
           UNCHANGED <<modeVars, keyVars>>,
           paid' \in [Wallets -> Nat], nonces' \in [Wallets -> Nat],
           world' \in [Agents -> Nat], local' \in [Servers -> [Agents -> Nat]],
           \A w \in Wallets : paid'[w] > 0 => paid[w] > 0 \/ w = WalletOf(n),
           \A npc \in Agents \ {n} :
                /\ Spent(npc)' = Spent(npc) /\ world'[npc] = world[npc]
                /\ \A s \in Servers : local'[s][npc] = local[s][npc]
                /\ npc \in unsure => npc \in unsure',
           Pays => BooksOf(n)'
    PROVE  PayInvariant'
<1> USE DEF PayInvariant
<1>1. bill[b] \in BillRecords
  BY BillFacts DEF BillRecords
<1>2. PayTypeOK'
  BY DEF PayTypeOK, modeVars
<1>3. KeysOK' /\ saved' = saved /\ index' = index /\ readThrough' = readThrough /\ strategy' = strategy
  BY KeysStand DEF keyVars, modeVars
<1>4. PICK p \in saved : p.npc = n
  BY DEF WalletsStored
<1>5. WalletOf(n) = p.idx
  BY <1>4, WalletOfPair DEF KeysOK
<1>6. WalletsStored'
  <2>1. ASSUME NEW w \in Wallets, paid'[w] > 0 PROVE \E q \in saved : q.idx = w
    BY <1>4, <1>5, <2>1 DEF WalletsStored
  <2>2. ASSUME NEW c \in Bills, bill'[c] # NoBill
        PROVE  /\ Indexed(bill'[c].npc)
               /\ bill'[c].pc # "save" => \E q \in saved : q.npc = bill'[c].npc
    <3>1. CASE c = b
      <4>1. bill'[c].npc = n
        BY <2>2, <3>1 DEF PayTypeOK
      <4>2. QED
        BY <1>4, <4>1 DEF WalletsStored
    <3>2. CASE c # b
      <4>1. bill'[c] = bill[c]
        BY <3>2 DEF PayTypeOK
      <4>2. QED
        BY <2>2, <4>1 DEF WalletsStored
    <3>3. QED
      BY <3>1, <3>2
  <2>3. QED
    BY <1>3, <2>1, <2>2 DEF WalletsStored, Indexed, Wallets
<1>7. ASSUME Pays, NEW npc \in Agents, npc # n PROVE BooksOf(npc)'
  <2>1. BooksOf(npc)
    BY <1>7 DEF BooksOK, BooksOf
  <2>2. ASSUME NEW c \in Bills, Concerns(c, npc) \/ Concerns(c, npc)' PROVE bill'[c] = bill[c]
    <3>1. c # b
      <4>1. ~Concerns(b, npc)
        BY <1>7 DEF Concerns
      <4>2. bill'[b] = r
        BY DEF PayTypeOK
      <4>3. ~Concerns(b, npc)'
        BY <1>7, <4>2 DEF Concerns
      <4>4. QED
        BY <2>2, <4>1, <4>3
    <3>2. QED
      BY <3>1 DEF PayTypeOK
  <2>3. QED
    BY <1>2, <1>3, <1>7, <2>1, <2>2, SameBooks
<1>8. BooksOK'
  BY <1>3, <1>7 DEF BooksOK, BooksOf, Pays
<1>9. QED
  BY <1>2, <1>3, <1>6, <1>8

\* What is owed for an NPC when one of its bills gets the record r.
OwedIn(r) == IF r.pc = "book" THEN r.cost ELSE 0

LEMMA OwedMoves ==
    ASSUME PayTypeOK, PayTypeOK', NEW b \in Bills, NEW n \in Agents, Concerns(b, n),
           NEW r \in {NoBill} \cup BillRecords, bill' = [bill EXCEPT ![b] = r],
           r # NoBill => r.npc = n
    PROVE  /\ Owed(n)' + OwedIn(bill[b]) = Owed(n) + OwedIn(r)
           /\ Owed(n) \in Nat /\ Owed(n)' \in Nat
<1>1. bill'[b] = r /\ \A c \in Bills \ {b} : bill'[c] = bill[c]
  BY DEF PayTypeOK
<1>2. OwedBy(n)[b] = OwedIn(bill[b])
  BY DEF OwedBy, OwedIn, Concerns
<1>3. OwedBy(n)'[b] = OwedIn(r)
  <2>1. OwedBy(n)'[b] = IF bill'[b].pc = "book" /\ bill'[b].npc = n THEN bill'[b].cost ELSE 0
    BY DEF OwedBy
  <2>2. r.pc = "book" => r.npc = n
    BY DEF NoBill
  <2>3. QED
    BY <1>1, <2>1, <2>2 DEF OwedIn
<1>4. Owed(n)' \in Nat
  <2>1. \A c \in Bills : OwedBy(n)[c] \in Nat
    BY OwedIsNat
  <2>2. OwedIn(r) \in Nat
    <3>1. r \in BillRecords => r.cost \in Nat
      BY PayAssumption DEF BillRecords
    <3>2. r = NoBill => r.pc = "idle"
      BY DEF NoBill
    <3>3. QED
      BY <3>1, <3>2 DEF OwedIn
  <2>3. \A c \in Bills : OwedBy(n)'[c] \in Nat
    BY <1>1, <1>3, <2>1, <2>2 DEF OwedBy
  <2>4. QED
    BY <2>3, SumType, PayAssumption DEF Owed
<1>5. QED
  BY <1>1, <1>2, <1>3, <1>4, OwedChanges, OwedIsNat

\* The books of the NPC whose bill moves: what its new record must satisfy.
LEMMA BooksMove ==
    ASSUME PayTypeOK, PayTypeOK', KeysOK, KeysOK', NEW b \in Bills, NEW n \in Agents,
           Concerns(b, n), BooksOf(n), readThrough' = readThrough,
           NEW r \in {NoBill} \cup BillRecords, bill' = [bill EXCEPT ![b] = r],
           r # NoBill => r.npc = n,
           world'[n] + Owed(n)' <= Spent(n)',
           \A s \in Servers : local'[s][n] + Owed(n)' <= Spent(n)',
           r.pc \in {"set", "mirror"} => r.seen + r.cost + Owed(n)' <= Spent(n)',
           Owed(n)' + Spent(n) <= Owed(n) + Spent(n)',
           readThrough /\ n \notin unsure' =>
                /\ n \notin unsure
                /\ r = NoBill \/ r.pc \in {"save", "nonce", "submit"} => world'[n] = Spent(n)'
                /\ r.pc \in {"book", "set", "mirror"} => world'[n] + r.cost = Spent(n)'
                /\ r.pc \in {"set", "mirror"} => r.seen = world'[n]
    PROVE  BooksOf(n)'
<1>1. bill'[b] = r /\ \A c \in Bills \ {b} : bill'[c] = bill[c]
  BY DEF PayTypeOK
<1>2. /\ Owed(n) \in Nat /\ Spent(n) \in Nat
      /\ Owed(n)' \in Nat /\ Spent(n)' \in Nat
  <2>1. Owed(n) \in Nat /\ Spent(n) \in Nat
    BY OwedIsNat, SpentIsNat
  <2>2. Spent(n)' \in Nat
    <3>1. CASE Indexed(n)'
      <4>1. PICK p \in index' : p.npc = n
        BY <3>1 DEF Indexed
      <4>2. WalletOf(n)' = p.idx
        BY <4>1 DEF WalletOf, KeysOK, Paired
      <4>3. p.idx \in Wallets
        BY <4>1, PairsFit DEF KeysOK
      <4>4. QED
        BY <3>1, <4>2, <4>3 DEF Spent, PayTypeOK, Wallets
    <3>2. CASE ~Indexed(n)'
      BY <3>2 DEF Spent
    <3>3. QED
      BY <3>1, <3>2
  <2>3. Owed(n)' \in Nat
    BY OwedMoves
  <2>4. QED
    BY <2>1, <2>2, <2>3
<1>3. ASSUME NEW c \in Bills, bill'[c].pc \in {"set", "mirror"}, bill'[c].npc = n
      PROVE  bill'[c].seen + bill'[c].cost + Owed(n)' <= Spent(n)'
  <2>1. CASE c = b
    BY <1>1, <1>3, <2>1
  <2>2. CASE c # b
    <3>1. bill[c] # NoBill /\ bill'[c] = bill[c]
      BY <1>1, <1>3, <2>2 DEF NoBill
    <3>2. bill[c].seen + bill[c].cost + Owed(n) <= Spent(n)
      BY <1>3, <3>1 DEF BooksOf, Within
    <3>3. bill[c].seen \in Nat /\ bill[c].cost \in Nat
      BY <3>1, BillFacts, PayAssumption DEF BillRecords
    <3>4. QED
      BY <1>2, <3>1, <3>2, <3>3
  <2>3. QED
    BY <2>1, <2>2
<1>4. Within(n)'
  BY <1>3 DEF Within
<1>5. ASSUME readThrough', n \notin unsure' PROVE Exact(n)'
  <2>1. Exact(n)
    BY <1>5 DEF BooksOf
  <2>2. \A c \in Bills : bill'[c] # NoBill /\ bill'[c].npc = n => c = b
    BY <1>1, <2>1 DEF Exact, Concerns
  <2>3. ~Overlapping(n)' => world'[n] = Spent(n)'
    BY <1>1, <1>5 DEF Overlapping
  <2>4. /\ r.pc \in {"save", "nonce", "submit"} => world'[n] = Spent(n)'
        /\ r.pc \in {"book", "set", "mirror"} => world'[n] + r.cost = Spent(n)'
        /\ r.pc \in {"set", "mirror"} => r.seen = world'[n]
    BY <1>5
  <2>5. ASSUME NEW c \in Bills, bill'[c] # NoBill, bill'[c].npc = n
        PROVE  bill'[c] = r
    BY <1>1, <2>2, <2>5
  <2>6. QED
    BY <2>2, <2>3, <2>4, <2>5 DEF Exact, Concerns
<1>6. QED
  BY <1>4, <1>5 DEF BooksOf

\* A bill in one of the steps after its save, and the NPC it is of.
LEMMA BillOf ==
    ASSUME PayInvariant, NEW b \in Bills, bill[b].pc # "idle"
    PROVE  /\ bill[b] \in BillRecords /\ bill[b] # NoBill
           /\ bill[b].npc \in Agents /\ bill[b].server \in Servers
           /\ bill[b].cost \in Nat /\ bill[b].seen \in Nat
           /\ Concerns(b, bill[b].npc)
           /\ Pays => BooksOf(bill[b].npc)
<1>1. bill[b] \in BillRecords /\ bill[b] # NoBill
  BY BillFacts DEF PayInvariant
<1>2. QED
  BY <1>1, PayAssumption DEF PayInvariant, BillRecords, BooksOK, BooksOf, Concerns

\* The wallet of a bill past its save.
LEMMA BillWallet ==
    ASSUME PayInvariant, NEW b \in Bills, bill[b].pc \notin {"idle", "save"}
    PROVE  /\ WalletOf(bill[b].npc) \in Wallets
           /\ Spent(bill[b].npc) = paid[WalletOf(bill[b].npc)]
<1>1. PICK p \in saved : p.npc = bill[b].npc
  BY BillOf DEF PayInvariant, WalletsStored
<1>2. p \in index
  BY <1>1 DEF PayInvariant, KeysOK
<1>3. QED
  BY <1>1, <1>2, WalletOfPair DEF PayInvariant

\* A bill that has not paid moves on to pay, or throws: the books stand.
LEMMA PlainMove ==
    ASSUME PayInvariant, NEW b \in Bills, bill[b].pc \in {"nonce", "submit"},
           NEW n \in Agents, n = bill[b].npc,
           NEW r \in {NoBill} \cup BillRecords, bill' = [bill EXCEPT ![b] = r],
           r # NoBill => r.npc = n /\ r.pc = "submit",
           UNCHANGED <<modeVars, keyVars, nonces, paid, local, world, unsure>>
    PROVE  PayInvariant'
<1>1. strategy' = strategy /\ readThrough' = readThrough
  BY DEF modeVars
<1>2. /\ bill[b] \in BillRecords /\ Concerns(b, n) /\ (Pays => BooksOf(n)) /\ bill[b] # NoBill
  BY BillOf
<1>3. PayTypeOK' /\ KeysOK'
  BY <1>1, KeysStand DEF PayInvariant, PayTypeOK
<1>4. \A npc : Spent(npc)' = Spent(npc)
  BY KeysStand
<1>5. Owed(n)' = Owed(n) /\ Owed(n) \in Nat /\ Spent(n) \in Nat
  <2>1. /\ Owed(n)' + OwedIn(bill[b]) = Owed(n) + OwedIn(r)
        /\ Owed(n) \in Nat /\ Owed(n)' \in Nat
    BY <1>2, <1>3, OwedMoves DEF PayInvariant
  <2>2. OwedIn(bill[b]) = 0 /\ OwedIn(r) = 0
    BY DEF OwedIn, NoBill
  <2>3. QED
    BY <2>1, <2>2, SpentIsNat DEF PayInvariant
<1>6. ASSUME Pays PROVE BooksOf(n)'
  <2>1. BooksOf(n)
    BY <1>2, <1>6
  <2>2. /\ world'[n] + Owed(n)' <= Spent(n)'
        /\ \A s \in Servers : local'[s][n] + Owed(n)' <= Spent(n)'
    BY <1>4, <1>5, <2>1 DEF BooksOf, Within
  <2>3. r.pc \notin {"book", "set", "mirror", "save"}
    BY DEF NoBill
  <2>4. Owed(n)' + Spent(n) <= Owed(n) + Spent(n)'
    BY <1>4, <1>5
  <2>5. ASSUME readThrough, n \notin unsure'
        PROVE  n \notin unsure /\ world'[n] = Spent(n)'
    BY <1>2, <1>4, <2>1, <2>5 DEF BooksOf, Exact
  <2>6. QED
    BY <1>1, <1>2, <1>3, <2>1, <2>2, <2>3, <2>4, <2>5, BooksMove DEF PayInvariant
<1>7. QED
  BY <1>1, <1>2, <1>3, <1>4, <1>6, BillMoves DEF PayInvariant, PayTypeOK

LEMMA NonceReadKeepsBooks ==
    ASSUME PayInvariant, NEW b \in Bills, NonceRead(b)
    PROVE  PayInvariant'
<1>1. /\ bill[b].pc = "nonce"
      /\ UNCHANGED <<modeVars, keyVars, nonces, paid, local, world, unsure>>
  BY DEF NonceRead, BillAt, tokenVars, bookVars
<1>2. PICK n \in Agents : n = bill[b].npc
  BY <1>1, BillOf
<1> DEFINE r == [bill[b] EXCEPT !.pc = "submit", !.nonce = nonces[WalletOf(n)]]
<1>3. bill' = [bill EXCEPT ![b] = r]
  BY <1>2 DEF NonceRead, PayInvariant, PayTypeOK
<1>4. nonces[WalletOf(n)] \in Nat /\ bill[b] \in BillRecords
  BY <1>1, <1>2, BillWallet, BillOf DEF PayInvariant, PayTypeOK
<1>5. r \in BillRecords /\ r.npc = n /\ r.pc = "submit"
  BY <1>2, <1>4 DEF BillRecords, BillSteps
<1> HIDE DEF r
<1>6. QED
  BY <1>1, <1>2, <1>3, <1>5, PlainMove

LEMMA VerifiedKeepsBooks ==
    ASSUME PayInvariant, NEW b \in Bills, NEW valid \in BOOLEAN, Verified(b, valid)
    PROVE  PayInvariant'
<1>1. /\ bill[b].pc = "submit" /\ strategy = "verify" /\ strategy' = strategy
      /\ UNCHANGED <<modeVars, keyVars, nonces, paid, local, world, unsure>>
  BY DEF Verified, BillAt, tokenVars, bookVars, modeVars
<1>2. PICK n \in Agents : n = bill[b].npc
  BY <1>1, BillOf
<1> DEFINE r == IF valid THEN [bill[b] EXCEPT !.pc = "book"] ELSE NoBill
<1>3. bill' = [bill EXCEPT ![b] = r]
  BY DEF Verified, PayInvariant, PayTypeOK, BillGoes, BillThrows
<1>4. bill[b] \in BillRecords /\ bill[b] # NoBill
  BY <1>1, BillOf
<1>5. r \in {NoBill} \cup BillRecords /\ (r # NoBill => r.npc = n)
  BY <1>2, <1>4 DEF BillRecords, BillSteps
<1> HIDE DEF r
<1>6. \A npc : Spent(npc)' = Spent(npc)
  BY <1>1, KeysStand
<1>7. ~Pays
  BY <1>1 DEF Pays
<1>8. QED
  BY <1>1, <1>2, <1>3, <1>4, <1>5, <1>6, <1>7, BillMoves DEF PayInvariant, PayTypeOK

LEMMA SubmittedKeepsBooks ==
    ASSUME PayInvariant, NEW b \in Bills, NEW answer \in {"success", "refused", "lost"},
           Submitted(b, answer)
    PROVE  PayInvariant'
<1>1. /\ bill[b].pc = "submit" /\ Pays
      /\ UNCHANGED <<modeVars, keyVars, local, world>>
      /\ strategy' = strategy /\ readThrough' = readThrough
  BY DEF Submitted, BillAt, Pays, bookVars, modeVars
<1>2. PICK n \in Agents : n = bill[b].npc
  BY <1>1, BillOf
<1>3. /\ bill[b] \in BillRecords /\ bill[b] # NoBill /\ Concerns(b, n) /\ BooksOf(n)
      /\ bill[b].cost \in Nat
  BY <1>1, <1>2, BillOf
<1>4. CASE answer = "refused"
  <2>1. UNCHANGED <<nonces, paid, unsure>> /\ bill' = [bill EXCEPT ![b] = NoBill]
    BY <1>4 DEF Submitted, Succeeded, tokenVars, BillThrows
  <2>2. QED
    BY <1>1, <1>2, <2>1, PlainMove
<1>5. CASE answer # "refused"
  <2> DEFINE w == WalletOf(n)
             cost == bill[b].cost
             r == IF answer = "success" THEN [bill[b] EXCEPT !.pc = "book"] ELSE NoBill
  <2>1. w \in Wallets /\ Spent(n) = paid[w]
    BY <1>1, <1>2, BillWallet
  <2>2. Payment(b).from = w /\ Payment(b).value = cost
    BY <1>2 DEF Payment, Permit, Authorization
  <2>3. /\ paid' = [paid EXCEPT ![w] = @ + cost]
        /\ nonces' = nonces \/ nonces' = [nonces EXCEPT ![w] = @ + 1]
    BY <1>5, <2>2 DEF Submitted, Charge
  <2>4. bill' = [bill EXCEPT ![b] = r]
    BY <1>5 DEF Submitted, Succeeded, BillGoes, BillThrows, PayInvariant, PayTypeOK
  <2>5. unsure' = IF answer = "success" THEN unsure ELSE unsure \cup {n}
    BY <1>2, <1>5 DEF Submitted, Lags
  <2>6. /\ r \in {NoBill} \cup BillRecords /\ (r # NoBill => r.npc = n)
        /\ answer = "success" => r.pc = "book" /\ r.cost = cost /\ r # NoBill
        /\ answer # "success" => r = NoBill
    BY <1>2, <1>3, BillFacts DEF BillRecords, BillSteps, PayInvariant
  <2> HIDE DEF r
  <2>7. paid' \in [Wallets -> Nat] /\ nonces' \in [Wallets -> Nat]
    BY <1>3, <2>1, <2>3 DEF PayInvariant, PayTypeOK
  <2>8. PayTypeOK' /\ KeysOK'
    <3>1. bill' \in [Bills -> {NoBill} \cup BillRecords]
      BY <2>4, <2>6 DEF PayInvariant, PayTypeOK
    <3>2. QED
      BY <1>1, <2>7, <3>1, KeysStand DEF PayInvariant, PayTypeOK, Wallets
  <2>9. Spent(n)' = Spent(n) + cost
    <3>1. Indexed(n) /\ Indexed(n)' /\ WalletOf(n)' = w
      BY <1>1, <1>2, <1>3, KeysStand DEF PayInvariant, WalletsStored
    <3>2. paid'[w] = paid[w] + cost
      BY <2>1, <2>3 DEF PayInvariant, PayTypeOK
    <3>3. QED
      BY <2>1, <3>1, <3>2 DEF Spent
  <2>10. ASSUME NEW m \in Agents, m # n PROVE Spent(m)' = Spent(m)
    <3>1. CASE Indexed(m)
      <4>1. PICK p \in index : p.npc = m
        BY <3>1 DEF Indexed
      <4>2. PICK q \in index : q.npc = n
        BY <1>2, <1>3 DEF PayInvariant, WalletsStored, Indexed
      <4>3. p.idx # q.idx
        BY <2>10, <4>1, <4>2 DEF PayInvariant, KeysOK, Paired
      <4>4. WalletOf(m) = p.idx /\ w = q.idx
        BY <4>1, <4>2, WalletOfPair DEF PayInvariant
      <4>5. paid'[WalletOf(m)] = paid[WalletOf(m)]
        BY <2>1, <2>3, <4>1, <4>3, <4>4, WalletOfPair DEF PayInvariant, PayTypeOK
      <4>6. QED
        BY <1>1, <3>1, <4>5, KeysStand DEF Spent
    <3>2. CASE ~Indexed(m)
      BY <1>1, <3>2, KeysStand DEF Spent
    <3>3. QED
      BY <3>1, <3>2
  <2>11. ASSUME NEW v \in Wallets, paid'[v] > 0 PROVE paid[v] > 0 \/ v = w
    BY <2>3, <2>11 DEF PayInvariant, PayTypeOK
  <2>12. /\ Owed(n)' = Owed(n) + (IF answer = "success" THEN cost ELSE 0)
         /\ Owed(n) \in Nat /\ Spent(n) \in Nat
    <3>1. /\ Owed(n)' + OwedIn(bill[b]) = Owed(n) + OwedIn(r)
          /\ Owed(n) \in Nat /\ Owed(n)' \in Nat
      BY <1>3, <2>4, <2>6, <2>8, OwedMoves DEF PayInvariant
    <3>2. OwedIn(bill[b]) = 0 /\ OwedIn(r) = IF answer = "success" THEN cost ELSE 0
      BY <1>1, <2>6 DEF OwedIn, NoBill
    <3>3. QED
      BY <1>3, <3>1, <3>2, SpentIsNat DEF PayInvariant
  <2>13. BooksOf(n)'
    <3>1. /\ world'[n] + Owed(n)' <= Spent(n)'
          /\ \A s \in Servers : local'[s][n] + Owed(n)' <= Spent(n)'
      <4>1. /\ world[n] \in Nat /\ world[n] + Owed(n) <= Spent(n)
            /\ \A s \in Servers : local[s][n] \in Nat /\ local[s][n] + Owed(n) <= Spent(n)
        BY <1>3 DEF BooksOf, Within, PayInvariant, PayTypeOK
      <4>2. QED
        BY <1>1, <1>3, <2>9, <2>12, <4>1
    <3>2. r.pc \notin {"set", "mirror", "save", "nonce", "submit"}
      BY <2>6 DEF NoBill
    <3>3. Owed(n)' + Spent(n) <= Owed(n) + Spent(n)'
      BY <1>3, <2>9, <2>12
    <3>4. ASSUME readThrough, n \notin unsure'
          PROVE  n \notin unsure /\ r # NoBill /\ world'[n] + r.cost = Spent(n)'
      <4>1. n \notin unsure /\ answer = "success"
        BY <2>5, <3>4
      <4>2. world[n] = Spent(n)
        BY <1>1, <1>3, <3>4, <4>1 DEF BooksOf, Exact
      <4>3. QED
        BY <1>1, <2>6, <2>9, <4>1, <4>2
    <3>5. QED
      BY <1>1, <1>3, <2>4, <2>6, <2>8, <3>1, <3>2, <3>3, <3>4, BooksMove DEF PayInvariant
  <2>14. QED
    BY <1>1, <1>2, <1>3, <2>4, <2>5, <2>6, <2>7, <2>10, <2>11, <2>13, BillMoves
       DEF PayInvariant, PayTypeOK
<1>6. QED
  BY <1>4, <1>5

LEMMA RecordReadsKeepsBooks ==
    ASSUME PayInvariant, NEW b \in Bills, RecordReads(b)
    PROVE  PayInvariant'
<1>1. /\ bill[b].pc = "book" /\ UNCHANGED <<modeVars, keyVars, nonces, paid, local, world, unsure>>
      /\ strategy' = strategy /\ readThrough' = readThrough
  BY DEF RecordReads, BillAt, bookVars, tokenVars, modeVars
<1>2. PICK n \in Agents : n = bill[b].npc
  BY <1>1, BillOf
<1>3. /\ bill[b] \in BillRecords /\ bill[b] # NoBill /\ Concerns(b, n) /\ (Pays => BooksOf(n))
      /\ bill[b].cost \in Nat /\ bill[b].server \in Servers
  BY <1>1, <1>2, BillOf
<1> DEFINE seen == IF readThrough THEN world[n] ELSE local[bill[b].server][n]
           r == [bill[b] EXCEPT !.pc = "set", !.seen = seen]
<1>4. bill' = [bill EXCEPT ![b] = r]
  BY <1>2 DEF RecordReads, GetRecord, PayInvariant, PayTypeOK
<1>5. world[n] \in Nat /\ local[bill[b].server][n] \in Nat
  BY <1>3 DEF PayInvariant, PayTypeOK
<1>6. /\ r \in BillRecords /\ r # NoBill /\ r.npc = n /\ r.pc = "set"
      /\ r.cost = bill[b].cost /\ r.seen = seen
  BY <1>2, <1>3, <1>5, BillFacts DEF BillRecords, BillSteps, PayInvariant
<1> HIDE DEF r
<1>7. PayTypeOK' /\ KeysOK'
  BY <1>1, <1>4, <1>6, KeysStand DEF PayInvariant, PayTypeOK, Wallets
<1>8. \A npc : Spent(npc)' = Spent(npc)
  BY <1>1, KeysStand
<1>9. Owed(n)' + bill[b].cost = Owed(n) /\ Owed(n)' \in Nat /\ Owed(n) \in Nat /\ Spent(n) \in Nat
  <2>1. /\ Owed(n)' + OwedIn(bill[b]) = Owed(n) + OwedIn(r)
        /\ Owed(n) \in Nat /\ Owed(n)' \in Nat
    BY <1>3, <1>4, <1>6, <1>7, OwedMoves DEF PayInvariant
  <2>2. OwedIn(bill[b]) = bill[b].cost /\ OwedIn(r) = 0
    BY <1>1, <1>6 DEF OwedIn
  <2>3. QED
    BY <1>3, <2>1, <2>2, SpentIsNat DEF PayInvariant
<1>10. ASSUME Pays PROVE BooksOf(n)'
  <2>1. BooksOf(n)
    BY <1>3, <1>10
  <2>2. /\ world[n] + Owed(n) <= Spent(n)
        /\ \A s \in Servers : local[s][n] \in Nat /\ local[s][n] + Owed(n) <= Spent(n)
    BY <2>1 DEF BooksOf, Within, PayInvariant, PayTypeOK
  <2>3. /\ world'[n] + Owed(n)' <= Spent(n)'
        /\ \A s \in Servers : local'[s][n] + Owed(n)' <= Spent(n)'
    BY <1>1, <1>3, <1>5, <1>8, <1>9, <2>2
  <2>4. seen \in Nat /\ seen + Owed(n) <= Spent(n)
    BY <1>3, <1>5, <2>2
  <2> HIDE DEF seen
  <2>5. r.seen + r.cost + Owed(n)' <= Spent(n)'
    BY <1>3, <1>6, <1>8, <1>9, <2>4
  <2>6. Owed(n)' + Spent(n) <= Owed(n) + Spent(n)'
    BY <1>3, <1>8, <1>9
  <2>7. ASSUME readThrough, n \notin unsure'
        PROVE  n \notin unsure /\ world'[n] + r.cost = Spent(n)' /\ r.seen = world'[n]
    BY <1>1, <1>3, <1>6, <1>8, <2>1, <2>7 DEF BooksOf, Exact, seen
  <2>8. r.pc \notin {"save", "nonce", "submit"} /\ r # NoBill
    BY <1>6
  <2>9. QED
    BY <1>1, <1>3, <1>4, <1>6, <1>7, <2>1, <2>3, <2>5, <2>6, <2>7, <2>8, BooksMove DEF PayInvariant
<1>11. QED
  BY <1>1, <1>2, <1>3, <1>4, <1>6, <1>8, <1>10, BillMoves DEF PayInvariant, PayTypeOK

LEMMA SetsLocalKeepsBooks ==
    ASSUME PayInvariant, NEW b \in Bills, SetsLocal(b)
    PROVE  PayInvariant'
<1>1. /\ bill[b].pc = "set" /\ UNCHANGED <<modeVars, keyVars, nonces, paid, world, unsure>>
      /\ strategy' = strategy /\ readThrough' = readThrough
  BY DEF SetsLocal, BillAt, tokenVars, modeVars
<1>2. PICK n \in Agents : n = bill[b].npc
  BY <1>1, BillOf
<1>3. /\ bill[b] \in BillRecords /\ bill[b] # NoBill /\ Concerns(b, n) /\ (Pays => BooksOf(n))
      /\ bill[b].cost \in Nat /\ bill[b].seen \in Nat /\ bill[b].server \in Servers
  BY <1>1, <1>2, BillOf
<1> DEFINE r == [bill[b] EXCEPT !.pc = "mirror"]
           total == bill[b].seen + bill[b].cost
<1>4. /\ bill' = [bill EXCEPT ![b] = r]
      /\ local' = [local EXCEPT ![bill[b].server][n] = total]
  BY <1>2 DEF SetsLocal, BillGoes, PayInvariant, PayTypeOK
<1>5. /\ local' \in [Servers -> [Agents -> Nat]]
      /\ \A s \in Servers : local'[s][n] = local[s][n] \/ local'[s][n] = total
      /\ \A s \in Servers, m \in Agents : m # n => local'[s][m] = local[s][m]
  BY <1>3, <1>4 DEF PayInvariant, PayTypeOK
<1>6. /\ r \in BillRecords /\ r # NoBill /\ r.npc = n /\ r.pc = "mirror"
      /\ r.cost = bill[b].cost /\ r.seen = bill[b].seen
  BY <1>2, <1>3, BillFacts DEF BillRecords, BillSteps, PayInvariant
<1> HIDE DEF r
<1>7. PayTypeOK' /\ KeysOK'
  BY <1>1, <1>4, <1>5, <1>6, KeysStand DEF PayInvariant, PayTypeOK, Wallets
<1>8. \A npc : Spent(npc)' = Spent(npc)
  BY <1>1, KeysStand
<1>9. Owed(n)' = Owed(n) /\ Owed(n) \in Nat /\ Spent(n) \in Nat
  <2>1. /\ Owed(n)' + OwedIn(bill[b]) = Owed(n) + OwedIn(r)
        /\ Owed(n) \in Nat /\ Owed(n)' \in Nat
    BY <1>3, <1>4, <1>6, <1>7, OwedMoves DEF PayInvariant
  <2>2. OwedIn(bill[b]) = 0 /\ OwedIn(r) = 0
    BY <1>1, <1>6 DEF OwedIn
  <2>3. QED
    BY <2>1, <2>2, SpentIsNat DEF PayInvariant
<1>10. ASSUME Pays PROVE BooksOf(n)'
  <2>1. BooksOf(n)
    BY <1>3, <1>10
  <2>2. total + Owed(n) <= Spent(n)
    BY <1>1, <1>2, <2>1 DEF BooksOf, Within
  <2>3. /\ world'[n] + Owed(n)' <= Spent(n)'
        /\ \A s \in Servers : local'[s][n] + Owed(n)' <= Spent(n)'
    BY <1>1, <1>5, <1>8, <1>9, <2>1, <2>2 DEF BooksOf, Within
  <2>4. r.seen + r.cost + Owed(n)' <= Spent(n)'
    BY <1>6, <1>8, <1>9, <2>2
  <2>5. Owed(n)' + Spent(n) <= Owed(n) + Spent(n)'
    BY <1>8, <1>9
  <2>6. ASSUME readThrough, n \notin unsure'
        PROVE  n \notin unsure /\ world'[n] + r.cost = Spent(n)' /\ r.seen = world'[n]
    BY <1>1, <1>3, <1>6, <1>8, <2>1, <2>6 DEF BooksOf, Exact
  <2>7. r.pc \notin {"save", "nonce", "submit"} /\ r # NoBill
    BY <1>6
  <2>8. QED
    BY <1>1, <1>3, <1>4, <1>6, <1>7, <2>1, <2>3, <2>4, <2>5, <2>6, <2>7, BooksMove DEF PayInvariant
<1>11. QED
  BY <1>1, <1>2, <1>3, <1>4, <1>5, <1>6, <1>8, <1>10, BillMoves DEF PayInvariant, PayTypeOK

LEMMA SetsRecordKeepsBooks ==
    ASSUME PayInvariant, NEW b \in Bills, NEW lands \in BOOLEAN, SetsRecord(b, lands)
    PROVE  PayInvariant'
<1>1. /\ bill[b].pc = "mirror" /\ UNCHANGED <<modeVars, keyVars, nonces, paid, local>>
      /\ strategy' = strategy /\ readThrough' = readThrough
      /\ bill' = [bill EXCEPT ![b] = NoBill]
  BY DEF SetsRecord, BillAt, BillThrows, tokenVars, modeVars
<1>2. PICK n \in Agents : n = bill[b].npc
  BY <1>1, BillOf
<1>3. /\ bill[b] \in BillRecords /\ bill[b] # NoBill /\ Concerns(b, n) /\ (Pays => BooksOf(n))
      /\ bill[b].cost \in Nat /\ bill[b].seen \in Nat
  BY <1>1, <1>2, BillOf
<1> DEFINE total == bill[b].seen + bill[b].cost
<1>4. /\ unsure' = IF lands THEN unsure ELSE unsure \cup {n}
      /\ world' = IF lands THEN [world EXCEPT ![n] = total] ELSE world
  BY <1>2 DEF SetsRecord, KvCall, Lags
<1>5. /\ world' \in [Agents -> Nat]
      /\ \A m \in Agents : m # n => world'[m] = world[m]
      /\ lands => world'[n] = total
      /\ world'[n] = world[n] \/ world'[n] = total
  BY <1>3, <1>4 DEF PayInvariant, PayTypeOK
<1>6. PayTypeOK' /\ KeysOK'
  BY <1>1, <1>5, KeysStand DEF PayInvariant, PayTypeOK, Wallets
<1>7. \A npc : Spent(npc)' = Spent(npc)
  BY <1>1, KeysStand
<1>8. Owed(n)' = Owed(n) /\ Owed(n) \in Nat /\ Spent(n) \in Nat
  <2>1. /\ Owed(n)' + OwedIn(bill[b]) = Owed(n) + OwedIn(NoBill)
        /\ Owed(n) \in Nat /\ Owed(n)' \in Nat
    BY <1>1, <1>3, <1>6, OwedMoves DEF PayInvariant
  <2>2. OwedIn(bill[b]) = 0 /\ OwedIn(NoBill) = 0
    BY <1>1 DEF OwedIn, NoBill
  <2>3. QED
    BY <2>1, <2>2, SpentIsNat DEF PayInvariant
<1>9. ASSUME Pays PROVE BooksOf(n)'
  <2>1. BooksOf(n)
    BY <1>3, <1>9
  <2>2. total + Owed(n) <= Spent(n)
    BY <1>1, <1>2, <2>1 DEF BooksOf, Within
  <2>3. /\ world'[n] + Owed(n)' <= Spent(n)'
        /\ \A s \in Servers : local'[s][n] + Owed(n)' <= Spent(n)'
    BY <1>1, <1>5, <1>7, <1>8, <2>1, <2>2 DEF BooksOf, Within
  <2>4. Owed(n)' + Spent(n) <= Owed(n) + Spent(n)'
    BY <1>7, <1>8
  <2>5. ASSUME readThrough, n \notin unsure'
        PROVE  n \notin unsure /\ world'[n] = Spent(n)'
    <3>1. lands /\ n \notin unsure
      BY <1>4, <2>5
    <3>2. world[n] + bill[b].cost = Spent(n) /\ bill[b].seen = world[n]
      BY <1>1, <1>3, <2>1, <2>5, <3>1 DEF BooksOf, Exact
    <3>3. QED
      BY <1>5, <1>7, <3>1, <3>2
  <2>6. NoBill.pc = "idle"
    BY DEF NoBill
  <2>7. QED
    BY <1>1, <1>3, <1>6, <2>1, <2>3, <2>4, <2>5, <2>6, BooksMove DEF PayInvariant
<1>10. QED
  BY <1>1, <1>2, <1>3, <1>4, <1>5, <1>7, <1>9, BillMoves DEF PayInvariant, PayTypeOK

LEMMA PersistsKeepsBooks ==
    ASSUME PayInvariant, NEW b \in Bills, Persists(b)
    PROVE  PayInvariant'
<1>1. /\ bill[b].pc = "save" /\ saved' = index
      /\ UNCHANGED <<modeVars, index, next, nonces, paid, local, world, unsure>>
      /\ strategy' = strategy /\ readThrough' = readThrough
  BY DEF Persists, BillAt, bookVars, tokenVars, modeVars
<1>2. PICK n \in Agents : n = bill[b].npc
  BY <1>1, BillOf
<1>3. /\ bill[b] \in BillRecords /\ bill[b] # NoBill /\ Concerns(b, n) /\ (Pays => BooksOf(n))
  BY <1>1, <1>2, BillOf
<1> DEFINE goes == CASE strategy = "ledger" -> "book"
                     [] strategy = "permit" -> "nonce"
                     [] OTHER -> "submit"
           r == [bill[b] EXCEPT !.pc = goes]
<1>4. bill' = [bill EXCEPT ![b] = r]
  BY <1>2 DEF Persists, BillGoes, PayInvariant, PayTypeOK
<1>5. /\ r \in BillRecords /\ r # NoBill /\ r.npc = n
      /\ Pays => r.pc \in {"nonce", "submit"}
  BY <1>2, <1>3, BillFacts DEF BillRecords, BillSteps, PayInvariant, Pays
<1> HIDE DEF r
<1>6. /\ \A c \in Bills \ {b} : bill'[c] = bill[c]
      /\ bill'[b] = r
  BY <1>4 DEF PayInvariant, PayTypeOK
<1>7. PayTypeOK'
  BY <1>1, <1>4, <1>5 DEF PayInvariant, PayTypeOK, Wallets
<1>8. KeysOK'
  <2>1. index = {p \in index : p.idx < next}
    BY DEF PayInvariant, KeysOK, Paired
  <2>2. next \in Nat /\ next <= next
    BY DEF PayInvariant, KeysOK, Paired
  <2>3. Paired(index', next')
    BY <1>1 DEF PayInvariant, KeysOK
  <2>4. QED
    BY <1>1, <2>1, <2>2, <2>3 DEF KeysOK
<1>9. \A npc : (Indexed(npc)' <=> Indexed(npc)) /\ Spent(npc)' = Spent(npc)
  BY <1>1 DEF Indexed, Spent, WalletOf
<1>10. WalletsStored'
  <2>1. saved \subseteq index
    BY DEF PayInvariant, KeysOK
  <2>2. \A w \in Wallets : paid[w] > 0 => \E p \in index : p.idx = w
    BY <2>1 DEF PayInvariant, WalletsStored
  <2>3. ASSUME NEW c \in Bills, bill'[c] # NoBill PROVE Indexed(bill'[c].npc)
    <3>1. bill[c] # NoBill /\ bill'[c].npc = bill[c].npc
      BY <1>2, <1>3, <1>5, <1>6, <2>3
    <3>2. QED
      BY <3>1 DEF PayInvariant, WalletsStored
  <2>4. QED
    BY <1>1, <2>2, <2>3 DEF WalletsStored, Indexed, Wallets
<1>11. ASSUME Pays, NEW m \in Agents PROVE BooksOf(m)'
  <2>1. BooksOf(m)
    BY <1>11 DEF PayInvariant, BooksOK, BooksOf
  <2>2. CASE m # n
    <3>1. ASSUME NEW c \in Bills, Concerns(c, m) \/ Concerns(c, m)' PROVE bill'[c] = bill[c]
      <4>1. c # b
        BY <1>2, <1>5, <1>6, <2>2, <3>1 DEF Concerns
      <4>2. QED
        BY <1>6, <4>1
    <3>2. QED
      BY <1>1, <1>7, <1>9, <2>1, <3>1, SameBooks DEF PayInvariant
  <2>3. CASE m = n
    <3>1. Owed(n)' = Owed(n) /\ Owed(n) \in Nat /\ Spent(n) \in Nat
      <4>1. /\ Owed(n)' + OwedIn(bill[b]) = Owed(n) + OwedIn(r)
            /\ Owed(n) \in Nat /\ Owed(n)' \in Nat
        BY <1>3, <1>4, <1>5, <1>7, OwedMoves DEF PayInvariant
      <4>2. OwedIn(bill[b]) = 0 /\ OwedIn(r) = 0
        BY <1>1, <1>5, <1>11 DEF OwedIn
      <4>3. QED
        BY <4>1, <4>2, SpentIsNat DEF PayInvariant
    <3>2. /\ world'[n] + Owed(n)' <= Spent(n)'
          /\ \A s \in Servers : local'[s][n] + Owed(n)' <= Spent(n)'
      BY <1>1, <1>9, <2>1, <2>3, <3>1 DEF BooksOf, Within
    <3>3. Owed(n)' + Spent(n) <= Owed(n) + Spent(n)'
      BY <1>9, <3>1
    <3>4. ASSUME readThrough, n \notin unsure'
          PROVE  n \notin unsure /\ world'[n] = Spent(n)'
      BY <1>1, <1>3, <1>9, <2>1, <2>3, <3>4 DEF BooksOf, Exact
    <3>5. r.pc \notin {"book", "set", "mirror"} /\ r # NoBill
      BY <1>5, <1>11
    <3>6. QED
      BY <1>1, <1>3, <1>4, <1>5, <1>7, <1>8, <2>1, <2>3, <3>2, <3>3, <3>4, <3>5, BooksMove
         DEF PayInvariant
  <2>4. QED
    BY <2>2, <2>3
<1>12. QED
  BY <1>1, <1>7, <1>8, <1>10, <1>11 DEF PayInvariant, BooksOK, BooksOf, Pays

\* A new index is the next one, of a wallet that has paid nothing yet.
LEMMA IndexForKeepsKeys ==
    ASSUME PayInvariant, NEW npc \in Agents, IndexFor(npc), UNCHANGED <<saved, paid>>
    PROVE  /\ KeysOK' /\ index \subseteq index' /\ Indexed(npc)'
           /\ \A m : Spent(m)' = Spent(m)
<1>1. CASE Indexed(npc) /\ UNCHANGED <<index, next>>
  BY <1>1 DEF PayInvariant, KeysOK, Indexed, Spent, WalletOf
<1>2. CASE /\ ~Indexed(npc) /\ next < MaxHardened
           /\ index' = index \cup {[npc |-> npc, idx |-> next]}
           /\ next' = next + 1
  <2> DEFINE new == [npc |-> npc, idx |-> next]
  <2>1. Paired(index, next) /\ next \in Nat
    BY DEF PayInvariant, KeysOK, Paired
  <2>0. new \in index' /\ new.npc = npc /\ new.idx = next
    BY <1>2
  <2>2. \A p \in index : p \in [npc : Agents, idx : Nat] /\ p.npc # npc /\ p.idx < next
    BY <1>2, <2>1 DEF Paired, Indexed
  <2>3. /\ index' \subseteq [npc : Agents, idx : Nat]
        /\ \A p, q \in index' : p.npc = q.npc <=> p.idx = q.idx
    BY <1>2, <2>1, <2>2 DEF Paired
  <2>4. ASSUME NEW i \in Nat PROVE i < next + 1 <=> \E p \in index' : p.idx = i
    <3>1. CASE i = next
      BY <2>0, <2>1, <3>1
    <3>2. CASE i # next
      <4>1. i < next + 1 <=> i < next
        BY <2>1, <3>2
      <4>2. (\E p \in index' : p.idx = i) <=> \E p \in index : p.idx = i
        BY <1>2, <3>2
      <4>3. QED
        BY <2>1, <4>1, <4>2 DEF Paired
    <3>3. QED
      BY <3>1, <3>2
  <2>5. Paired(index', next')
    BY <1>2, <2>1, <2>3, <2>4 DEF Paired
  <2>6. PICK n \in Nat : n <= next /\ saved = {p \in index : p.idx < n}
    BY DEF PayInvariant, KeysOK
  <2>7. n <= next' /\ saved' = {p \in index' : p.idx < n}
    BY <1>2, <2>1, <2>6
  <2>8. KeysOK'
    BY <2>5, <2>7 DEF KeysOK
  <2>9. Indexed(npc)' /\ WalletOf(npc)' = next
    BY <2>0, <2>3 DEF Indexed, WalletOf
  <2>10. next \in Wallets
    <3>1. \A p \in index' : p.idx \in Wallets
      BY <2>5, PairsFit
    <3>2. QED
      BY <2>0, <3>1
  <2>11. paid[next] = 0
    <3>1. \A p \in saved : p.idx # next
      BY <2>1, <2>2, <2>6
    <3>2. paid[next] \in Nat /\ ~(paid[next] > 0)
      BY <2>10, <3>1 DEF PayInvariant, PayTypeOK, WalletsStored
    <3>3. QED
      BY <3>2
  <2>12. ASSUME NEW m PROVE Spent(m)' = Spent(m)
    <3>1. CASE m = npc
      BY <1>2, <2>9, <2>11, <3>1 DEF Spent
    <3>2. CASE m # npc
      <4>1. \A p : p \in index' /\ p.npc = m <=> p \in index /\ p.npc = m
        BY <1>2, <3>2
      <4>2. (Indexed(m)' <=> Indexed(m)) /\ WalletOf(m)' = WalletOf(m)
        BY <4>1 DEF Indexed, WalletOf
      <4>3. QED
        BY <4>2 DEF Spent
    <3>3. QED
      BY <3>1, <3>2
  <2>13. QED
    BY <1>2, <2>8, <2>9, <2>12
<1>3. QED
  BY <1>1, <1>2 DEF IndexFor

LEMMA SettleCalledKeepsBooks ==
    ASSUME PayInvariant, NEW b \in Bills, NEW server \in Servers, NEW n \in Agents,
           NEW cost \in Costs, SettleCalled(b, server, n, cost)
    PROVE  PayInvariant'
<1> DEFINE r == [pc |-> "save", server |-> server, npc |-> n, cost |-> cost,
                 nonce |-> 0, seen |-> 0]
<1>1. /\ bill[b] = NoBill /\ IndexFor(n) /\ bill' = [bill EXCEPT ![b] = r]
      /\ UNCHANGED <<modeVars, saved, nonces, paid, local, world>>
      /\ strategy' = strategy /\ readThrough' = readThrough
      /\ unsure' = IF Overlapping(n) THEN unsure \cup {n} ELSE unsure
  BY DEF SettleCalled, bookVars, tokenVars, modeVars
<1>2. r \in BillRecords /\ r.npc = n /\ r.pc = "save" /\ r # NoBill
  BY BillFacts DEF BillRecords, BillSteps, PayInvariant
<1> HIDE DEF r
<1>3. KeysOK' /\ index \subseteq index' /\ Indexed(n)' /\ \A m : Spent(m)' = Spent(m)
  BY <1>1, IndexForKeepsKeys
<1>4. PayTypeOK'
  BY <1>1, <1>2 DEF PayInvariant, PayTypeOK, Wallets
<1>5. bill'[b] = r /\ \A c \in Bills \ {b} : bill'[c] = bill[c]
  BY <1>1 DEF PayInvariant, PayTypeOK
<1>6. WalletsStored'
  <2>1. ASSUME NEW c \in Bills, bill'[c] # NoBill
        PROVE  /\ \E p \in index' : p.npc = bill'[c].npc
               /\ bill'[c].pc # "save" => \E p \in saved : p.npc = bill'[c].npc
    <3>1. CASE c = b
      BY <1>2, <1>3, <1>5, <3>1 DEF Indexed
    <3>2. CASE c # b
      BY <1>3, <1>5, <2>1, <3>2 DEF PayInvariant, WalletsStored, Indexed
    <3>3. QED
      BY <3>1, <3>2
  <2>2. \A w \in Wallets : paid'[w] > 0 => \E p \in saved' : p.idx = w
    BY <1>1 DEF WalletsStored, PayInvariant
  <2>3. QED
    BY <1>1, <2>1, <2>2 DEF WalletsStored, Wallets, Indexed
<1>7. NoBill.pc = "idle"
  BY DEF NoBill
<1>8. \A m : Owed(m)' = Owed(m)
  <2>1. ASSUME NEW m, NEW c \in Bills PROVE OwedBy(m)'[c] = OwedBy(m)[c]
    BY <1>1, <1>2, <1>5, <1>7 DEF OwedBy
  <2>2. QED
    BY <2>1, SumSame DEF Owed
<1>9. ASSUME Pays, NEW m \in Agents PROVE BooksOf(m)'
  <2>1. BooksOf(m)
    BY <1>9 DEF PayInvariant, BooksOK, BooksOf
  <2>2. CASE m # n
    <3>1. ASSUME NEW c \in Bills, Concerns(c, m) \/ Concerns(c, m)' PROVE bill'[c] = bill[c]
      <4>1. c # b
        BY <1>1, <1>2, <1>5, <2>2, <3>1 DEF Concerns
      <4>2. QED
        BY <1>5, <4>1
    <3>2. m \in unsure => m \in unsure'
      BY <1>1
    <3>3. QED
      BY <1>1, <1>3, <1>4, <2>1, <3>1, <3>2, SameBooks DEF PayInvariant
  <2>3. CASE m = n
    <3>1. Within(n)'
      <4>1. ASSUME NEW c \in Bills, bill'[c].pc \in {"set", "mirror"} PROVE bill'[c] = bill[c]
        BY <1>2, <1>5, <4>1
      <4>2. QED
        BY <1>1, <1>3, <1>8, <2>1, <2>3, <4>1 DEF BooksOf, Within
    <3>2. ASSUME readThrough', n \notin unsure' PROVE Exact(n)'
      <4>1. ~Overlapping(n) /\ n \notin unsure /\ readThrough
        BY <1>1, <3>2
      <4>2. world[n] = Spent(n)
        BY <2>1, <2>3, <4>1 DEF BooksOf, Exact
      <4>3. \A c \in Bills : Concerns(c, n)' => c = b
        BY <1>5, <4>1 DEF Overlapping, Concerns
      <4>4. QED
        BY <1>1, <1>2, <1>3, <1>5, <4>2, <4>3 DEF Exact
    <3>3. QED
      BY <2>3, <3>1, <3>2 DEF BooksOf
  <2>4. QED
    BY <2>2, <2>3
<1>10. QED
  BY <1>1, <1>3, <1>4, <1>6, <1>9 DEF PayInvariant, BooksOK, BooksOf, Pays

LEMMA DeletesKeepsBooks ==
    ASSUME PayInvariant, NEW server \in Servers, NEW n \in Agents, NEW lands \in BOOLEAN,
           Deletes(server, n, lands)
    PROVE  PayInvariant'
<1>1. /\ UNCHANGED <<modeVars, keyVars, nonces, paid, bill>>
      /\ strategy' = strategy /\ readThrough' = readThrough
      /\ unsure' = unsure \cup {n}
      /\ local' = [local EXCEPT ![server][n] = 0]
      /\ world' = world \/ world' = [world EXCEPT ![n] = 0]
  BY DEF Deletes, tokenVars, modeVars, Lags, KvCall
<1>2. /\ world' \in [Agents -> Nat] /\ local' \in [Servers -> [Agents -> Nat]]
      /\ \A m \in Agents : world'[m] = world[m] \/ (m = n /\ world'[m] = 0)
      /\ \A s \in Servers, m \in Agents : local'[s][m] = local[s][m] \/ (m = n /\ local'[s][m] = 0)
      /\ \A m \in Agents : world[m] \in Nat
      /\ \A s \in Servers, m \in Agents : local[s][m] \in Nat
  <2>1. world \in [Agents -> Nat] /\ local \in [Servers -> [Agents -> Nat]]
    BY DEF PayInvariant, PayTypeOK
  <2>2. /\ world' \in [Agents -> Nat]
        /\ \A m \in Agents : world'[m] = world[m] \/ (m = n /\ world'[m] = 0)
    BY <1>1, <2>1
  <2>3. /\ local' \in [Servers -> [Agents -> Nat]]
        /\ \A s \in Servers, m \in Agents : local'[s][m] = local[s][m] \/ (m = n /\ local'[s][m] = 0)
    BY <1>1, <2>1
  <2>4. QED
    BY <2>1, <2>2, <2>3
<1>3. PayTypeOK' /\ KeysOK'
  BY <1>1, <1>2, KeysStand DEF PayInvariant, PayTypeOK, Wallets
<1>4. \A m : Spent(m)' = Spent(m)
  BY <1>1, KeysStand
<1>5. WalletsStored'
  BY <1>1 DEF PayInvariant, WalletsStored, keyVars, Wallets, Indexed
<1>6. ASSUME Pays, NEW m \in Agents PROVE BooksOf(m)'
  <2>1. BooksOf(m)
    BY <1>6 DEF PayInvariant, BooksOK, BooksOf
  <2>2. CASE m # n
    BY <1>1, <1>2, <1>3, <1>4, <2>1, <2>2, SameBooks DEF PayInvariant
  <2>3. CASE m = n
    <3>1. Owed(n)' = Owed(n) /\ Owed(n) \in Nat /\ Spent(n) \in Nat
      BY <1>1, OwedIsNat, SpentIsNat DEF Owed, OwedBy, PayInvariant
    <3>2. /\ world[n] + Owed(n) <= Spent(n)
          /\ \A s \in Servers : local[s][n] + Owed(n) <= Spent(n)
      BY <2>1, <2>3 DEF BooksOf, Within
    <3>3. /\ world'[n] + Owed(n)' <= Spent(n)'
          /\ \A s \in Servers : local'[s][n] + Owed(n)' <= Spent(n)'
      BY <1>2, <1>4, <3>1, <3>2
    <3>4. \A c \in Bills : bill[c].pc \in {"set", "mirror"} /\ bill[c].npc = n =>
                             bill[c].seen + bill[c].cost + Owed(n)' <= Spent(n)'
      BY <1>4, <2>1, <2>3, <3>1 DEF BooksOf, Within
    <3>5. Within(n)'
      BY <1>1, <3>3, <3>4 DEF Within
    <3>6. QED
      BY <1>1, <2>3, <3>5 DEF BooksOf
  <2>4. QED
    BY <2>2, <2>3
<1>7. QED
  BY <1>1, <1>3, <1>5, <1>6 DEF PayInvariant, BooksOK, BooksOf, Pays

\* The registry starts again at the index after the last one that was stored.
LEMMA NextFreeIs ==
    ASSUME KeysOK, NEW n \in Nat, n <= next, saved = {p \in index : p.idx < n}
    PROVE  NextFree(saved) = n /\ Paired(saved, n)
<1>1. Paired(index, next)
  BY DEF KeysOK
<1>2. \A i \in Nat : i < n <=> \E p \in saved : p.idx = i
  BY <1>1 DEF Paired
<1>3. Paired(saved, n)
  BY <1>1, <1>2 DEF Paired
<1>4. CASE n = 0
  <2>1. saved = {}
    BY <1>1, <1>4 DEF Paired
  <2>2. QED
    BY <1>3, <1>4, <2>1 DEF NextFree
<1>5. CASE n # 0
  <2> DEFINE Top == CHOOSE k \in {p.idx : p \in saved} : \A p \in saved : p.idx <= k
  <2>1. n - 1 \in Nat /\ n - 1 < n
    BY <1>5
  <2>2. PICK q \in saved : q.idx = n - 1
    BY <1>2, <2>1
  <2>3. \A p \in saved : p.idx \in Nat /\ p.idx <= n - 1
    BY <1>1 DEF Paired
  <2>4. Top \in {p.idx : p \in saved} /\ \A p \in saved : p.idx <= Top
    BY <2>2, <2>3
  <2>5. Top = n - 1
    BY <2>2, <2>3, <2>4
  <2>6. NextFree(saved) = 1 + Top
    BY <2>2 DEF NextFree
  <2> HIDE DEF Top
  <2>7. QED
    BY <1>3, <2>5, <2>6
<1>6. QED
  BY <1>4, <1>5

LEMMA RestartsKeepsBooks == ASSUME PayInvariant, Restarts PROVE PayInvariant'
<1>1. /\ index' = saved /\ next' = NextFree(saved) /\ saved' = saved
      /\ bill' = [b \in Bills |-> NoBill]
      /\ local' = [s \in Servers |-> [npc \in Agents |-> 0]]
      /\ unsure' = unsure \cup {npc \in Agents : Overlapping(npc)}
      /\ UNCHANGED <<modeVars, nonces, paid, world>>
      /\ strategy' = strategy /\ readThrough' = readThrough
  BY DEF Restarts, tokenVars, modeVars
<1>2. PICK n \in Nat : n <= next /\ saved = {p \in index : p.idx < n}
  BY DEF PayInvariant, KeysOK
<1>3. NextFree(saved) = n /\ Paired(saved, n)
  BY <1>2, NextFreeIs DEF PayInvariant
<1>4. PayTypeOK'
  BY <1>1 DEF PayInvariant, PayTypeOK, Wallets
<1>5. KeysOK'
  <2>1. saved = {p \in saved : p.idx < n} /\ n <= n
    BY <1>2
  <2>2. QED
    BY <1>1, <1>3, <2>1 DEF KeysOK
<1>6. WalletsStored'
  BY <1>1 DEF PayInvariant, WalletsStored, Wallets
<1>7. ASSUME NEW m \in Agents PROVE Spent(m)' = Spent(m)
  <2>1. CASE \E p \in saved : p.npc = m
    <3>1. PICK p \in saved : p.npc = m
      BY <2>1
    <3>2. p \in index /\ Spent(m) = paid[p.idx]
      BY <1>2, <3>1, WalletOfPair DEF PayInvariant
    <3>3. Indexed(m)' /\ WalletOf(m)' = p.idx
      BY <1>1, <1>3, <3>1 DEF Indexed, WalletOf, Paired
    <3>4. QED
      BY <1>1, <3>2, <3>3 DEF Spent
  <2>2. CASE ~ \E p \in saved : p.npc = m
    <3>1. Spent(m)' = 0
      BY <1>1, <2>2 DEF Spent, Indexed
    <3>2. Spent(m) = 0
      <4>1. CASE Indexed(m)
        <5>1. PICK p \in index : p.npc = m
          BY <4>1 DEF Indexed
        <5>2. Spent(m) = paid[p.idx] /\ p.idx \in Wallets
          BY <5>1, WalletOfPair DEF PayInvariant
        <5>3. ~(paid[p.idx] > 0)
          <6>1. ASSUME NEW q \in saved, q.idx = p.idx PROVE FALSE
            BY <1>2, <2>2, <5>1, <6>1 DEF PayInvariant, KeysOK, Paired
          <6>2. QED
            BY <5>2, <6>1 DEF PayInvariant, WalletsStored
        <5>4. paid[p.idx] \in Nat
          BY <5>2 DEF PayInvariant, PayTypeOK
        <5>5. QED
          BY <5>2, <5>3, <5>4
      <4>2. CASE ~Indexed(m)
        BY <4>2 DEF Spent
      <4>3. QED
        BY <4>1, <4>2
    <3>3. QED
      BY <3>1, <3>2
  <2>3. QED
    BY <2>1, <2>2
<1>8. NoBill.pc = "idle"
  BY DEF NoBill
<1>9. ASSUME NEW m \in Agents PROVE Owed(m)' = 0
  <2>1. \A b \in Bills : OwedBy(m)'[b] = 0
    BY <1>1, <1>8 DEF OwedBy
  <2>2. SumOf(OwedBy(m)', Bills) = 0 * Cardinality(Bills)
    BY <2>1, SumConstant, PayAssumption
  <2>3. Cardinality(Bills) \in Nat
    BY FS_CardinalityType, PayAssumption
  <2>4. QED
    BY <2>2, <2>3 DEF Owed
<1>10. ASSUME Pays, NEW m \in Agents PROVE BooksOf(m)'
  <2>1. BooksOf(m)
    BY <1>10 DEF PayInvariant, BooksOK, BooksOf
  <2>2. /\ world[m] \in Nat /\ Owed(m) \in Nat /\ Spent(m) \in Nat
        /\ world[m] + Owed(m) <= Spent(m)
    BY <2>1, OwedIsNat, SpentIsNat DEF BooksOf, Within, PayInvariant, PayTypeOK
  <2>3. /\ world'[m] + Owed(m)' <= Spent(m)'
        /\ \A s \in Servers : local'[s][m] + Owed(m)' <= Spent(m)'
    BY <1>1, <1>7, <1>9, <2>2
  <2>4. \A b \in Bills : bill'[b] = NoBill
    BY <1>1
  <2>5. Within(m)'
    BY <1>8, <2>3, <2>4 DEF Within
  <2>6. ASSUME readThrough', m \notin unsure' PROVE Exact(m)'
    <3>1. ~Overlapping(m) /\ m \notin unsure /\ readThrough
      BY <1>1, <2>6
    <3>2. world'[m] = Spent(m)'
      BY <1>1, <1>7, <2>1, <3>1 DEF BooksOf, Exact
    <3>3. QED
      BY <2>4, <3>2 DEF Exact, Concerns
  <2>7. QED
    BY <2>5, <2>6 DEF BooksOf
<1>11. QED
  BY <1>1, <1>4, <1>5, <1>6, <1>10 DEF PayInvariant, BooksOK, BooksOf, Pays

LEMMA PayStutters ==
    ASSUME PayInvariant,
           UNCHANGED <<modeVars, keyVars, tokenVars, bookVars, bill, unsure>>
    PROVE  PayInvariant'
<1> USE DEF modeVars, keyVars, tokenVars, bookVars
<1>1. PayTypeOK' /\ KeysOK' /\ WalletsStored'
  BY KeysStand DEF PayInvariant, PayTypeOK, WalletsStored, Wallets, Indexed
<1>2. \A m : Spent(m)' = Spent(m)
  BY KeysStand
<1>3. ASSUME Pays, NEW m \in Agents PROVE BooksOf(m)'
  BY <1>1, <1>2, <1>3, SameBooks DEF PayInvariant, BooksOK, BooksOf
<1>4. QED
  BY <1>1, <1>3 DEF PayInvariant, BooksOK, BooksOf, Pays

LEMMA PayStarts == ASSUME PayInit PROVE PayInvariant
<1>1. PayTypeOK
  BY DEF PayInit, PayTypeOK
<1>2. KeysOK
  <2>1. Paired(index, next)
    BY DEF PayInit, Paired
  <2>2. 0 \in Nat /\ 0 <= next /\ saved = {p \in index : p.idx < 0}
    BY DEF PayInit
  <2>3. QED
    BY <2>1, <2>2 DEF KeysOK
<1>3. WalletsStored
  BY DEF PayInit, WalletsStored
<1>4. \A b \in Bills : bill[b] = NoBill /\ bill[b].pc = "idle"
  BY DEF PayInit, NoBill
<1>5. ASSUME NEW m \in Agents PROVE Owed(m) = 0 /\ Spent(m) = 0
  <2>1. \A b \in Bills : OwedBy(m)[b] = 0
    BY <1>4 DEF OwedBy
  <2>2. Owed(m) = 0 * Cardinality(Bills)
    BY <2>1, SumConstant, PayAssumption DEF Owed
  <2>3. Cardinality(Bills) \in Nat
    BY FS_CardinalityType, PayAssumption
  <2>4. QED
    BY <2>2, <2>3 DEF Spent, Indexed, PayInit
<1>6. BooksOK
  BY <1>4, <1>5 DEF BooksOK, Within, Exact, Concerns, PayInit
<1>7. QED
  BY <1>1, <1>2, <1>3, <1>6 DEF PayInvariant

LEMMA PayStep ==
    ASSUME PayInvariant, [PayNext]_payVars
    PROVE  PayInvariant'
<1>1. ASSUME NEW account \in Servers,
             TransferOwnership(account) \/ \E allowed \in BOOLEAN : SetWriter(account, allowed)
      PROVE  PayInvariant'
  BY <1>1, PayStutters DEF TransferOwnership, SetWriter
<1>2. CASE UNCHANGED payVars
  BY <1>2, PayStutters DEF payVars, modeVars, keyVars, tokenVars, bookVars
<1>3. QED
  BY <1>1, <1>2, SettleCalledKeepsBooks, PersistsKeepsBooks, NonceReadKeepsBooks,
     RecordReadsKeepsBooks, SetsLocalKeepsBooks, SubmittedKeepsBooks, VerifiedKeepsBooks,
     SetsRecordKeepsBooks, DeletesKeepsBooks, RestartsKeepsBooks
  DEF PayNext

\* Where settling means paying, no book, of a server or in the World, ever
\* shows more than the NPC's own wallet paid, and the shared World shows all of
\* it when nothing overlapped or got lost.  For every number of servers, NPCs
\* and calls, every cost, and any number of restarts.
THEOREM BooksAreBacked == PaySpec => []BookBacked
<1>1. PayInit => PayInvariant
  BY PayStarts
<1>2. PayInvariant /\ [PayNext]_payVars => PayInvariant'
  BY PayStep
<1>3. ASSUME PayInvariant PROVE BookBacked
  <2>1. SUFFICES ASSUME Pays, NEW npc \in Agents
                 PROVE  /\ world[npc] <= Spent(npc)
                        /\ \A s \in Servers : local[s][npc] <= Spent(npc)
                        /\ readThrough /\ npc \notin unsure /\ ~Overlapping(npc) =>
                                world[npc] = Spent(npc)
    BY DEF BookBacked, Pays, Spent
  <2>2. Within(npc) /\ (readThrough /\ npc \notin unsure => Exact(npc))
    BY <1>3, <2>1 DEF PayInvariant, BooksOK
  <2>3. /\ Owed(npc) \in Nat /\ Spent(npc) \in Nat /\ world[npc] \in Nat
        /\ \A s \in Servers : local[s][npc] \in Nat
    BY <1>3, <2>1, OwedIsNat, SpentIsNat DEF PayInvariant, PayTypeOK
  <2>4. QED
    BY <2>2, <2>3 DEF Within, Exact
<1>4. QED
  BY <1>1, <1>2, <1>3, PTL DEF PaySpec

\* An index is of one NPC, the index of every wallet that has paid is stored,
\* and so is that of every bill past its save: a restart hands no wallet that
\* has paid to another NPC.
THEOREM WalletsKept == PaySpec => [](KeysOK /\ WalletsStored)
<1>1. PayInit => PayInvariant
  BY PayStarts
<1>2. PayInvariant /\ [PayNext]_payVars => PayInvariant'
  BY PayStep
<1>3. PayInvariant => KeysOK /\ WalletsStored
  BY DEF PayInvariant
<1>4. QED
  BY <1>1, <1>2, <1>3, PTL DEF PaySpec

-----------------------------------------------------------------------------
(***************************************************************************)
(* The balance in native coin.                                             *)
(***************************************************************************)

TellerSteps == {"reconcile", "floor", "deposit", "pay", "withdraw", "gas", "sweep", "wait"}
TellerRecords ==
    [op : {"deposit", "withdraw", "reconcile"}, pc : TellerSteps, target : Nat, units : Nat,
     seen : Nat, value : Nat, nth : Nat, quiet : BOOLEAN]
Transactions == [by : Tellers, nth : Nat, out : BOOLEAN, value : Nat]

NativeTypeOK ==
    /\ wei \in Nat /\ treasury \in Nat /\ gasCost \in GasCosts
    /\ pending \subseteq Transactions
    /\ teller \in [Tellers -> {Off} \cup TellerRecords]
    /\ called \in Nat

\* What the address holds now, or will once a transaction is mined at a price
\* up to the one estimated: the target, to the step, and gas not spent.
Near(target) ==
    /\ GasReserve + target * Step <= wei
    /\ wei < GasReserve + target * Step + Step + gasCost
Fills(target, value) ==
    /\ GasReserve + target * Step <= wei + value
    /\ wei + value < GasReserve + target * Step + Step
Sweeps(target, value) ==
    /\ GasReserve + target * Step <= wei - value - gasCost
    /\ wei - value - gasCost < GasReserve + target * Step + Step

\* A reconcile() that nothing disturbed so far runs alone, and what it read and
\* computed is still true of the chain.
Undisturbed(c) == teller[c] # Off /\ teller[c].quiet /\ teller[c].op = "reconcile"
InFlight(c) ==
    \E tx \in pending :
        /\ pending = {tx} /\ tx.by = c
        /\ IF tx.out THEN Sweeps(teller[c].target, tx.value)
                     ELSE Fills(teller[c].target, tx.value)
Current(c) ==
    /\ \A d \in Tellers \ {c} : teller[d] = Off
    /\ teller[c].pc # "wait" => pending = {}
    /\ teller[c].pc = "floor" =>
            teller[c].units = BalanceOf - teller[c].target /\ teller[c].units >= Dust
    /\ teller[c].pc \in {"withdraw", "gas"} =>
            /\ teller[c].units = BalanceOf - teller[c].target
            /\ gasCost < teller[c].units * Step
    /\ teller[c].pc = "gas" => teller[c].seen = wei
    /\ teller[c].pc = "sweep" => Sweeps(teller[c].target, teller[c].value)
    /\ teller[c].pc = "deposit" =>
            teller[c].units = teller[c].target - BalanceOf /\ teller[c].units >= Dust
    /\ teller[c].pc = "pay" => Fills(teller[c].target, teller[c].value)
    /\ teller[c].pc = "wait" =>
            (pending = {} /\ Near(teller[c].target)) \/ InFlight(c)

NativeInvariant ==
    /\ NativeTypeOK
    /\ \A c \in Tellers : Undisturbed(c) => Current(c)
    /\ calm \subseteq Nat
    /\ Reconciled

LEMMA NativeFacts ==
    /\ Step \in Nat /\ Step > 0 /\ Dust \in Nat /\ Dust > 0
    /\ GasReserve \in Nat /\ Treasury \in Nat
    /\ \A g \in GasCosts : g \in Nat /\ g > 0
    /\ \A n \in Deals : n \in Nat
BY NativeAssumption

LEMMA Quotient ==
    ASSUME NEW n \in Nat, NEW k \in Nat \ {0}
    PROVE  /\ n \div k \in Nat
           /\ (n \div k) * k <= n /\ n < (n \div k) * k + k
OBVIOUS

LEMMA ProductGrows ==
    ASSUME NEW x \in Int, NEW y \in Int, NEW k \in Nat, x <= y
    PROVE  x * k <= y * k
<1>1. y - x \in Nat
  OBVIOUS
<1>2. (y - x) * k >= 0
  BY <1>1
<1>3. QED
  BY <1>2

LEMMA ProductAdds ==
    ASSUME NEW x \in Int, NEW y \in Int, NEW k \in Nat
    PROVE  /\ (x + y) * k = x * k + y * k
           /\ (x - y) * k = x * k - y * k
           /\ x * k \in Int /\ (x \in Nat => x * k \in Nat)
OBVIOUS

\* What balanceOf() answers, against the balance in wei.
LEMMA BalanceBounds ==
    ASSUME wei \in Nat
    PROVE  /\ BalanceOf \in Nat /\ BalanceOf * Step \in Nat
           /\ wei >= GasReserve => /\ GasReserve + BalanceOf * Step <= wei
                                   /\ wei < GasReserve + BalanceOf * Step + Step
           /\ wei < GasReserve => BalanceOf = 0
<1> DEFINE n == Positive(wei - GasReserve)
<1>1. n \in Nat /\ (wei >= GasReserve => n = wei - GasReserve) /\ (wei < GasReserve => n = 0)
  BY NativeFacts DEF Positive
<1>2. BalanceOf = n \div Step
  BY DEF BalanceOf, WeiToUnits
<1> HIDE DEF n
<1>3. /\ n \div Step \in Nat
      /\ (n \div Step) * Step <= n /\ n < (n \div Step) * Step + Step
  BY <1>1, NativeFacts, Quotient
<1>4. PICK q \in Nat : q = BalanceOf
  BY <1>2, <1>3
<1>5. q * Step \in Nat /\ q * Step <= n /\ n < q * Step + Step
  BY <1>2, <1>3, <1>4, NativeFacts
<1>6. wei < GasReserve => q = 0
  <2>1. ASSUME q >= 1, n = 0 PROVE FALSE
    <3>1. 1 * Step <= q * Step
      BY <2>1, NativeFacts, ProductGrows
    <3>2. QED
      BY <1>5, <2>1, <3>1, NativeFacts
  <2>2. QED
    BY <1>1, <2>1
<1>7. QED
  BY <1>1, <1>4, <1>5, <1>6, NativeFacts

\* An undisturbed reconcile() that ends near its target has converged.
Converged(target) ==
    /\ target >= Dust => wei >= GasReserve + (target - Dust + 1) * Step
    /\ wei < GasReserve + (target + 1) * Step
             + (IF Dust * Step > gasCost THEN Dust * Step ELSE gasCost)

LEMMA NearConverges ==
    ASSUME NEW t \in Nat, wei \in Nat, gasCost \in Nat, Near(t)
    PROVE  Converged(t)
<1>1. /\ t * Step \in Nat /\ Dust * Step \in Nat
      /\ (t + 1) * Step = t * Step + Step
  BY NativeFacts, ProductAdds
<1>2. (t - Dust + 1) * Step <= t * Step
  <2>1. t - Dust + 1 \in Int /\ t - Dust + 1 <= t
    BY NativeFacts
  <2>2. QED
    BY <2>1, NativeFacts, ProductGrows
<1>3. (t - Dust + 1) * Step \in Int
  BY NativeFacts
<1>4. QED
  BY <1>1, <1>2, <1>3, NativeFacts DEF Near, Converged

LEMMA AlignedConverges ==
    ASSUME NEW t \in Nat, wei \in Nat, gasCost \in Nat, Aligned(t - BalanceOf)
    PROVE  Converged(t)
<1>1. PICK q \in Nat : q = BalanceOf
  BY BalanceBounds
<1>2. t - q < Dust /\ q - t < Dust
  BY <1>1, NativeFacts DEF Aligned
<1>3. /\ q * Step \in Nat
      /\ wei >= GasReserve => GasReserve + q * Step <= wei /\ wei < GasReserve + q * Step + Step
      /\ wei < GasReserve => q = 0
  BY <1>1, BalanceBounds
<1>4. ASSUME t >= Dust PROVE wei >= GasReserve + (t - Dust + 1) * Step
  <2>1. t - Dust + 1 \in Int /\ t - Dust + 1 <= q /\ q > 0
    BY <1>2, <1>4, NativeFacts
  <2>2. (t - Dust + 1) * Step <= q * Step
    BY <2>1, NativeFacts, ProductGrows
  <2>3. (t - Dust + 1) * Step \in Int
    BY NativeFacts
  <2>4. QED
    BY <1>3, <2>1, <2>2, <2>3, NativeFacts
<1>5. wei < GasReserve + (t + 1) * Step + Dust * Step
  <2>1. q + 1 <= t + Dust
    BY <1>2, NativeFacts
  <2>2. (q + 1) * Step <= (t + Dust) * Step
    BY <2>1, NativeFacts, ProductGrows
  <2>3. /\ (q + 1) * Step = q * Step + Step /\ (t + Dust) * Step = t * Step + Dust * Step
        /\ (t + 1) * Step = t * Step + Step
        /\ t * Step \in Nat /\ Dust * Step \in Nat
    BY NativeFacts, ProductAdds
  <2>4. CASE wei >= GasReserve
    BY <1>3, <2>2, <2>3, <2>4, NativeFacts
  <2>5. CASE wei < GasReserve
    BY <2>3, <2>5, NativeFacts
  <2>6. QED
    BY <2>4, <2>5, NativeFacts
<1>6. Dust * Step \in Nat /\ (t + 1) * Step \in Nat
  BY NativeFacts, ProductAdds
<1>7. QED
  BY <1>4, <1>5, <1>6, NativeFacts DEF Converged

LEMMA FloorConverges ==
    ASSUME NEW t \in Nat, NEW u \in Nat, wei \in Nat, gasCost \in Nat,
           u = BalanceOf - t, u >= Dust, u <= WeiToUnits(gasCost)
    PROVE  Converged(t)
<1>1. PICK q \in Nat : q = BalanceOf
  BY BalanceBounds
<1>2. q = t + u /\ q > 0
  BY <1>1, NativeFacts
<1>3. GasReserve + q * Step <= wei /\ wei < GasReserve + q * Step + Step
  BY <1>1, <1>2, BalanceBounds, NativeFacts
<1>4. q * Step = t * Step + u * Step /\ t * Step \in Nat /\ u * Step \in Nat
      /\ (t + 1) * Step = t * Step + Step /\ Dust * Step \in Nat
  BY <1>2, NativeFacts, ProductAdds
<1>5. u * Step <= gasCost
  <2>1. PICK g \in Nat : g = WeiToUnits(gasCost) /\ g * Step <= gasCost
    BY NativeFacts, Quotient DEF WeiToUnits
  <2>2. u * Step <= g * Step
    BY <2>1, NativeFacts, ProductGrows
  <2>3. g * Step \in Nat
    BY <2>1, NativeFacts, ProductAdds
  <2>4. QED
    BY <1>4, <2>1, <2>2, <2>3
<1>6. (t - Dust + 1) * Step <= t * Step /\ (t - Dust + 1) * Step \in Int
  <2>1. t - Dust + 1 \in Int /\ t - Dust + 1 <= t
    BY NativeFacts
  <2>2. QED
    BY <2>1, NativeFacts, ProductGrows, ProductAdds
<1>7. QED
  BY <1>3, <1>4, <1>5, <1>6, NativeFacts DEF Converged

LEMMA DepositFills ==
    ASSUME NEW t \in Nat, NEW u \in Nat, wei \in Nat, u = t - BalanceOf, u >= Dust
    PROVE  /\ UnitsToWei(u) + Positive(GasReserve - wei) \in Nat
           /\ Fills(t, UnitsToWei(u) + Positive(GasReserve - wei))
<1>1. PICK q \in Nat : q = BalanceOf
  BY BalanceBounds
<1>2. t = q + u /\ u > 0
  BY <1>1, NativeFacts
<1>3. t * Step = q * Step + u * Step /\ q * Step \in Nat /\ u * Step \in Nat
  BY <1>2, NativeFacts, ProductAdds
<1>4. UnitsToWei(u) = u * Step
  BY <1>2 DEF UnitsToWei, Positive
<1>5. CASE wei >= GasReserve
  <2>1. Positive(GasReserve - wei) = 0
    BY <1>5, NativeFacts DEF Positive
  <2>2. GasReserve + q * Step <= wei /\ wei < GasReserve + q * Step + Step
    BY <1>1, <1>5, BalanceBounds
  <2>3. QED
    BY <1>3, <1>4, <2>1, <2>2, NativeFacts DEF Fills
<1>6. CASE wei < GasReserve
  <2>1. Positive(GasReserve - wei) = GasReserve - wei
    BY <1>6, NativeFacts DEF Positive
  <2>2. q = 0 /\ q * Step = 0
    BY <1>1, <1>6, BalanceBounds, NativeFacts
  <2>3. QED
    BY <1>3, <1>4, <1>6, <2>1, <2>2, NativeFacts DEF Fills
<1>7. QED
  BY <1>5, <1>6, NativeFacts

LEMMA WithdrawSweeps ==
    ASSUME NEW t \in Nat, NEW u \in Nat, wei \in Nat, gasCost \in Nat,
           u = BalanceOf - t, gasCost < u * Step
    PROVE  LET net == NetOfGas(UnitsToWei(u))
               most == Positive(wei - gasCost)
               value == IF net < most THEN net ELSE most
           IN  value # 0 /\ Sweeps(t, value)
<1>1. PICK q \in Nat : q = BalanceOf
  BY BalanceBounds
<1>2. u > 0 /\ q = t + u
  <2>1. u # 0
    BY NativeFacts
  <2>2. QED
    BY <1>1, <2>1
<1>3. q * Step = t * Step + u * Step /\ t * Step \in Nat /\ u * Step \in Nat
  BY <1>2, NativeFacts, ProductAdds
<1>4. GasReserve + q * Step <= wei /\ wei < GasReserve + q * Step + Step
  BY <1>1, <1>2, BalanceBounds, NativeFacts
<1>5. UnitsToWei(u) = u * Step
  BY <1>2 DEF UnitsToWei, Positive
<1>6. NetOfGas(UnitsToWei(u)) = u * Step - gasCost
  BY <1>3, <1>5 DEF NetOfGas, Positive
<1>7. Positive(wei - gasCost) = wei - gasCost /\ u * Step <= wei
  BY <1>3, <1>4, NativeFacts DEF Positive
<1>8. Sweeps(t, u * Step - gasCost) /\ u * Step - gasCost # 0
  BY <1>3, <1>4, NativeFacts DEF Sweeps
<1>9. (IF u * Step - gasCost < wei - gasCost THEN u * Step - gasCost ELSE wei - gasCost)
        = u * Step - gasCost
  BY <1>3, <1>7
<1>10. QED
  BY <1>6, <1>7, <1>8, <1>9

LEMMA MinedNear ==
    ASSUME NEW t \in Nat, NEW value \in Nat, NEW cost \in Nat, cost > 0, cost <= gasCost,
           wei \in Nat, gasCost \in Nat, gasCost' = gasCost,
           \/ Sweeps(t, value) /\ wei' = wei - value - cost
           \/ Fills(t, value) /\ wei' = wei + value
    PROVE  Near(t)'
<1>1. t * Step \in Nat
  BY NativeFacts, ProductAdds
<1>2. QED
  BY <1>1, NativeFacts DEF Sweeps, Fills, Near

LEMMA TellerFacts ==
    ASSUME NativeInvariant, NEW c \in Tellers, teller[c] # Off
    PROVE  /\ teller[c] \in TellerRecords
           /\ \A d \in Tellers \ {c} : ~Undisturbed(d)
           /\ Undisturbed(c) => Current(c)
           /\ wei \in Nat /\ gasCost \in Nat /\ gasCost > 0 /\ BalanceOf \in Nat
<1>1. teller[c] \in TellerRecords
  BY DEF NativeInvariant, NativeTypeOK
<1>2. \A d \in Tellers : Undisturbed(d) => Current(d)
  BY DEF NativeInvariant
<1>3. \A d \in Tellers \ {c} : ~Undisturbed(d)
  BY <1>2 DEF Current
<1>4. wei \in Nat /\ gasCost \in Nat /\ gasCost > 0
  BY NativeFacts DEF NativeInvariant, NativeTypeOK
<1>5. QED
  BY <1>1, <1>2, <1>3, <1>4, BalanceBounds

LEMMA RecordFacts ==
    ASSUME NEW r \in TellerRecords
    PROVE  r # Off /\ r.pc # "off"
BY DEF TellerRecords, TellerSteps, Off

\* One call goes on: the chain, but for a transaction, and the others stand.
LEMMA TellerMoves ==
    ASSUME NativeInvariant, NEW c \in Tellers, teller[c] # Off,
           NEW r \in {Off} \cup TellerRecords, teller' = [teller EXCEPT ![c] = r],
           UNCHANGED chainState, called' = called, pending' \subseteq Transactions,
           calm' \in {calm, {}} \/ \E t \in Nat : calm' = {t} /\ Converged(t),
           r # Off => r.op = teller[c].op /\ r.quiet = teller[c].quiet,
           r # Off /\ Undisturbed(c) => Current(c)'
    PROVE  NativeInvariant'
<1>1. NativeTypeOK'
  BY DEF NativeInvariant, NativeTypeOK, chainState
<1>2. teller'[c] = r /\ \A d \in Tellers \ {c} : teller'[d] = teller[d]
  BY DEF NativeInvariant, NativeTypeOK
<1>3. ASSUME NEW d \in Tellers, Undisturbed(d)' PROVE Current(d)'
  <2>1. CASE d = c
    BY <1>2, <1>3, <2>1 DEF Undisturbed
  <2>2. CASE d # c
    <3>1. Undisturbed(d)
      BY <1>2, <1>3, <2>2 DEF Undisturbed
    <3>2. QED
      BY <2>2, <3>1, TellerFacts
  <2>3. QED
    BY <2>1, <2>2
<1>4. calm' \subseteq Nat /\ Reconciled'
  <2>1. \A t \in calm' : t \in Nat /\ Converged(t)
    BY DEF NativeInvariant, Reconciled, Converged
  <2>2. wei' = wei /\ gasCost' = gasCost
    BY DEF chainState
  <2>3. QED
    BY <2>1, <2>2 DEF Reconciled, Converged
<1>5. QED
  BY <1>1, <1>3, <1>4 DEF NativeInvariant

\* A call returns: if it is remembered as undisturbed, it has converged.
LEMMA ReturnsKeeps ==
    ASSUME NativeInvariant, NEW c \in Tellers, teller[c] # Off, NEW settled \in BOOLEAN,
           Returns(c, settled), UNCHANGED <<chainState, pending, called>>,
           settled /\ Undisturbed(c) => Converged(teller[c].target)
    PROVE  NativeInvariant'
<1>1. teller' = [teller EXCEPT ![c] = Off] /\ pending' \subseteq Transactions
  BY DEF Returns, NativeInvariant, NativeTypeOK
<1>2. teller[c].target \in Nat
  BY TellerFacts DEF TellerRecords
<1>3. calm' \in {calm, {}} \/ \E t \in Nat : calm' = {t} /\ Converged(t)
  BY <1>2 DEF Returns, Undisturbed
<1>4. QED
  BY <1>1, <1>3, TellerMoves

LEMMA ReadBalanceKeeps ==
    ASSUME NativeInvariant, NEW c \in Tellers, ReadBalance(c)
    PROVE  NativeInvariant'
<1>1. teller[c].pc = "reconcile" /\ UNCHANGED <<chainState, pending, called>>
  BY DEF ReadBalance, Tells
<1>2. teller[c] # Off
  BY <1>1 DEF Off
<1>3. PICK t \in Nat : t = teller[c].target
  BY <1>2, TellerFacts DEF TellerRecords
<1>4. PICK q \in Nat : q = BalanceOf
  BY <1>2, TellerFacts
<1>5. Diff(c) = t - q
  BY <1>3, <1>4 DEF Diff
<1>6. CASE Aligned(Diff(c))
  <2>1. Returns(c, TRUE)
    BY <1>6 DEF ReadBalance
  <2>2. Converged(t)
    BY <1>2, <1>4, <1>5, <1>6, TellerFacts, AlignedConverges
  <2>3. QED
    BY <1>1, <1>2, <1>3, <2>1, <2>2, ReturnsKeeps
<1>7. CASE ~Aligned(Diff(c))
  <2> DEFINE r == [teller[c] EXCEPT !.pc = IF t - q > 0 THEN "deposit" ELSE "floor",
                                    !.units = IF t - q > 0 THEN t - q ELSE -(t - q)]
  <2>1. teller' = [teller EXCEPT ![c] = r] /\ calm' = calm
    BY <1>5, <1>7 DEF ReadBalance, NativeInvariant, NativeTypeOK
  <2>2. r \in TellerRecords
    <3>1. (IF t - q > 0 THEN "deposit" ELSE "floor") \in TellerSteps
      BY DEF TellerSteps
    <3>2. (IF t - q > 0 THEN t - q ELSE -(t - q)) \in Nat
      OBVIOUS
    <3>3. QED
      BY <1>2, <3>1, <3>2, TellerFacts DEF TellerRecords
  <2>3. /\ r.op = teller[c].op /\ r.quiet = teller[c].quiet /\ r.target = t
        /\ t - q > 0 => r.pc = "deposit" /\ r.units = t - q
        /\ ~(t - q > 0) => r.pc = "floor" /\ r.units = q - t
    BY <1>2, <1>3, TellerFacts DEF TellerRecords
  <2> HIDE DEF r
  <2>4. r.units >= Dust
    BY <1>5, <1>7, <2>3, NativeFacts DEF Aligned
  <2>5. ASSUME Undisturbed(c) PROVE Current(c)'
    <3>1. Current(c)
      BY <1>2, <2>5, TellerFacts
    <3>2. teller'[c] = r /\ \A d \in Tellers \ {c} : teller'[d] = teller[d]
      BY <2>1 DEF NativeInvariant, NativeTypeOK
    <3>3. BalanceOf' = q
      BY <1>1, <1>4 DEF chainState, BalanceOf
    <3>4. QED
      BY <1>1, <2>3, <2>4, <3>1, <3>2, <3>3 DEF Current
  <2>6. QED
    BY <1>1, <1>2, <2>1, <2>2, <2>3, <2>5, TellerMoves DEF NativeInvariant, NativeTypeOK
<1>8. QED
  BY <1>6, <1>7

LEMMA CheckFloorKeeps ==
    ASSUME NativeInvariant, NEW c \in Tellers, CheckFloor(c)
    PROVE  NativeInvariant'
<1>1. teller[c].pc = "floor" /\ UNCHANGED <<chainState, pending, called>>
  BY DEF CheckFloor, Tells
<1>2. teller[c] # Off
  BY <1>1 DEF Off
<1>3. PICK t \in Nat, u \in Nat : t = teller[c].target /\ u = teller[c].units
  BY <1>2, TellerFacts DEF TellerRecords
<1>4. wei \in Nat /\ gasCost \in Nat
  BY <1>2, TellerFacts
<1>5. ASSUME Undisturbed(c) PROVE Current(c) /\ u = BalanceOf - t /\ u >= Dust
  BY <1>1, <1>2, <1>3, <1>5, TellerFacts DEF Current
<1>6. CASE u <= WeiToUnits(gasCost)
  <2>1. Returns(c, TRUE)
    BY <1>3, <1>6 DEF CheckFloor
  <2>2. Undisturbed(c) => Converged(t)
    BY <1>4, <1>5, <1>6, FloorConverges
  <2>3. QED
    BY <1>1, <1>2, <1>3, <2>1, <2>2, ReturnsKeeps
<1>7. CASE ~(u <= WeiToUnits(gasCost))
  <2> DEFINE r == [teller[c] EXCEPT !.pc = "withdraw"]
  <2>1. teller' = [teller EXCEPT ![c] = r] /\ calm' = calm
    BY <1>3, <1>7 DEF CheckFloor, Tell, NativeInvariant, NativeTypeOK
  <2>2. /\ r \in TellerRecords /\ r.op = teller[c].op /\ r.quiet = teller[c].quiet
        /\ r.target = t /\ r.pc = "withdraw" /\ r.units = u
    BY <1>2, <1>3, TellerFacts DEF TellerRecords, TellerSteps
  <2> HIDE DEF r
  <2>3. gasCost < u * Step
    <3>1. PICK g \in Nat : g = WeiToUnits(gasCost) /\ gasCost < g * Step + Step
      BY <1>4, NativeFacts, Quotient DEF WeiToUnits
    <3>2. g + 1 <= u
      BY <1>7, <3>1
    <3>3. (g + 1) * Step <= u * Step /\ (g + 1) * Step = g * Step + Step
      BY <3>2, NativeFacts, ProductGrows, ProductAdds
    <3>4. g * Step \in Nat /\ u * Step \in Nat
      BY NativeFacts, ProductAdds
    <3>5. QED
      BY <1>4, <3>1, <3>3, <3>4, NativeFacts
  <2>4. ASSUME Undisturbed(c) PROVE Current(c)'
    <3>1. teller'[c] = r /\ \A d \in Tellers \ {c} : teller'[d] = teller[d]
      BY <2>1 DEF NativeInvariant, NativeTypeOK
    <3>2. BalanceOf' = BalanceOf /\ gasCost' = gasCost
      BY <1>1 DEF chainState, BalanceOf
    <3>3. /\ Current(c) /\ u = BalanceOf - t
      BY <1>5, <2>4
    <3>4. QED
      BY <1>1, <2>2, <2>3, <3>1, <3>2, <3>3 DEF Current
  <2>5. QED
    BY <1>1, <1>2, <2>1, <2>2, <2>4, TellerMoves DEF NativeInvariant, NativeTypeOK
<1>8. QED
  BY <1>6, <1>7

LEMMA DepositTxKeeps ==
    ASSUME NativeInvariant, NEW c \in Tellers, DepositTx(c)
    PROVE  NativeInvariant'
<1>1. teller[c].pc = "deposit" /\ UNCHANGED <<chainState, pending, called>> /\ calm' = calm
  BY DEF DepositTx, Tells
<1>2. teller[c] # Off
  BY <1>1 DEF Off
<1>3. PICK t \in Nat, u \in Nat : t = teller[c].target /\ u = teller[c].units
  BY <1>2, TellerFacts DEF TellerRecords
<1>4. wei \in Nat
  BY <1>2, TellerFacts
<1> DEFINE v == UnitsToWei(u) + Positive(GasReserve - wei)
           r == [teller[c] EXCEPT !.pc = "pay", !.value = v]
<1>5. teller' = [teller EXCEPT ![c] = r]
  BY <1>3 DEF DepositTx, NativeInvariant, NativeTypeOK
<1>6. v \in Nat
  <2>1. u * Step \in Nat
    BY NativeFacts, ProductAdds
  <2>2. 0 * Step = 0
    BY NativeFacts
  <2>3. UnitsToWei(u) \in Nat
    BY <2>1, <2>2 DEF UnitsToWei, Positive
  <2>4. Positive(GasReserve - wei) \in Nat
    BY <1>4, NativeFacts DEF Positive
  <2>5. QED
    BY <2>3, <2>4
<1> HIDE DEF v
<1>7. /\ r \in TellerRecords /\ r.op = teller[c].op /\ r.quiet = teller[c].quiet
      /\ r.target = t /\ r.pc = "pay" /\ r.value = v
  BY <1>2, <1>3, <1>6, TellerFacts DEF TellerRecords, TellerSteps
<1> HIDE DEF r
<1>8. ASSUME Undisturbed(c) PROVE Current(c)'
  <2>1. Current(c) /\ u = t - BalanceOf /\ u >= Dust
    BY <1>1, <1>2, <1>3, <1>8, TellerFacts DEF Current
  <2>2. Fills(t, v)
    BY <1>4, <2>1, DepositFills DEF v
  <2>4. teller'[c] = r /\ \A d \in Tellers \ {c} : teller'[d] = teller[d]
    BY <1>5 DEF NativeInvariant, NativeTypeOK
  <2>5. GasReserve + t * Step <= wei' + v /\ wei' + v < GasReserve + t * Step + Step
    BY <1>1, <2>2 DEF chainState, Fills
  <2>6. QED
    BY <1>1, <1>7, <2>1, <2>4, <2>5 DEF Current, Fills
<1>9. QED
  BY <1>1, <1>2, <1>5, <1>7, <1>8, TellerMoves DEF NativeInvariant, NativeTypeOK

LEMMA WithdrawReadsKeeps ==
    ASSUME NativeInvariant, NEW c \in Tellers, WithdrawReads(c)
    PROVE  NativeInvariant'
<1>1. teller[c].pc = "withdraw" /\ UNCHANGED <<chainState, pending, called>> /\ calm' = calm
  BY DEF WithdrawReads, Tells
<1>2. teller[c] # Off
  BY <1>1 DEF Off
<1> DEFINE r == [teller[c] EXCEPT !.pc = "gas", !.seen = wei]
<1>3. teller' = [teller EXCEPT ![c] = r]
  BY DEF WithdrawReads, NativeInvariant, NativeTypeOK
<1>4. /\ r \in TellerRecords /\ r.op = teller[c].op /\ r.quiet = teller[c].quiet
      /\ r.target = teller[c].target /\ r.pc = "gas" /\ r.seen = wei /\ r.units = teller[c].units
  BY <1>2, TellerFacts DEF TellerRecords, TellerSteps
<1> HIDE DEF r
<1>5. ASSUME Undisturbed(c) PROVE Current(c)'
  <2>1. Current(c)
    BY <1>2, <1>5, TellerFacts
  <2>2. teller'[c] = r /\ \A d \in Tellers \ {c} : teller'[d] = teller[d]
    BY <1>3 DEF NativeInvariant, NativeTypeOK
  <2>3. BalanceOf' = BalanceOf /\ gasCost' = gasCost /\ wei' = wei
    BY <1>1 DEF chainState, BalanceOf
  <2>4. QED
    BY <1>1, <1>4, <2>1, <2>2, <2>3 DEF Current
<1>6. QED
  BY <1>1, <1>2, <1>3, <1>4, <1>5, TellerMoves DEF NativeInvariant, NativeTypeOK

LEMMA WithdrawTxKeeps ==
    ASSUME NativeInvariant, NEW c \in Tellers, WithdrawTx(c)
    PROVE  NativeInvariant'
<1>1. teller[c].pc = "gas" /\ UNCHANGED <<chainState, pending, called>>
  BY DEF WithdrawTx, Tells
<1>2. teller[c] # Off
  BY <1>1 DEF Off
<1>3. PICK t \in Nat, u \in Nat : t = teller[c].target /\ u = teller[c].units
  BY <1>2, TellerFacts DEF TellerRecords
<1>4. wei \in Nat /\ gasCost \in Nat
  BY <1>2, TellerFacts
<1> DEFINE net == NetOfGas(UnitsToWei(teller[c].units))
           most == Positive(teller[c].seen - gasCost)
           v == IF net < most THEN net ELSE most
<1>5. v \in Nat
  <2>1. UnitsToWei(u) \in Nat
    <3>1. u * Step \in Nat /\ 0 * Step = 0
      BY NativeFacts, ProductAdds
    <3>2. QED
      BY <3>1 DEF UnitsToWei, Positive
  <2>2. net \in Nat
    BY <1>3, <1>4, <2>1 DEF NetOfGas, Positive
  <2>3. teller[c].seen \in Nat
    BY <1>2, TellerFacts DEF TellerRecords
  <2>4. most \in Nat
    BY <1>4, <2>3 DEF Positive
  <2>5. QED
    BY <2>2, <2>4
<1>6. ASSUME Undisturbed(c) PROVE Current(c) /\ v # 0 /\ Sweeps(t, v)
  <2>1. /\ Current(c) /\ u = BalanceOf - t /\ gasCost < u * Step /\ teller[c].seen = wei
    BY <1>1, <1>2, <1>3, <1>6, TellerFacts DEF Current
  <2>2. QED
    BY <1>3, <1>4, <2>1, WithdrawSweeps
<1>7. CASE v = 0
  <2>1. Returns(c, TRUE)
    BY <1>7 DEF WithdrawTx
  <2>2. QED
    BY <1>1, <1>2, <1>6, <1>7, <2>1, ReturnsKeeps
<1>8. CASE v # 0
  <2> DEFINE r == [teller[c] EXCEPT !.pc = "sweep", !.value = v]
  <2>1. teller' = [teller EXCEPT ![c] = r] /\ calm' = calm
    BY <1>8 DEF WithdrawTx, NativeInvariant, NativeTypeOK
  <2> HIDE DEF v
  <2>2. /\ r \in TellerRecords /\ r.op = teller[c].op /\ r.quiet = teller[c].quiet
        /\ r.target = t /\ r.pc = "sweep" /\ r.value = v
    BY <1>2, <1>3, <1>5, TellerFacts DEF TellerRecords, TellerSteps
  <2> HIDE DEF r
  <2>3. ASSUME Undisturbed(c) PROVE Current(c)'
    <3>1. teller'[c] = r /\ \A d \in Tellers \ {c} : teller'[d] = teller[d]
      BY <2>1 DEF NativeInvariant, NativeTypeOK
    <3>2. /\ GasReserve + t * Step <= wei' - v - gasCost'
          /\ wei' - v - gasCost' < GasReserve + t * Step + Step
      BY <1>1, <1>6, <2>3 DEF chainState, Sweeps
    <3>3. Current(c)
      BY <1>6, <2>3
    <3>4. QED
      BY <1>1, <2>2, <3>1, <3>2, <3>3 DEF Current, Sweeps
  <2>4. QED
    BY <1>1, <1>2, <2>1, <2>2, <2>3, TellerMoves DEF NativeInvariant, NativeTypeOK
<1>9. QED
  BY <1>7, <1>8

LEMMA SubmitsKeeps ==
    ASSUME NativeInvariant, NEW c \in Tellers, Submits(c)
    PROVE  NativeInvariant'
<1> DEFINE tx == [by |-> c, nth |-> teller[c].nth, out |-> Tells(c, "sweep"),
                  value |-> teller[c].value]
           r == [teller[c] EXCEPT !.pc = "wait"]
<1>1. /\ teller[c].pc \in {"pay", "sweep"} /\ UNCHANGED <<chainState, called>> /\ calm' = calm
      /\ pending' = pending \cup {tx}
  BY DEF Submits
<1>2. teller[c] # Off
  BY <1>1 DEF Off
<1>3. teller' = [teller EXCEPT ![c] = r]
  BY DEF Submits, Tell, NativeInvariant, NativeTypeOK
<1>4. /\ r \in TellerRecords /\ r.op = teller[c].op /\ r.quiet = teller[c].quiet
      /\ r.target = teller[c].target /\ r.pc = "wait"
  BY <1>2, TellerFacts DEF TellerRecords, TellerSteps
<1>5. /\ tx \in Transactions /\ tx.by = c /\ tx.value = teller[c].value
      /\ tx.out = (teller[c].pc = "sweep")
  BY <1>2, TellerFacts DEF TellerRecords, Transactions, Tells
<1> HIDE DEF r, tx
<1>6. pending' \subseteq Transactions
  BY <1>1, <1>5 DEF NativeInvariant, NativeTypeOK
<1>7. ASSUME Undisturbed(c) PROVE Current(c)'
  <2>1. Current(c)
    BY <1>2, <1>7, TellerFacts
  <2>2. teller'[c] = r /\ \A d \in Tellers \ {c} : teller'[d] = teller[d]
    BY <1>3 DEF NativeInvariant, NativeTypeOK
  <2>3. pending' = {tx}
    BY <1>1, <2>1 DEF Current
  <2>4. IF tx.out THEN Sweeps(teller[c].target, tx.value) ELSE Fills(teller[c].target, tx.value)
    BY <1>1, <1>5, <2>1 DEF Current
  <2>5. /\ tx.out => /\ GasReserve + r.target * Step <= wei' - tx.value - gasCost'
                     /\ wei' - tx.value - gasCost' < GasReserve + r.target * Step + Step
        /\ ~tx.out => /\ GasReserve + r.target * Step <= wei' + tx.value
                      /\ wei' + tx.value < GasReserve + r.target * Step + Step
    BY <1>1, <1>4, <2>4 DEF chainState, Sweeps, Fills
  <2>6. InFlight(c)'
    BY <1>5, <2>2, <2>3, <2>5 DEF InFlight, Sweeps, Fills
  <2>7. QED
    BY <1>4, <2>1, <2>2, <2>6 DEF Current
<1>8. QED
  BY <1>1, <1>2, <1>3, <1>4, <1>6, <1>7, TellerMoves

LEMMA ReceiptSeenKeeps ==
    ASSUME NativeInvariant, NEW c \in Tellers, ReceiptSeen(c)
    PROVE  NativeInvariant'
<1>1. /\ teller[c].pc = "wait" /\ \A tx \in pending : tx.by # c
      /\ Returns(c, TRUE) /\ UNCHANGED <<chainState, pending, called>>
  BY DEF ReceiptSeen, Tells
<1>2. teller[c] # Off
  BY <1>1 DEF Off
<1>3. ASSUME Undisturbed(c) PROVE Converged(teller[c].target)
  <2>1. Near(teller[c].target)
    BY <1>1, <1>2, <1>3, TellerFacts DEF Current, InFlight
  <2>2. teller[c].target \in Nat /\ wei \in Nat /\ gasCost \in Nat
    BY <1>2, TellerFacts DEF TellerRecords
  <2>3. QED
    BY <2>1, <2>2, NearConverges
<1>4. QED
  BY <1>1, <1>2, <1>3, ReturnsKeeps

\* A call that fails, or gives up, is not remembered.
LEMMA UnsettledKeeps ==
    ASSUME NativeInvariant, NEW c \in Tellers, Throws(c) \/ GivesUpWaiting(c)
    PROVE  NativeInvariant'
<1>1. Returns(c, FALSE) /\ UNCHANGED <<chainState, pending, called>>
  BY DEF Throws, GivesUpWaiting
<1>2. teller[c] # Off
  <2>1. CASE Throws(c)
    BY <2>1 DEF Throws
  <2>2. CASE GivesUpWaiting(c)
    <3>1. teller[c].pc = "wait" /\ Off.pc = "off"
      BY <2>2 DEF GivesUpWaiting, Tells, Off
    <3>2. QED
      BY <3>1
  <2>3. QED
    BY <2>1, <2>2
<1>3. QED
  BY <1>1, <1>2, ReturnsKeeps

LEMMA BeginsKeeps ==
    ASSUME NativeInvariant, NEW c \in Tellers, NEW op \in {"deposit", "withdraw", "reconcile"},
           NEW target \in Nat, NEW units \in Nat, Begins(c, op, target, units)
    PROVE  NativeInvariant'
<1> DEFINE r == [op |-> op, pc |-> op, target |-> target, units |-> units, seen |-> 0,
                 value |-> 0, nth |-> called, quiet |-> Alone]
           hushed == [d \in Tellers |-> IF teller[d] = Off THEN Off
                                        ELSE [teller[d] EXCEPT !.quiet = FALSE]]
<1>1. /\ teller' = [hushed EXCEPT ![c] = r] /\ calm' = {} /\ called' = called + 1
      /\ UNCHANGED <<chainState, pending>>
  BY DEF Begins
<1>2. called \in Nat /\ \A d \in Tellers : teller[d] \in {Off} \cup TellerRecords
  BY DEF NativeInvariant, NativeTypeOK
<1>3. Alone \in BOOLEAN
  BY DEF Alone
<1>4. r \in TellerRecords /\ r.pc = op /\ r.op = op /\ r.quiet = Alone
  BY <1>2, <1>3 DEF TellerRecords, TellerSteps
<1> HIDE DEF r
<1>5. ASSUME NEW d \in Tellers
      PROVE  /\ hushed[d] \in {Off} \cup TellerRecords
             /\ hushed[d] # Off => ~hushed[d].quiet /\ teller[d] # Off
  BY <1>2 DEF TellerRecords
<1>6. hushed \in [Tellers -> {Off} \cup TellerRecords]
  BY <1>5
<1>7. \A d \in Tellers : teller[d] = Off => hushed[d] = Off
  OBVIOUS
<1> HIDE DEF hushed
<1>8. NativeTypeOK'
  BY <1>1, <1>2, <1>4, <1>6 DEF NativeInvariant, NativeTypeOK, chainState
<1>9. teller'[c] = r /\ \A d \in Tellers \ {c} : teller'[d] = hushed[d]
  BY <1>1, <1>6
<1>10. ASSUME NEW d \in Tellers, Undisturbed(d)' PROVE Current(d)'
  <2>1. d = c
    BY <1>5, <1>9, <1>10 DEF Undisturbed
  <2>2. r.op = "reconcile" /\ Alone
    BY <1>4, <1>9, <1>10, <2>1 DEF Undisturbed
  <2>3. pending' = {} /\ \A e \in Tellers \ {c} : teller'[e] = Off
    BY <1>1, <1>7, <1>9, <2>2 DEF Alone
  <2>4. QED
    BY <1>4, <1>9, <2>1, <2>2, <2>3 DEF Current
<1>11. QED
  BY <1>1, <1>8, <1>10 DEF NativeInvariant, Reconciled

LEMMA GasMovesKeeps ==
    ASSUME NativeInvariant, NEW cost \in GasCosts, GasMoves(cost)
    PROVE  NativeInvariant'
<1>1. /\ gasCost' = cost /\ calm' = {} /\ UNCHANGED <<wei, treasury, pending, called>>
      /\ teller' = [c \in Tellers |-> IF teller[c] = Off THEN Off
                                      ELSE [teller[c] EXCEPT !.quiet = FALSE]]
  BY DEF GasMoves
<1>2. ASSUME NEW c \in Tellers
      PROVE  /\ teller'[c] \in {Off} \cup TellerRecords
             /\ teller'[c] # Off => ~teller'[c].quiet
  <2>1. teller[c] \in {Off} \cup TellerRecords
    BY DEF NativeInvariant, NativeTypeOK
  <2>2. QED
    BY <1>1, <2>1 DEF TellerRecords
<1>3. NativeTypeOK'
  <2>1. teller' \in [Tellers -> {Off} \cup TellerRecords]
    BY <1>1, <1>2
  <2>2. QED
    BY <1>1, <2>1 DEF NativeInvariant, NativeTypeOK
<1>4. \A c \in Tellers : ~Undisturbed(c)'
  BY <1>2 DEF Undisturbed
<1>5. QED
  BY <1>1, <1>3, <1>4 DEF NativeInvariant, Reconciled

LEMMA MinedKeeps ==
    ASSUME NativeInvariant, NEW tx \in pending, NEW cost \in GasCosts, Mined(tx, cost)
    PROVE  NativeInvariant'
<1>1. /\ cost <= gasCost /\ Affordable(tx, cost) /\ pending' = pending \ {tx}
      /\ wei' = IF tx.out THEN wei - tx.value - cost ELSE wei + tx.value
      /\ treasury' = IF tx.out THEN treasury + tx.value ELSE treasury - tx.value - cost
      /\ calm' = {} /\ UNCHANGED <<gasCost, moved, teller, called>>
  BY DEF Mined
<1>2. /\ tx \in Transactions /\ tx.value \in Nat /\ tx.out \in BOOLEAN
      /\ cost \in Nat /\ cost > 0 /\ gasCost \in Nat
      /\ wei \in Nat /\ treasury \in Nat
  BY NativeFacts DEF NativeInvariant, NativeTypeOK, Transactions
<1>3. wei' \in Nat /\ treasury' \in Nat
  BY <1>1, <1>2 DEF Affordable
<1>4. NativeTypeOK'
  BY <1>1, <1>3 DEF NativeInvariant, NativeTypeOK
<1>5. ASSUME NEW c \in Tellers, Undisturbed(c)' PROVE Current(c)'
  <2>1. Undisturbed(c) /\ Current(c)
    BY <1>1, <1>5 DEF Undisturbed, NativeInvariant
  <2>2. teller[c].pc = "wait"
    BY <2>1 DEF Current
  <2>3. InFlight(c) /\ pending = {tx}
    BY <2>1, <2>2 DEF Current, InFlight
  <2>4. PICK t \in Nat : t = teller[c].target
    BY <2>1, TellerFacts DEF Undisturbed, TellerRecords
  <2>5. IF tx.out THEN Sweeps(t, tx.value) ELSE Fills(t, tx.value)
    BY <2>3, <2>4 DEF InFlight
  <2>6. Near(t)'
    BY <1>1, <1>2, <2>5, MinedNear
  <2>7. pending' = {} /\ Near(teller[c].target)'
    BY <1>1, <2>3, <2>4, <2>6 DEF Near
  <2>8. QED
    BY <1>1, <2>1, <2>2, <2>7 DEF Current
<1>6. QED
  BY <1>1, <1>4, <1>5 DEF NativeInvariant, Reconciled

LEMMA NativeStarts == ASSUME NativeInit PROVE NativeInvariant
<1>1. NativeTypeOK
  BY NativeAssumption DEF NativeInit, NativeTypeOK
<1>2. QED
  BY <1>1 DEF NativeInit, NativeInvariant, Undisturbed, Reconciled

LEMMA NativeStep ==
    ASSUME NativeInvariant, [NativeNext]_nativeVars
    PROVE  NativeInvariant'
<1>1. ASSUME NEW c \in Tellers, NEW n \in Deals,
             DepositCalled(c, n) \/ WithdrawCalled(c, n) \/ ReconcileCalled(c, n)
      PROVE  NativeInvariant'
  BY <1>1, NativeFacts, BeginsKeeps DEF DepositCalled, WithdrawCalled, ReconcileCalled
<1>2. CASE UNCHANGED nativeVars
  BY <1>2 DEF nativeVars, NativeInvariant, NativeTypeOK, Undisturbed, Current, InFlight, Near,
              Fills, Sweeps, BalanceOf, Reconciled
<1>3. QED
  BY <1>1, <1>2, ReadBalanceKeeps, CheckFloorKeeps, DepositTxKeeps, WithdrawReadsKeeps,
     WithdrawTxKeeps, SubmitsKeeps, UnsettledKeeps, ReceiptSeenKeeps, MinedKeeps, GasMovesKeeps
  DEF NativeNext

\* A reconcile() that nothing disturbed leaves the target in the address, up to
\* dust or the gas that taking the rest would cost, whatever earlier calls left
\* behind.  For every step, reserve, gas price and opening balance.
THEOREM ReconcileConverges == NativeSpec => []Reconciled
<1>1. NativeInit => NativeInvariant
  BY NativeStarts
<1>2. NativeInvariant /\ [NativeNext]_nativeVars => NativeInvariant'
  BY NativeStep
<1>3. NativeInvariant => Reconciled
  BY DEF NativeInvariant
<1>4. QED
  BY <1>1, <1>2, <1>3, PTL DEF NativeSpec
=============================================================================

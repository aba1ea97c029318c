---------------------------- MODULE MerchantMenu ----------------------------
(***************************************************************************)
(* The platform's menu NPCs, gamekit/src/aigg: seeding them and their      *)
(* menus, a visitor's walk through a menu, the account view over the chain *)
(* reader, and the flow that buys GCC: amount, preview, confirmation,      *)
(* settlement.  The resolvers of wallet and API key are closures shared by *)
(* all sessions; they answer for the visitor whose input the host is       *)
(* dispatching.  ai.gg's exec-onchain service and the host's loop are      *)
(* external: a request may be lost or served after the caller gave up, and *)
(* a host may keep or drop a handler when a result names none.             *)
(***************************************************************************)
EXTENDS Integers, FiniteSets

CONSTANTS
    Visitors,   \* sessions
    Sums,       \* amounts that parse
    Wired,      \* executeOnchain and the exec client are there
    MaxSent,    \* bound: exec requests
    MaxBoots    \* bound: starts of the process

ASSUME MerchantAssumption ==
    Wired \in BOOLEAN /\ MaxSent \in Nat /\ MaxBoots \in Nat

VARIABLES
    identity,   \* session -> what the host knows: "wallet", "secret"
    current,    \* the session whose input is being dispatched
    menu,       \* session -> [node, handler], Session.menu
    execs,      \* exec requests on the wire or awaited
    sent,       \* exec requests made; a preview's is its idempotency key
    charges,    \* external: what ai.gg settled
    views,      \* account views that await the chain: [from, wallet]
    decimals,   \* decimalCache: tokens whose decimals are known
    stored,     \* platform NPCs with a stored record
    menuRegistry, \* npc -> "none", "offline" or "live"; in memory only
    seeding,    \* npc -> where its seed function is
    boots,      \* starts of the process
    made,       \* history: NPCs this process created
    previewed,  \* history: previews shown
    agreed,     \* history: confirmations
    shown       \* history: account views shown, as [to, wallet]

sessionVars == <<identity, current, menu>>
execVars == <<execs, sent, charges, previewed, agreed>>
chainVars == <<views, decimals, shown>>
seedVars == <<stored, menuRegistry, seeding, boots, made>>
merchantVars == <<sessionVars, execVars, chainVars, seedVars>>

PlatformNpcs == {"pricing", "merchant"}
Actions == {"topup_gcc", "buy_gcc_cca"}
Tokens == {"usdc", "gcc"}

\* An order is an action with its amounts.
Handler(step, action, amounts, key) ==
    [step |-> step, action |-> action, amounts |-> amounts, key |-> key]
NoHandler == Handler("none", "none", <<>>, 0)
Closed == [node |-> "closed", handler |-> NoHandler]

MerchantInit ==
    /\ identity \in [Visitors -> {{}, {"wallet"}, {"wallet", "secret"}}]
    /\ current \in Visitors
    /\ menu = [v \in Visitors |-> Closed]
    /\ execs = {} /\ sent = 0 /\ charges = {} /\ previewed = {} /\ agreed = {}
    /\ views = {} /\ decimals = {} /\ shown = {}
    /\ stored = {} /\ made = {} /\ boots = 1
    /\ menuRegistry = [npc \in PlatformNpcs |-> "none"]
    /\ seeding = [npc \in PlatformNpcs |-> "idle"]

-----------------------------------------------------------------------------
\* seedAiggPlatformNpcs(): one task per NPC.

SeedAt(npc, pc) == seeding' = [seeding EXCEPT ![npc] = pc]
Register(npc, kind) == menuRegistry' = [menuRegistry EXCEPT ![npc] = kind]
SeedOnly == UNCHANGED <<sessionVars, execVars, chainVars, boots>>

\* getNpc() and the early return for an NPC that is already there.
SeedSkips(npc, refresh) == npc \in stored /\ ~refresh

SeedMerchant(refresh) ==
    /\ seeding["merchant"] = "idle"
    /\ ~SeedSkips("merchant", refresh)
    /\ Register("merchant", "live")
    /\ SeedAt("merchant", "create")
    /\ UNCHANGED <<stored, made>> /\ SeedOnly

SeedPricingConsultant(refresh) ==
    /\ seeding["pricing"] = "idle"
    /\ ~SeedSkips("pricing", refresh)
    /\ SeedAt("pricing", "fetch")
    /\ UNCHANGED <<stored, menuRegistry, made>> /\ SeedOnly

\* The table arrives, or the fetch fails: then a menu that is there stays.
PricingFetched(ok) ==
    /\ seeding["pricing"] = "fetch"
    /\ IF ok THEN Register("pricing", "live")
       ELSE IF menuRegistry["pricing"] = "none" THEN Register("pricing", "offline")
       ELSE UNCHANGED menuRegistry
    /\ SeedAt("pricing", "create")
    /\ UNCHANGED <<stored, made>> /\ SeedOnly

SeedCreates(npc) ==
    /\ seeding[npc] = "create"
    /\ stored' = stored \cup {npc}
    /\ made' = made \cup {npc}
    /\ SeedAt(npc, "idle")
    /\ UNCHANGED menuRegistry /\ SeedOnly

\* registerPricingMenu(), once the table is there.
RegisterPricingMenu ==
    /\ menuRegistry["pricing"] = "offline"
    /\ Register("pricing", "live")
    /\ UNCHANGED <<stored, seeding, made>> /\ SeedOnly

\* What is left of a request that nobody awaits any more: a settlement that was
\* not served yet.  A preview served late changes nothing.
Unheard(e) == IF e.dry \/ e.reply # "none" THEN {} ELSE {[e EXCEPT !.awaited = FALSE]}

\* Only what the store holds survives; a draft NPC may not be there any more.
ProcessRestarts ==
    /\ boots < MaxBoots
    /\ boots' = boots + 1
    /\ \E kept \in SUBSET stored : stored' = kept
    /\ made' = {}
    /\ menuRegistry' = [npc \in PlatformNpcs |-> "none"]
    /\ seeding' = [npc \in PlatformNpcs |-> "idle"]
    /\ menu' = [v \in Visitors |-> Closed]
    /\ execs' = UNION {Unheard(e) : e \in execs}
    /\ views' = {} /\ decimals' = {}
    /\ UNCHANGED <<identity, current, sent, charges, previewed, agreed, shown>>

-----------------------------------------------------------------------------
\* A session.  Every input is dispatched for its own session.

\* external: the host takes over what a step returned.
Result(v, node, handler) ==
    \E h \in IF handler = NoHandler THEN {NoHandler, menu[v].handler} ELSE {handler} :
        menu' = [menu EXCEPT ![v] = IF @.node = "closed" THEN Closed
                                    ELSE [node |-> node, handler |-> h]]
Stays(v) == Result(v, menu[v].node, NoHandler)
ExecOff == UNCHANGED <<identity, execVars, seedVars>>

\* external: identify() and the loss of it, and the visit to an NPC.
Reconnect(v) ==
    /\ identity[v] = {"wallet", "secret"}
    /\ identity' = [identity EXCEPT ![v] = {"wallet"}]
    /\ UNCHANGED <<current, menu, execVars, chainVars, seedVars>>

Visit(v, npc) ==
    /\ menu[v] = Closed /\ menuRegistry[npc] # "none"
    /\ menu' = [menu EXCEPT ![v].node = IF npc = "pricing" THEN "pricing" ELSE "main"]
    /\ UNCHANGED <<current, chainVars>> /\ ExecOff

\* Where the choices without an effect of their own lead: back, on, or out.
MainMenu == {"plans", "closed"}
PlansList == {"main", "closed"}
PricingMenu == {"pricing", "provider", "closed"}
ProviderMenu == {"pricing", "closed"}
CalcMenu == {"pricing", "closed"}
Leads(node) ==
    CASE node = "main" -> MainMenu
      [] node = "plans" -> PlansList
      [] node = "pricing" -> PricingMenu
      [] node = "provider" -> ProviderMenu
      [] node = "calc" -> CalcMenu
      [] OTHER -> {}

Picks(v) == menu[v].node # "closed" /\ menu[v].handler = NoHandler /\ current' = v

PickPlain(v) ==
    /\ Picks(v)
    /\ \E node \in Leads(menu[v].node) :
        menu' = [menu EXCEPT ![v] = [node |-> node, handler |-> NoHandler]]
    /\ UNCHANGED chainVars /\ ExecOff

\* The guides to GCC, USDC and the plans only show text and change nothing.
ShowGuide(v) ==
    /\ Picks(v) /\ menu[v].node \in {"main", "plans"}
    /\ UNCHANGED <<menu, chainVars>> /\ ExecOff

PickEstimate(v) ==
    /\ Picks(v) /\ menu[v].node = "pricing"
    /\ Result(v, "calc", Handler("estimate", "none", <<>>, 0))
    /\ UNCHANGED chainVars /\ ExecOff

\* An estimate, or why there is none, is only shown.
Estimated(v) ==
    /\ menu[v].handler.step = "estimate" /\ current' = v
    /\ Stays(v)
    /\ UNCHANGED chainVars /\ ExecOff

\* [1] buildAccountView(): the wallet is resolved before the chain is read.
PickAccount(v) ==
    /\ Picks(v) /\ menu[v].node = "main"
    /\ IF "wallet" \in identity[v]
       THEN views' = views \cup {[from |-> v, wallet |-> current']}
       ELSE UNCHANGED views
    /\ UNCHANGED <<menu, decimals, shown>> /\ ExecOff

\* external: the eth_calls a node may answer; an error is a null.
EthCalls == SUBSET (Tokens \X {"decimals", "balanceOf"})
DecimalsAfter(calls) == decimals \cup {t \in Tokens : <<t, "decimals">> \in calls}
TokenBalances(calls) ==
    {t \in DecimalsAfter(calls) : <<t, "balanceOf">> \in calls}

\* balances(): what could not be read is shown as missing.
BalancesShown(r) ==
    /\ \E calls \in EthCalls :
        /\ decimals' = DecimalsAfter(calls)
        /\ shown' = IF TokenBalances(calls) = {} THEN shown
                    ELSE shown \cup {[to |-> r.from, wallet |-> r.wallet]}
    /\ views' = views \ {r}
    /\ UNCHANGED <<current, menu>> /\ ExecOff

\* execReady(), asked at the choice.
ExecReady == Wired /\ "secret" \in identity[current']

PickBuy(v, action) ==
    /\ Picks(v) /\ menu[v].node = "main" /\ ExecReady
    /\ Result(v, "main", Handler("amount", action, <<>>, 0))
    /\ UNCHANGED chainVars /\ ExecOff

TopupGccFlow(v) == PickBuy(v, "topup_gcc")
BuyGccCcaFlow(v) == PickBuy(v, "buy_gcc_cca")

-----------------------------------------------------------------------------
\* The flow that buys: an input for the handler of a session.

HandlerRuns(v, step, action) ==
    /\ menu[v].handler.step = step /\ menu[v].handler.action = action
    /\ current' = v
Secret == "secret" \in identity[current']
Sends(e) == execs' = execs \cup {e} /\ sent' = sent + 1 /\ sent < MaxSent

\* exec(): the request, under the API key that is resolved now.
Exec(v, action, amounts, dry, key) ==
    [id |-> sent + 1, from |-> v, payer |-> current', action |-> action,
     amounts |-> amounts, dry |-> dry, key |-> key, reply |-> "none", awaited |-> TRUE]

\* parseAmount() answers null, or the answer is neither yes nor no.
NotUnderstood(v) ==
    /\ menu[v].handler.step \in {"amount", "confirm"} /\ current' = v
    /\ Result(v, menu[v].node, menu[v].handler)
    /\ UNCHANGED chainVars /\ ExecOff

Declined(v) ==
    /\ \E action \in Actions :
        \/ HandlerRuns(v, "confirm", action)
        \/ HandlerRuns(v, "amount", action) /\ ~Secret
    /\ Stays(v)
    /\ UNCHANGED chainVars /\ ExecOff

\* The preview: a dry run under a key that exec() mints.
AsksPreview(v, action, amounts) ==
    /\ HandlerRuns(v, "amount", action) /\ Secret
    /\ Sends(Exec(v, action, amounts, TRUE, sent + 1))
    /\ UNCHANGED <<identity, menu, charges, previewed, agreed, chainVars, seedVars>>

TopupGccAmountHandler(v, usdc) == AsksPreview(v, "topup_gcc", <<usdc>>)
BuyGccCcaInputHandler(v, currency, maxPrice) ==
    AsksPreview(v, "buy_gcc_cca", <<currency, maxPrice>>)

\* Faulty variant: the settlement is a request with a key of its own.
SettlesFreshKey(v, action) ==
    Exec(v, action, menu[v].handler.amounts, FALSE, sent + 1)

\* The settlement goes under the key of the preview.
Settles(v, action) ==
    Exec(v, action, menu[v].handler.amounts, FALSE, menu[v].handler.key)

Confirmed(v, action) ==
    /\ HandlerRuns(v, "confirm", action) /\ Secret
    /\ agreed' = agreed \cup {[by |-> v, key |-> menu[v].handler.key]}
    /\ Sends(Settles(v, action))
    /\ UNCHANGED <<identity, menu, charges, previewed, chainVars, seedVars>>

TopupGccConfirmHandler(v) == Confirmed(v, "topup_gcc")
BuyGccCcaConfirmHandler(v) == Confirmed(v, "buy_gcc_cca")

\* external: ai.gg serves a request, once per key, or refuses it.
Served(e, reply) ==
    /\ e.reply = "none"
    /\ execs' = (execs \ {e}) \cup (IF e.awaited THEN {[e EXCEPT !.reply = reply]} ELSE {})
    /\ charges' = IF e.dry \/ reply = "refused" \/ \E c \in charges : c.key = e.key
                  THEN charges
                  ELSE charges \cup {[id |-> e.id, key |-> e.key, payer |-> e.payer,
                                      action |-> e.action, amounts |-> e.amounts]}
    /\ UNCHANGED <<sessionVars, sent, previewed, agreed, chainVars, seedVars>>

Preview(e) ==
    [to |-> e.from, key |-> e.key, action |-> e.action, amounts |-> e.amounts]

\* The answer of exec(): a preview asks for the confirmation.
Answered(e) ==
    /\ e.awaited /\ e.reply # "none"
    /\ execs' = execs \ {e}
    /\ IF e.dry /\ e.reply = "ok"
       THEN /\ Result(e.from, menu[e.from].node,
                      Handler("confirm", e.action, e.amounts, e.key))
            /\ previewed' = previewed \cup {Preview(e)}
       ELSE Stays(e.from) /\ UNCHANGED previewed
    /\ UNCHANGED <<identity, current, sent, charges, agreed, chainVars, seedVars>>

\* The client's time is up, or the request or its answer is lost: a
\* NETWORK_ERROR.  What is on the wire may be served yet.
NetworkError(e) ==
    /\ e.awaited
    /\ \E late \in {{}, Unheard(e)} : execs' = (execs \ {e}) \cup late
    /\ Stays(e.from)
    /\ UNCHANGED <<identity, current, sent, charges, previewed, agreed, chainVars,
                   seedVars>>

SeedNext ==
    \/ \E refresh \in BOOLEAN : SeedMerchant(refresh) \/ SeedPricingConsultant(refresh)
    \/ \E ok \in BOOLEAN : PricingFetched(ok)
    \/ \E npc \in PlatformNpcs : SeedCreates(npc)
    \/ RegisterPricingMenu

VisitNext ==
    \E v \in Visitors : Reconnect(v) \/ \E npc \in PlatformNpcs : Visit(v, npc)

WalkNext ==
    \/ \E v \in Visitors :
        \/ PickPlain(v) \/ ShowGuide(v) \/ PickEstimate(v) \/ Estimated(v)
        \/ PickAccount(v)
    \/ \E r \in views : BalancesShown(r)

BuyNext ==
    \/ \E v \in Visitors :
        \/ TopupGccFlow(v) \/ BuyGccCcaFlow(v)
        \/ \E usdc \in Sums : TopupGccAmountHandler(v, usdc)
        \/ \E currency, maxPrice \in Sums : BuyGccCcaInputHandler(v, currency, maxPrice)
        \/ TopupGccConfirmHandler(v) \/ BuyGccCcaConfirmHandler(v)
        \/ NotUnderstood(v) \/ Declined(v)
    \/ \E e \in execs :
        \/ \E reply \in {"ok", "refused"} : Served(e, reply)
        \/ Answered(e) \/ NetworkError(e)

MerchantNext == SeedNext \/ ProcessRestarts \/ VisitNext \/ WalkNext \/ BuyNext

MerchantSpec == MerchantInit /\ [][MerchantNext]_merchantVars

-----------------------------------------------------------------------------
\* ai.gg charges a visitor only for the amount of a preview that was shown to
\* that visitor and confirmed there, and once for a preview, however often the
\* visitor answers, loses the connection or the answer is late.
ChargesConfirmed ==
    \A c \in charges :
        /\ [to |-> c.payer, key |-> c.key, action |-> c.action, amounts |-> c.amounts]
            \in previewed
        /\ [by |-> c.payer, key |-> c.key] \in agreed
        /\ \A d \in charges : d.key = c.key => d = c

\* A visitor is shown the balances of the visitor's own wallet; a platform NPC
\* this process created has a menu.
MenuKept ==
    /\ ChargesConfirmed
    /\ \A s \in shown : s.wallet = s.to
    /\ \A npc \in made : menuRegistry[npc] # "none"
=============================================================================

----------------------------- MODULE MCEconomy ------------------------------
(***************************************************************************)
(* TLC instances of the economy: the silver, rice and bets of the game,    *)
(* the platform's menus that sell GCC, the payments for what an NPC        *)
(* thinks, and balances kept in native coin.  A behaviour explores one.    *)
(***************************************************************************)
EXTENDS MCSharedWorldSilver, MerchantMenu, OnchainPay, NativeSettlement

VARIABLE part  \* what this behaviour explores

\* A session at the menus that the seeding registered for these NPCs.
SessionsAt(npcs) ==
    /\ identity = [v \in Visitors |-> {"wallet", "secret"}]
    /\ current \in Visitors
    /\ menu = [v \in Visitors |-> Closed]
    /\ execs = {} /\ sent = 0 /\ charges = {} /\ previewed = {} /\ agreed = {}
    /\ views = {} /\ decimals = {} /\ shown = {}
    /\ stored = npcs /\ made = npcs /\ boots = 1
    /\ menuRegistry = [npc \in PlatformNpcs |-> IF npc \in npcs THEN "live" ELSE "none"]
    /\ seeding = [npc \in PlatformNpcs |-> "idle"]

\* What a part does not explore starts in one of its initial states and stays.
EconomyInit ==
    /\ part \in {"silver", "seed", "walk", "buy", "pay", "native"}
    /\ Init /\ PayInit /\ NativeInit
    /\ part # "silver" => host = CHOOSE h \in Hosts : TRUE
    /\ strategy \in {"ledger", "verify"} => readThrough
    /\ part # "pay" => strategy = "ledger" /\ readThrough /\ owner = CHOOSE s \in Servers : TRUE
    /\ part # "native" => /\ gasCost = CHOOSE g \in GasCosts : TRUE
                          /\ wei = CHOOSE n \in Opening : TRUE
    /\ CASE part = "walk" -> SessionsAt(PlatformNpcs)
         [] part = "buy" -> SessionsAt({"merchant"})
         [] OTHER -> SessionsAt({})
    /\ part \notin {"walk", "buy"} => current = CHOOSE v \in Visitors : TRUE

\* Bound: at most one session loses its API key while the visitors buy.
BuyersMeet ==
    \E v \in Visitors :
        \/ Reconnect(v) /\ \A w \in Visitors : "secret" \in identity[w]
        \/ \E npc \in PlatformNpcs : Visit(v, npc)

MenuNext ==
    \/ part = "seed" /\ (SeedNext \/ ProcessRestarts)
    \/ part = "walk" /\ (VisitNext \/ WalkNext)
    \/ part = "buy" /\ (BuyersMeet \/ BuyNext \/ ProcessRestarts)

EconomyNext ==
    \/ part = "silver" /\ Next /\ UNCHANGED <<part, merchantVars, payVars, nativeVars>>
    \/ MenuNext /\ UNCHANGED <<part, vars, payVars, nativeVars>>
    \/ part = "pay" /\ PayNext /\ UNCHANGED <<part, vars, merchantVars, nativeVars>>
    \/ part = "native" /\ NativeNext /\ UNCHANGED <<part, vars, merchantVars, payVars>>

EconomySpec ==
    EconomyInit /\ [][EconomyNext]_<<part, vars, merchantVars, payVars, nativeVars>>
=============================================================================

------------------------------- MODULE MCNode -------------------------------
(* The parts of one node that share no state with each other: its match
   servers, a publisher's service, the updater, the hot key, the proxy
   wallets, the reads of the chain and the runner of verifiers.  Each behaviour
   is one of one part, which Init picks. *)
EXTENDS Gauntlet, Services, Updater, SendQueue, ProxyWallets, RpcPool, Verifier

VARIABLE part

nodeVars == <<part, gauntletVars, servicesVars, updaterVars, queueVars, proxyVars, rpcVars, verifierVars>>

MCBundleOf == [c \in 1..4 |-> IF c <= 2 THEN "good" ELSE "broken"]
MCShips == <<{1, 2, 3}, {1, 2, 4}>>
MCDated == <<2, 1>>
MCSigner == <<"k1", "k2">>
MCRotate == <<{"k2"}, {}>>
MCRetire == <<{}, {"k1"}>>

NodeInit ==
    /\ part \in {"courts", "services", "updater", "key", "proxies", "rpc", "verifier"}
    /\ GauntletInit /\ ServicesInit /\ UpdaterInit /\ SendQueueInit /\ ProxyInit /\ RpcInit
    /\ VerifierInit

NodeNext ==
    /\ UNCHANGED part
    /\ \/ /\ part = "courts" /\ GauntletNext
          /\ UNCHANGED <<servicesVars, updaterVars, queueVars, proxyVars, rpcVars, verifierVars>>
       \/ /\ part = "services" /\ ServicesNext
          /\ UNCHANGED <<gauntletVars, updaterVars, queueVars, proxyVars, rpcVars, verifierVars>>
       \/ /\ part = "updater" /\ UpdaterNext
          /\ UNCHANGED <<gauntletVars, servicesVars, queueVars, proxyVars, rpcVars, verifierVars>>
       \/ /\ part = "key" /\ SendQueueNext
          /\ UNCHANGED <<gauntletVars, servicesVars, updaterVars, proxyVars, rpcVars, verifierVars>>
       \/ /\ part = "proxies" /\ ProxyNext
          /\ UNCHANGED <<gauntletVars, servicesVars, updaterVars, queueVars, rpcVars, verifierVars>>
       \/ /\ part = "rpc" /\ RpcNext
          /\ UNCHANGED <<gauntletVars, servicesVars, updaterVars, queueVars, proxyVars, verifierVars>>
       \/ /\ part = "verifier" /\ VerifierNext
          /\ UNCHANGED <<gauntletVars, servicesVars, updaterVars, queueVars, proxyVars, rpcVars>>

NodeSpec == NodeInit /\ [][NodeNext]_nodeVars /\ (part = "courts" => GauntletFairness)

NodeTypeOK ==
    /\ GauntletTypeOK /\ ServicesTypeOK /\ UpdaterTypeOK /\ SendQueueTypeOK /\ ProxyTypeOK
    /\ RpcTypeOK /\ VerifierTypeOK
=============================================================================

------------------------ MODULE MCExecutionGateway ------------------------
(* Instances of ExecutionGateway for TLC.                                  *)
EXTENDS ExecutionGateway, TLC

CONSTANTS alice, bob, main, spare, k1, t1, t2

(* No definition tells one tab from another.                               *)
TabsAlike == Permutations(Tabs)

(* An appendix: how an order is executed and triggered, and other bits,    *)
(* those next to either field among them; and two that no builder packs:   *)
(* no bit at all, not even a version, and every bit but one of the type    *)
(* and those of the trigger.                                               *)
Appended(type, trigger) ==
    {9 + k : k \in TypeBits(type)} \cup {12 + k : k \in KindBits(trigger)} \cup {0, 8, 11, 14, 38, 127}
Blank == {}
Crowded == (0..127) \ {9, 12, 13}

Part(sender, signer, appendix) ==
    [sender |-> sender, signer |-> signer, is_order |-> TRUE, appendix |-> appendix]
Cancel(sender, signer) == [Part(sender, signer, Blank) EXCEPT !.is_order = FALSE]
Load(kind, parts) == [kind |-> kind, parts |-> parts]

Stop == Appended("ioc", "price")
Mine(signer, appendix)  == Part(<<alice, main>>, signer, appendix)
MyCancel(signer) == Cancel(<<alice, main>>, signer)

MCSenders == {<<alice, main>>, <<alice, spare>>, <<bob, main>>}

(* k1 may be unlinked from alice's main, or linked to her spare, meanwhile.*)
MCFirstLinks == [s \in MCSenders |-> IF s = <<alice, main>> THEN k1 ELSE None]

MCPayloads ==
    {Load("place_order", <<Mine(alice, a)>>) : a \in {Blank, Crowded}}
    \cup {Load("trigger place_order", <<Mine(alice, Appended("post_only", g))>>) : g \in {"none", "price", "twap"}}
    \cup {Load("cancel_orders", <<Cancel(<<alice, spare>>, k1)>>),
          Load("trigger cancel_orders", <<MyCancel(bob)>>),
          Load("cancel_and_place", <<MyCancel(k1), Mine(k1, Appended("default", "none"))>>),
          Load("cancel_and_place", <<MyCancel(k1), Part(<<bob, main>>, bob, Blank)>>),
          Load("cancel_and_place", <<MyCancel(None), Mine(k1, Stop)>>),
          Load("trigger place_orders", <<>>),
          Load("trigger place_orders", <<Mine(k1, Stop), Part(<<bob, main>>, bob, Stop)>>),
          Load("trigger place_orders", <<Mine(k1, Stop), Part(<<alice, spare>>, k1, Stop)>>)}
=============================================================================

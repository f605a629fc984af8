--------------------------------- MODULE Factory_MC ---------------------------------
(* Model values for Factory.  The factories are those of RekeyTest: f1 has the *)
(* first configuration and no migrations, f2 moves it to the second, f3 moves  *)
(* either to the third.                                                        *)
EXTENDS Factory, TLC

CONSTANTS f1, f2, f3, cfgA, cfgB, cfgC, k1, raw

CurrentDef == f1 :> cfgA @@ f2 :> cfgB @@ f3 :> cfgC
MigrationsDef == f1 :> << >> @@ f2 :> << cfgA >> @@ f3 :> << cfgA, cfgB >>

\* cfgA is a cipher without raw keys.
AcceptsDef == cfgA :> (Keys \ {raw}) @@ cfgB :> Keys @@ cfgC :> Keys

\* The page sizes of cfgA and cfgC differ.
CompatibleDef == (Configs \X Configs) \ {<<cfgA, cfgC>>}

\* Two calls with every kind of key: a passphrase, a raw key, the empty key.
KeyRequests ==
    [factory : {f3}, key : {k1}, rekey : {NoKey, raw}]
        \cup [factory : {f3}, key : {raw}, rekey : {NoKey}]
        \cup [factory : {f2}, key : {k1}, rekey : {EmptyKey}]
        \cup [factory : {f2}, key : {EmptyKey}, rekey : {k1}]
        \cup [factory : {f1}, key : {k1}, rekey : {raw}]
=============================================================================

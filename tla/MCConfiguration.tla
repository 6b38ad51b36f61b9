---------------------------- MODULE MCConfiguration ----------------------------
(* Small instance of Configuration: one model under five spellings of its   *)
(* name, a price in yuan with a peak window and one in dollars with a       *)
(* threshold, two callers.                                                  *)
EXTENDS Configuration

MCName(v, d, c) == [vendor |-> v, base |-> "gpt-4o", dated |-> d, caps |-> c]
MCShout   == MCName(NoVendor, FALSE, TRUE)
MCAzure   == MCName("azure", FALSE, FALSE)
MCAzureOf == MCName("azure", TRUE, FALSE)
MCPlain   == MCName(NoVendor, FALSE, FALSE)
MCOf      == MCName(NoVendor, TRUE, FALSE)
MCNames == <<MCShout, MCAzure, MCAzureOf, MCPlain, MCOf>>

MCRate(i, o, r, w) == [in |-> i, out |-> o, read |-> r, write |-> w]
MCNoRule == [items |-> {}, spans |-> {}]
MCRule == [items |-> {<<"days", 1, 5>>, <<"days", 7, 7>>, <<"!H">>, <<"W">>}, spans |-> {<<9, 12>>, <<14, 18>>}]

MCYuan == [currency |-> "CNY", base |-> MCRate(20, 30, 0, 12), off |-> MCRate(4, 0, 2, 0),
           window |-> MCRule, threshold |-> 0, above |-> Zero]
MCDollar == [currency |-> "", base |-> MCRate(6, 8, 2, 0), off |-> Zero,
             window |-> MCNoRule, threshold |-> 5, above |-> MCRate(10, 0, 0, 14)]
MCFree == [MCDollar EXCEPT !.base = MCRate(0, 0, 2, 0)]
MCPriceInputs == {MCYuan, MCDollar, MCFree}
MCPriceNames == {MCShout}

MCRecord(n, m, i) == [model |-> n, mode |-> m, base |-> MCRate(i, 4, 0, 0),
                      above |-> 5 :> MCRate(9, 0, 1, 0) @@ 7 :> MCRate(11, 0, 0, 0)]
MCFeeds == {{MCRecord(MCPlain, "chat", 3), MCRecord(MCAzure, "chat", 5)},
            {MCRecord(MCAzureOf, "chat", 7), MCRecord(MCPlain, "embedding", 1)},
            {MCRecord(MCPlain, "chat", 0) }}

MCInitPrices == 1 :> [model |-> MCPlain, source |-> "manual", terms |-> applyPriceInput(MCYuan)]
                @@ 2 :> [model |-> MCAzureOf, source |-> "synced", terms |-> applyPriceInput(MCDollar)]
MCInitRules == 1 :> [model |-> "m1", target |-> "enabled", status |-> 1]
MCInitHolidays == 1 :> (2 :> "workday")
MCInitChannels == 1 :> [name |-> "a", secret |-> "s1", protocols |-> {}, status |-> 1]
MCYears == <<1, 2>>
MCYearData == {<<>>, 0 :> "holiday", 2 :> "holiday"}

MCUsage(s, p, c, w, o) == [style |-> s, prompt |-> p, cached |-> c, written |-> w, completion |-> o]
MCUsages == {MCUsage("openai", 6, 2, 0, 1), MCUsage("openai", 5, 1, 0, 0), MCUsage("openai", 1, 3, 0, 2),
             MCUsage("anthropic", 4, 2, 1, 1), MCUsage("anthropic", 6, 1, 2, 0)}
\* In Beijing: 10 and 12 o'clock on a Thursday, 4 on a Friday, 11 on a
\* Saturday and 9 on a Sunday.
MCTimes == {2, 4, 20, 51, 73}
MCRequests == {[name |-> MCNames[i], usage |-> MCUsage("openai", 6, 2, 0, 1), at |-> 20] : i \in 1..5}
              \cup {[name |-> MCPlain, usage |-> u, at |-> t] : u \in MCUsages, t \in MCTimes}
===============================================================================

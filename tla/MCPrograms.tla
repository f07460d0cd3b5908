---------------------------- MODULE MCPrograms ----------------------------
(* Instances of Programs for TLC. *)
EXTENDS Programs

Setting(p, s, l, q, d) ==
    [program |-> p, source |-> s, level |-> l, quant |-> q, drop |-> d]

TestSettings ==
    {Setting("streaming", "dense", "browse", "none", FALSE),
     Setting("streaming", "dense", "all", "none", FALSE),
     Setting("streaming", "dense", "browse", "q4k", TRUE),
     Setting("memory", "dense", "all", "none", FALSE),
     Setting("streaming", "moe", "all", "none", FALSE),
     Setting("streaming", "moe", "all", "q4k", FALSE)}

\* The first digit of 12 is the whole number of another layer.
TestOrder == <<"12", "0", "1">>
TestCutNames == {<<"1", "12">>}

\* One slot with metadata, one without.
TestGates == [f \in Slots |-> "v0"]
TestMetas == [f \in Slots |-> IF f = 0 THEN "t1" ELSE Empty]

\* For each entity, the answer to "p" and that to "q": a way and a short cut, a
\* circle, an answer that is no entity, and one answer to both.
TestModel(a, b, c) ==
    [k \in Entities \X Relations |->
        CASE k[1] = "a" -> a[k[2]] [] k[1] = "b" -> b[k[2]] [] k[1] = "c" -> c[k[2]]
          [] OTHER -> Nothing]
Answers(p, q) == [r \in Relations |-> IF r = "p" THEN p ELSE q]

TestModels ==
    {TestModel(Answers("b", Nothing), Answers("c", Nothing), Answers("d", "a")),
     TestModel(Answers("c", "b"), Answers("c", "the"), Answers("a", "d")),
     TestModel(Answers("b", "b"), Answers("b", "d"), Answers("the", "the"))}

TestSeeds == {<<"a">>, <<"b", "a">>}

\* Versions of a server: the least that rank can use; one without a report; three
\* with a report, of which one lacks routes that are never asked for, and one those
\* too that operations fall back to.
TestServers ==
    {{"stats", "walk"},
     {"stats", "walk", "describe", "infer", "relations", "rank", "select", "warmup"},
     {"stats", "walk", "describe", "infer", "relations", "capabilities", "select", "warmup",
      "embed", "encode"},
     {"stats", "capabilities", "rank", "cache/stats", "embed"},
     {"capabilities", "relations"}}

Row(t, r) == [text |-> t, root |-> r]

\* Rows that all have a text, rows without, one that was updated in place, none.
TestTables ==
    {<<Row("x", TRUE), Row("y", TRUE), Row("z", TRUE)>>,
     <<Row("x", TRUE), Row(NoText, TRUE), Row("y", TRUE)>>,
     <<Row("y", FALSE), Row("x", TRUE), Row("", TRUE)>>,
     <<Row("", TRUE), Row(NoText, TRUE), Row(NoText, FALSE)>>}

\* Equal scores, no score, and an order that differs from text to text.
TestScore ==
    [p \in {"x", "y", "z"} \X Queries |->
        CASE p = <<"x", "q">> -> 1 [] p[1] # "x" /\ p[2] = "q" -> 3
          [] p = <<"x", "r">> -> 2 [] p = <<"y", "r">> -> 0 [] OTHER -> 1]

Shard(u, experts) == [url |-> u, owns |-> experts]

\* An expert that two shards own, one that moves, one that none owns.
TestMaps ==
    {<<Shard("a", {1, 2}), Shard("b", {2})>>,
     <<Shard("b", {1}), Shard("a", {2})>>,
     <<Shard("b", {1}), Shard("c", {1})>>}

\* The projected vectors of a layer, but for a part too small to change an order.
TestVectors ==
    <<<<-6, 10>>, <<1, 7>>, <<10, 11>>, <<10, 4>>, <<-3, -6>>,
      <<12, 4>>, <<8, 11>>, <<5, 11>>, <<-3, 11>>, <<-6, 4>>>>
Dot(v, w) == v[1] * w[1] + v[2] * w[2]

Similar(n) ==
    [f \in 0 .. n - 1 |-> [g \in 0 .. n - 1 |-> Dot(TestVectors[f + 1], TestVectors[g + 1])]]

\* One with a place for each feature; one of which lists are full and no list names
\* the feature 4; and one in which the entry point gives up a feature.
TestLayers == {Similar(4), Similar(6), Similar(10)}

PerFeature(list) == [f \in 0 .. 9 |-> list[f + 1]]

\* The entry point is the last feature, the first, one between: one or two up.
TestLevels ==
    {PerFeature(<<0, 0, 0, 0, 0, 0, 0, 0, 0, 0>>), PerFeature(<<1, 0, 0, 0, 0, 0, 0, 0, 0, 0>>),
     PerFeature(<<0, 1, 0, 0, 1, 0, 0, 0, 0, 0>>), PerFeature(<<0, 0, 0, 0, 0, 0, 1, 0, 1, 1>>),
     PerFeature(<<0, 0, 2, 1, 0, 1, 1, 0, 0, 0>>)}

Residual(near, exact) == [near |-> PerFeature(near), exact |-> PerFeature(exact)]

\* Projected and exact scores that agree on little but the greatest.
TestResiduals ==
    {Residual(<<3, -7, 5, 1, -2, 6, -4, 8, -9, 2>>, <<4, -8, 5, 1, -2, 6, -3, 7, -10, 9>>),
     Residual(<<-1, -2, -3, -4, -5, -6, -7, -8, -9, -10>>, <<2, -3, -1, -5, -4, -7, -6, 9, 8, -10>>)}
=============================================================================

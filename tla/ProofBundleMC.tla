---------------------------- MODULE ProofBundleMC ---------------------------
(* Values for ProofBundle: documents that differ, that repeat one another   *)
(* in another spelling, and one for each reason to refuse a document.       *)
EXTENDS ProofBundle, TLC

MCTexts ==
  {"A", "B", "a", "b", "c", " B ", " b ", "k1", " k1", "k2", "m1", "m2", "", " ", "long", "two words",
   "bare", "jcs", "service", "bot", "w1", "w2"}

MCTrim  == (" B " :> "B" @@ " b " :> "b" @@ " k1" :> "k1" @@ " " :> "") @@ [t \in MCTexts |-> t]
MCLower == ("A" :> "a" @@ "B" :> "b" @@ " B " :> " b ") @@ [t \in MCTexts |-> t]

Key(id, material, revoked) ==
  [key_id |-> id, material |-> material, not_before |-> 0, not_after |-> 1, revoked |-> revoked]

Root(authority, keys) ==
  [authority_id |-> authority, keys |-> keys, profile |-> "jcs",
   policy |-> [non_revoked_ttl |-> 1, max_stale |-> 2], endpoints |-> 1, delegation |-> "Supported"]

Worker(authority, kind, id, keys) ==
  [authority_id |-> authority, principal |-> [kind |-> kind, id |-> id], keys |-> keys]

k1 == Key("k1", "m1", FALSE)
k2 == Key("k2", "m2", FALSE)

MCRawDocuments ==
  {Root("a", <<k1>>), Root("A", <<[k1 EXCEPT !.key_id = " k1"]>>), Root("a", <<k1, k2>>),
   [Root("b", <<k2>>) EXCEPT !.delegation = None, !.policy = None], Root("c", <<k1>>),
   Root(" B ", <<k1, Key(" k1", "m2", FALSE)>>), Root("b", <<>>), Root("b", <<k1, k2, k1>>),
   Root("bare", <<k1>>), Root("b", <<Key("two words", "m1", FALSE)>>),
   Root("b", <<[k1 EXCEPT !.not_before = 2]>>), Root("b", <<Key("k1", " ", FALSE)>>),
   [Root("b", <<k1>>) EXCEPT !.policy.max_stale = 0],
   [Root("b", <<k1>>) EXCEPT !.profile = "long"],
   [Root("b", <<k1>>) EXCEPT !.endpoints = 2],
   [Root("b", <<k1>>) EXCEPT !.delegation = "Unsupported"]}

MCRawDelegated ==
  {Worker("a", "service", "w1", <<Key("k1", "m2", TRUE), k1>>), Worker("a", "service", "w1", <<k1>>),
   Worker("a", "service", "w1", <<k2>>), Worker("a", "service", "w2", <<Key("k2", "m1", TRUE)>>),
   Worker("a", "bot", "w1", <<k2>>), Worker("b", "service", "w1", <<k1>>),
   Worker("a", "service", "w2", <<k1, Key(" k1", "m2", FALSE)>>), Worker("a", " ", "w1", <<k1>>),
   Worker("a", "bot", "w1", <<k1, k2, Key("k1", "m1", TRUE)>>)}

MCProofs ==
  {[trustgrant_id |-> "g1", status |-> "Active"], [trustgrant_id |-> "g1", status |-> "Revoked"],
   [trustgrant_id |-> "g2", status |-> "Active"]}

MCChains == {<<"t1", "t2">>, <<"t1", "t2", "t3">>}
=============================================================================

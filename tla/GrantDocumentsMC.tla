--------------------------- MODULE GrantDocumentsMC -------------------------
(* Values for GrantDocuments: documents that differ in one part from a      *)
(* plain one, with something to refuse in every part.                       *)
EXTENDS GrantDocuments

MCSpaced == {" x" :> "x", " " :> "", " read" :> "read", " res" :> "res", " equals(x)" :> "equals(x)",
             " HTTPS://A" :> "HTTPS://A", " https://a" :> "https://a", " key" :> "key"}

MCTexts ==
  UNION {DOMAIN s \cup {s[t] : t \in DOMAIN s} : s \in MCSpaced}
  \cup {"tg_1", "tg_{1}", "tg_2", "tgs_1", "tgs_2", "https://a", "HTTPS://A", "https://b", "bare",
        "long", "two words", "actor", "Actor", "color", "Color", "y", "write", "equals( x )", "nonsense", "bot"}

MCTrim  == [t \in MCTexts |-> IF \E s \in MCSpaced : t \in DOMAIN s
                              THEN (CHOOSE s \in MCSpaced : t \in DOMAIN s)[t] ELSE t]
MCLower == ("HTTPS://A" :> "https://a" @@ " HTTPS://A" :> " https://a" @@ "Actor" :> "actor" @@ "Color" :> "color")
           @@ [t \in MCTexts |-> t]

MCTrustGrantIdOf ==
  ("tg_1" :> "tg_1" @@ "tg_{1}" :> "tg_1" @@ "tg_2" :> "tg_2") @@ [t \in MCTexts |-> None]
MCGrantSeriesIdOf == ("tgs_1" :> "tgs_1" @@ "tgs_2" :> "tgs_2") @@ [t \in MCTexts |-> None]
MCExpressionOf ==
  ("equals(x)" :> "equals(x)" @@ "equals( x )" :> "equals(x)") @@ [t \in MCTexts |-> None]

-----------------------------------------------------------------------------
Sel(kind, values) == [kind |-> kind, all |-> FALSE, values |-> values, expressions |-> None]

Everything == [all |-> TRUE, allow |-> None, deny |-> None]
Only(selectors) == [all |-> FALSE, allow |-> selectors, deny |-> None]

MCSelectorLists ==
  {<<Sel("actor", <<"x", " x", "y">>)>>,
   <<Sel("actor", <<"x">>), Sel("Actor", <<"x">>)>>,
   <<Sel("color", <<"x">>), Sel("actor", <<"x", "x">>)>>,
   <<[Sel("actor", None) EXCEPT !.expressions = <<" equals(x)", "equals( x )">>]>>,
   <<[Sel("actor", None) EXCEPT !.expressions = <<"nonsense">>]>>,
   <<[Sel("actor", None) EXCEPT !.all = TRUE]>>,
   <<Sel("actor", <<>>)>>, <<Sel("two words", <<"x">>)>>, <<Sel("actor", <<" ">>)>>,
   <<Sel("actor", <<"x", "y", "x", "x">>)>>,
   <<Sel("actor", <<"x">>), Sel("actor", <<"y">>), Sel("color", <<"x">>)>>}

MCScopes ==
  {Everything, Only(None), Only(<<>>), [Only(None) EXCEPT !.deny = <<Sel("actor", <<"x">>)>>],
   [Everything EXCEPT !.allow = <<Sel("actor", <<"x">>)>>],
   [Everything EXCEPT !.allow = <<>>, !.deny = <<Sel("actor", <<"y">>)>>]}
  \cup {Only(selectors) : selectors \in MCSelectorLists}

For(authority, scope, principals) ==
  [authority_id |-> authority, scope |-> scope, principal_scope |-> principals]

MCAudiences ==
  {<<>>, <<For("https://a", Everything, None)>>,
   <<For("https://b", Only(<<Sel("actor", <<"x">>)>>), Everything)>>,
   <<For("https://a", Everything, None), For(" HTTPS://A", Everything, None)>>,
   <<For("https://a", Only(None), None)>>, <<For("https://a", Everything, Only(None))>>,
   <<For("bare", Everything, None)>>,
   <<For("https://a", Everything, None), For("https://b", Everything, None),
     For("bare", Everything, None)>>}

PlainType ==
  [all |-> TRUE, allow |-> None, deny |-> None, capabilities |-> [recognize |-> None, mint |-> TRUE],
   minting |-> [max_total |-> 1, max_per_user |-> None], audience_scope |-> None, operations |-> None]

MCOperations ==
  {None, [allow |-> <<" read", "write">>, deny |-> <<"read">>],
   [allow |-> <<"read", " read">>, deny |-> None], [allow |-> None, deny |-> <<"read">>],
   [allow |-> <<"read">>, deny |-> <<"write", "write">>], [allow |-> <<"two words">>, deny |-> None]}

MCTypes ==
  {PlainType} \cup {[PlainType EXCEPT !.operations = o] : o \in MCOperations}
  \cup {[PlainType EXCEPT !.audience_scope = a] : a \in MCAudiences}
  \cup {[PlainType EXCEPT !.all = s.all, !.allow = s.allow, !.deny = s.deny] :
          s \in {Only(None), Only(<<Sel("actor", <<"x">>), Sel("Actor", <<"x">>)>>),
                  [Everything EXCEPT !.allow = <<Sel("actor", <<"x">>)>>]}}
  \cup {[PlainType EXCEPT !.minting.max_total = 2], [PlainType EXCEPT !.capabilities.mint = None]}

MCResourceScopes ==
  {<<>>} \cup {<<[name |-> "res", type |-> t]>> : t \in MCTypes}
  \cup {<<[name |-> " res", type |-> PlainType],
          [name |-> "res", type |-> [PlainType EXCEPT !.minting.max_total = 2]]>>,
        <<[name |-> "two words", type |-> PlainType]>>,
        <<[name |-> "res", type |-> PlainType], [name |-> "x", type |-> PlainType],
          [name |-> "y", type |-> PlainType]>>}

-----------------------------------------------------------------------------
Arguments ==
  [issuer_authority |-> "https://a", origin_authority |-> "https://a",
   active_owning_authority |-> "https://a", key_id |-> "key", target_scope |-> Everything,
   capabilities |-> [recognize |-> TRUE, mint |-> FALSE],
   resource_scope |-> <<[name |-> "res", type |-> PlainType]>>, issued_at |-> 0]

MCNewArguments ==
  {Arguments, [Arguments EXCEPT !.issuer_authority = " HTTPS://A", !.key_id = " key"],
   [Arguments EXCEPT !.origin_authority = "https://b"], [Arguments EXCEPT !.key_id = "two words"],
   [Arguments EXCEPT !.active_owning_authority = "bare"]}
  \cup {[Arguments EXCEPT !.target_scope = s] : s \in MCScopes}
  \cup {[Arguments EXCEPT !.resource_scope = r] : r \in MCResourceScopes}

MCLineages ==
  [grant_series_id : {"tgs_2"}, revision : {1, 2}, supersedes : {None, "tg_1", "tg_2"},
   supersession_policy : {"Coexist", "SupersedePrevious", "ExplicitRevocationRequired"}]

MCTimeWindows == {[not_before |-> 0, not_after |-> 0], [not_before |-> 1, not_after |-> 0]}

MCRevocations ==
  [revocable : BOOLEAN, endpoint : {"status"}, effect : {"BlockAll", "BlockMintingOnly"}]

MCPrincipals == {[kind |-> "actor", id |-> " x"], [kind |-> "bot", id |-> " "]}

MCProfiles == {[name |-> "p", version |-> 1]}

MCOnTheWay ==
  {<<"trustgrant_id", "tg_{1}">>, <<"trustgrant_id", "tg_2">>, <<"grant_series_id", "x">>,
   <<"revision", 0>>, <<"revision", 2>>, <<"supersedes", "tg_{1}">>,
   <<"issuer_authority", "HTTPS://A">>, <<"origin_authority", "https://b">>,
   <<"active_owning_authority", "https://b">>, <<"key_id", " key">>, <<"version", 1>>,
   <<"default_audience_scope", <<>>>>, <<"global_constraints", [time |-> None]>>,
   <<"capabilities", [recognize |-> TRUE, mint |-> TRUE]>>, <<"supersession_policy", "SupersedePrevious">>,
   <<"interoperability_profile", [name |-> "q", version |-> 1]>>, <<"interoperability_profile", None>>,
   <<"issued_at", 1>>, <<"signature", None>>, <<"target_scope", Only(<<Sel("actor", <<"x">>)>>)>>,
   <<"revocation", [revocable |-> TRUE, endpoint |-> "status", effect |-> "BlockAll"]>>,
   <<"issuer_principal", [kind |-> "actor", id |-> "x"]>>,
   <<"resource_scope", <<[name |-> "res", type |-> [PlainType EXCEPT !.minting.max_total = 2]]>>>>}

\* Records hold lists where documents may have null.
Filled(option) == IF option = None THEN <<>> ELSE option

RecordSelector(s) == [s EXCEPT !.values = Filled(@), !.expressions = Filled(@)]
RecordList(option) == Each(Filled(option), RecordSelector)
RecordScope(s) == [s EXCEPT !.allow = RecordList(@), !.deny = RecordList(@)]
RecordAudience(a) ==
  Each(a, LAMBDA e : [e EXCEPT !.scope = RecordScope(@),
                               !.principal_scope = Optional(@, RecordScope)])
RecordType(t) ==
  [t EXCEPT !.allow = RecordList(@), !.deny = RecordList(@),
            !.audience_scope = RecordAudience(Filled(@)),
            !.operations = Optional(@, LAMBDA o : [allow |-> Filled(o.allow), deny |-> Filled(o.deny)])]

MCInStorage ==
  {<<"trustgrant_id", "tg_{1}">>, <<"revision", 0>>, <<"supersedes", "tg_2">>,
   <<"supersession_policy", "ExplicitRevocationRequired">>, <<"issuer_authority", "HTTPS://A">>,
   <<"issuer_authority", "https://b">>, <<"active_owning_authority", "https://b">>,
   <<"origin_authority", "https://b">>, <<"key_id", " key">>, <<"key_id", "x">>,
   <<"revocation", None>>,
   <<"revocation", [revocable |-> TRUE, endpoint |-> "status", effect |-> "BlockMintingOnly"]>>,
   <<"global_time_window", [not_before |-> 1, not_after |-> 0]>>,
   <<"issuer_principal", [kind |-> "actor", id |-> "x"]>>, <<"issuer_principal", None>>}
  \cup {<<"target_scope", RecordScope(s)>> : s \in MCScopes}
  \cup {<<"default_audience_scope", RecordAudience(a)>> : a \in MCAudiences}
  \cup {<<"resource_scope", "res" :> RecordType(t)>> : t \in MCTypes}
  \cup {<<"resource_scope", " res" :> RecordType(PlainType)>>}
=============================================================================

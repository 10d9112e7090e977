------------------------------ MODULE MCGateway ------------------------------
(* Three calls of one account: a completion and a stream on one credential, *)
(* and either a completion of the account itself or a response.  And the    *)
(* checks of names and scopes before a call, over every text of up to three *)
(* segments and configurations of two providers.                            *)
EXTENDS Gateway, ModelAccess

CONSTANTS c1, c2, c3, k1, e1

MCCredential    == c1 :> k1 @@ c2 :> k1 @@ c3 :> None
MCLimit         == [k \in Credentials |-> 1]
MCCurrency      == [k \in Credentials |-> "golds"]
MCModelCurrency == [c \in Calls |-> "golds"]

-----------------------------------------------------------------------------
Segments == [word : {"", "p", "m"}, spelled : {1, 2}]
Texts    == UNION {[1..n -> Segments] : n \in 1..3}

Text(word) == <<[word |-> word, spelled |-> 1]>>

\* One agent in a text of its own, or in front of the model: the same request.
ASSUME OneTextOrTwo ==
    \A agent \in Segments, model \in {t \in Texts : Len(t) <= 2} :
        agent.word # "" /\ ~Blank(model) =>
            ResolveOpenAIAgentModel(<<agent>>, model)
                = IF Len(model) = 1 THEN Refused
                  ELSE ResolveOpenAIAgentModel(Text(""), <<agent>> \o model)

\* A request that is taken names an agent, and a model the executor can parse,
\* or none.
ASSUME TakenRequestsParse ==
    \A agent \in {Text(""), Text("p")}, model \in Texts :
        LET request == ResolveOpenAIAgentModel(agent, model)
        IN  request.ok => /\ ~Blank(request.agent) /\ Len(request.agent) = 1
                          /\ request.model = <<>> \/ IsReference(request.model)

Settings(S) == {{}} \cup {{v} : v \in S}

Model(name, blocked, tokens) ==
    [name |-> name, embedding |-> FALSE, modalities |-> {}, window |-> 0,
     perks |-> (0 :> [blocked |-> blocked, tokens |-> tokens])]

Provider(id, models) ==
    [id |-> id, models |-> models, vision |-> {}, presets |-> {}, host |-> "other",
     window |-> 0, discovers |-> TRUE]

Tier(tokens) == [history |-> {}, tokens |-> tokens, vision |-> {FALSE}, summary |-> {}, blocked |-> {}]

\* Two providers with distinct names; the second lists a model with a slash.
Config(blocked, tokens, tier, onlyListed) ==
    [providers  |-> <<Provider(Text("p"), <<Model(Text("m"), blocked, tokens)>>),
                      Provider(Text("m"), <<Model(Text("m") \o Text("p"), blocked, tokens),
                                            Model(Text("p"), {}, {})>>)>>,
     onlyListed |-> onlyListed, agents |-> {Text("m")}, windows |-> {},
     tiers      |-> (0 :> Tier(tier))]

Configs == {Config(b, t, r, o) : b \in Settings(BOOLEAN), t, r \in Settings({7, 9}), o \in BOOLEAN}

\* Nobody gets round a blocked model by spelling its name another way: whatever
\* the executor takes for a model is blocked exactly when that model is, and a
\* level without an entry is not blocked.
ASSUME BlockedInEverySpelling ==
    \A cfg \in Configs, ref \in Texts :
        Resolves(cfg, ref, FALSE) =>
            /\ IsModelBlocked(cfg, 0, ref)
                 <=> \E p \in ProviderOf(cfg, ref) : \E m \in ResolveModel(p, Tail(ref)) :
                        m.perks[0].blocked = {TRUE}
            /\ ~IsModelBlocked(cfg, 1, ref)

\* The first of the five places that says something decides.
ASSUME TokensByOrder ==
    \A cfg \in Configs, agents, own \in Settings({5}), ref \in {Text("p") \o Text("m"), Text("m")} :
        LET agent  == [model |-> ref, tokens |-> own, perks |-> (0 :> [tokens |-> agents])]
            tokens == ResolveMaxCompletionTokens(cfg, 0, agent)
            model  == IF Len(ref) = 2 THEN cfg.providers[1].models[1].perks[0].tokens ELSE {}
            tier   == cfg.tiers[0].tokens
        IN  /\ agents # {} => tokens \in agents
            /\ agents = {} /\ model # {} => tokens \in model
            /\ agents \cup model = {} /\ tier # {} => tokens \in tier
            /\ agents \cup model \cup tier = {} => tokens = (IF own = {} THEN 0 ELSE 5)
            /\ ResolvePerkLimits(cfg, 0).tokens = (IF tier = {} THEN 0 ELSE CHOOSE v \in tier : TRUE)
            /\ ~ResolvePerkLimits(cfg, 0).vision /\ ResolvePerkLimits(cfg, 1).vision

\* A credential that was created with models lets in only references that mean
\* one of them, and never a model that is not configured, although others may
\* be asked for where models need not be listed.
ASSUME ScopesBind ==
    \A onlyListed \in BOOLEAN, listed, ref \in Texts :
        LET cfg == Config({}, {}, {}, onlyListed)
            scopes == [agents |-> {Text("m")}, providers |-> {}, models |-> {listed}]
        IN  ValidateCredentialScopes(cfg, {Text("m")}, {}, {listed})
              /\ WithinScopes(scopes, Text("m"), ref) =>
            /\ IsReference(ref) /\ EqualFold(ref, listed)
            /\ Resolves(cfg, ref, FALSE) =>
                 \E p \in ProviderOf(cfg, ref) : ResolveModel(p, Tail(ref)) # {}

\* A credential for one provider does not let in the models of another, nor an
\* agent that has no model.
ASSUME ProvidersBind ==
    \A id, ref \in Texts :
        LET cfg == Config({}, {}, {}, FALSE)
        IN  /\ ValidateCredentialScopes(cfg, {}, {id}, {})
            /\ WithinScopes([agents |-> {}, providers |-> {id}, models |-> {}], Text("m"), ref)
            => Len(ref) >= 2 /\ EqualFold(<<Head(ref)>>, id)

\* A server is asked for a model's window at most once, also when it had no
\* answer; what is configured is never asked for.
ASSUME AskedOnce ==
    \A stated, said \in {0, 8} :
        LET ref   == Text("p") \o Text("m")
            entry == [id |-> Text("m"), fields |-> <<0, said>>, meta |-> <<16>>]
            base  == Config({}, {}, {}, FALSE)
            cfg   == [base EXCEPT !.providers[1].models[1].window = stated]
            first == ContextWindow(cfg, ref, <<>>, <<entry>>)
            lost  == ContextWindow(cfg, ref, <<>>, <<>>)
        IN  /\ first.window = IF stated > 0 THEN stated ELSE IF said > 0 THEN 8 ELSE 16
            /\ stated > 0 => first.known = <<>>
            /\ ContextWindow(cfg, ref, first.known, <<>>) = first
            /\ ContextWindow(cfg, ref, lost.known, <<entry>>) = lost

\* A longer name of a model is not taken for the shorter one it begins with.
ASSUME LongestPresetDecides ==
    LET base == Config({}, {}, {}, FALSE)
        cfg  == [base EXCEPT !.windows = {[names |-> {<<"m">>, <<"p">>}, length |-> 1, window |-> 4],
                                          [names |-> {<<"m">>}, length |-> 2, window |-> 8]}]
        Window(word) == ContextWindow(cfg, Text("p") \o Text(word), <<>>, <<>>).window
    IN  Window("m") = 8 /\ Window("p") = 4

\* Images go to a model that reads them: one that declares its modalities has
\* answered for itself, whatever the provider or the presets say.
ASSUME DeclaredModalitiesDecide ==
    \A declared \in SUBSET {"image", "audio"}, vision \in Settings(BOOLEAN),
       presets \in SUBSET {<<"m">>}, host \in {"", "openai", "other"} :
        LET ref == Text("p") \o Text("m")
            cfg == [Config({}, {}, {}, FALSE) EXCEPT
                       !.providers[1].models[1].modalities = declared,
                       !.providers[1].vision = vision, !.providers[1].presets = presets,
                       !.providers[1].host = host]
            other == Text("p") \o Text("p")
        IN  /\ declared # {} => (SupportsVision(cfg, ref) <=> "image" \in declared)
            /\ declared = {} /\ vision # {} => (SupportsVision(cfg, ref) <=> vision = {TRUE})
            /\ SupportsModality(cfg, ref, "image") => SupportsVision(cfg, ref)
            /\ SupportsModality(cfg, other, "image") <=> SupportsVision(cfg, other)
=============================================================================

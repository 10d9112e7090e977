----------------------------- MODULE ModelAccess -----------------------------
(* Which model a request names, and what an access level, a credential and the *)
(* configuration let it have of that model (internal/service/perk.go,          *)
(* openai_credentials.go, openai_compatible.go; internal/agent/executor.go,    *)
(* contextwindow.go, modalities.go; internal/config/config.go).                *)
(*                                                                             *)
(* A text is the sequence of what stands between its slashes; a segment is a   *)
(* word and the way it is spelled, the empty word for one that is blank.       *)
(* Spaces around a segment are left out.  A setting that may be missing is a   *)
(* set of at most one value, and so is what a search may not find.             *)
EXTENDS Integers, Sequences, SequencesExt, TLC

-----------------------------------------------------------------------------
(* Texts.                                                                    *)

Fold(text) == [i \in DOMAIN text |-> text[i].word]

EqualFold(a, b) == Fold(a) = Fold(b)

Blank(text) == Fold(text) = <<"">>

SplitN(text, n) ==
    [i \in 1 .. (IF Len(text) < n THEN Len(text) ELSE n) |->
        IF i < n THEN <<text[i]>> ELSE SubSeq(text, n, Len(text))]

\* provider/model, the model's name with whatever slashes it has.
IsReference(text) ==
    LET parts == SplitN(text, 2)
    IN  Len(parts) = 2 /\ ~Blank(parts[1]) /\ ~Blank(parts[2])

Refused == [ok |-> FALSE, agent |-> <<>>, model |-> <<>>]

\* resolveOpenAIAgentModel: an agent, and the model it is to use instead of its
\* own, if any, in one text or in two.
ResolveOpenAIAgentModel(agentID, model) ==
    LET parts == SplitN(model, 3)
    IN  IF ~Blank(agentID)
        THEN IF Blank(model) THEN [ok |-> TRUE, agent |-> agentID, model |-> <<>>]
             ELSE IF IsReference(model) THEN [ok |-> TRUE, agent |-> agentID, model |-> model]
             ELSE Refused
        ELSE IF Blank(model) THEN Refused
             ELSE IF Len(parts) = 1 THEN [ok |-> TRUE, agent |-> parts[1], model |-> <<>>]
             ELSE IF Len(parts) = 3 /\ \A i \in 1..3 : ~Blank(parts[i])
                  THEN [ok |-> TRUE, agent |-> parts[1], model |-> parts[2] \o parts[3]]
             ELSE Refused

-----------------------------------------------------------------------------
(* Finding a model in the configuration.                                     *)

FirstSuch(list, Test(_)) ==
    LET found == SelectSeq(list, Test) IN {found[i] : i \in {1} \cap DOMAIN found}

ResolveModel(provider, name) ==
    LET Named(model) == EqualFold(model.name, name)
    IN  FirstSuch(provider.models, Named)

\* The access checks take the first provider of that name in any spelling.
ProviderNamed(cfg, id) ==
    LET Named(provider) == EqualFold(provider.id, id)
    IN  FirstSuch(cfg.providers, Named)

ConfiguredModel(cfg, ref) ==
    IF Len(ref) < 2 THEN {}
    ELSE UNION {ResolveModel(provider, Tail(ref)) : provider \in ProviderNamed(cfg, <<Head(ref)>>)}

\* The executor takes the provider as it is spelled in the configuration.
ProviderOf(cfg, ref) ==
    {provider \in ToSet(cfg.providers) : provider.id = <<Head(ref)>>}

\* resolveModelForPurpose: whether a request for the reference can be made.
Resolves(cfg, ref, wantEmbedding) ==
    /\ IsReference(ref)
    /\ \E provider \in ProviderOf(cfg, ref) :
         LET model == ResolveModel(provider, Tail(ref))
         IN  /\ model = {} => ~cfg.onlyListed
             /\ \A m \in model : m.embedding = wantEmbedding

\* What is set for the level, of a table that may have no entry for it.
Setting(table, level, Field(_)) ==
    UNION {Field(table[l]) : l \in {level} \cap DOMAIN table}

Blocked(entry)  == entry.blocked
Tokens(entry)   == entry.tokens
History(entry)  == entry.history
Vision(entry)   == entry.vision
Summary(entry)  == entry.summary

\* A model whose own entry for the level says so.
IsModelBlocked(cfg, level, ref) ==
    \E model \in ConfiguredModel(cfg, ref) : TRUE \in Setting(model.perks, level, Blocked)

-----------------------------------------------------------------------------
(* What a level allows.                                                      *)

ValueOr(setting, default) == IF setting = {} THEN default ELSE CHOOSE v \in setting : TRUE

\* resolvePerkLimits, but for the skills, which are in ToolCatalogue.
ResolvePerkLimits(cfg, level) ==
    [history |-> ValueOr(Setting(cfg.tiers, level, History), 0),
     tokens  |-> ValueOr(Setting(cfg.tiers, level, Tokens), 0),
     vision  |-> ValueOr(Setting(cfg.tiers, level, Vision), TRUE),
     summary |-> ValueOr(Setting(cfg.tiers, level, Summary), TRUE)]

FirstSet(settings) ==
    LET IsSet(setting) == setting # {}
    IN  CHOOSE v \in UNION FirstSuch(settings, IsSet) : TRUE

\* resolveMaxCompletionTokens: the agent's entry for the level, the model's, the
\* tier's, the agent's own, and the provider's choice.
ResolveMaxCompletionTokens(cfg, level, agent) ==
    FirstSet(<<Setting(agent.perks, level, Tokens),
               UNION {Setting(model.perks, level, Tokens) : model \in ConfiguredModel(cfg, agent.model)},
               Setting(cfg.tiers, level, Tokens),
               agent.tokens,
               {0}>>)

-----------------------------------------------------------------------------
(* What a credential allows.                                                 *)

\* The scopes a credential can be created with.
ValidateCredentialScopes(cfg, agents, providers, models) ==
    /\ agents \subseteq cfg.agents
    /\ \A id \in providers : ProviderNamed(cfg, id) # {}
    /\ \A ref \in models :
         /\ IsReference(ref)
         /\ \E provider \in ToSet(cfg.providers) :
              EqualFold(provider.id, <<Head(ref)>>) /\ ResolveModel(provider, Tail(ref)) # {}

\* An empty scope allows everything.
RequireScope(allowed, value) == allowed = {} \/ \E item \in allowed : EqualFold(item, value)

\* The scopes of AuthorizeOpenAICredential; its quota is in Gateway.
WithinScopes(credential, agentID, ref) ==
    /\ RequireScope(credential.agents, agentID)
    /\ RequireScope(credential.providers,
                    IF Len(ref) >= 2 THEN <<Head(ref)>> ELSE <<[word |-> "", spelled |-> 1]>>)
    /\ RequireScope(credential.models, ref)

-----------------------------------------------------------------------------
(* What a model takes.                                                       *)

\* A model that declares its modalities has answered for itself; then the
\* provider, the presets and the host answer.
SupportsVision(cfg, ref) ==
    /\ Resolves(cfg, ref, FALSE)
    /\ \E provider \in ProviderOf(cfg, ref) :
         LET declared == UNION {model.modalities : model \in ResolveModel(provider, Tail(ref))}
         IN  IF declared # {} THEN "image" \in declared
             ELSE ValueOr(provider.vision,
                    \/ Fold(Tail(ref)) \in provider.presets
                    \/ provider.host = "openai"
                    \/ provider.host = "" /\ Fold(provider.id) = <<"openai">>)

\* Of a listed model only what it declares counts.
SupportsModality(cfg, ref, modality) ==
    /\ Resolves(cfg, ref, FALSE)
    /\ \E provider \in ProviderOf(cfg, ref) :
         LET listed == ResolveModel(provider, Tail(ref))
         IN  IF listed # {} THEN \E model \in listed : modality \in model.modalities
             ELSE modality = "image" /\ SupportsVision(cfg, ref)

FirstPositive(numbers) ==
    LET IsPositive(n) == n > 0
    IN  ValueOr(FirstSuch(numbers, IsPositive), 0)

\* contextWindowFromEntry: what a server says of a model, in the spellings it may
\* use in the entry itself and in its meta part.
ContextWindowFromEntry(entry) == FirstPositive(entry.fields \o entry.meta)

\* fetchContextWindow: the first entry of that name; nothing on any failure.
FetchContextWindow(entries, name) ==
    LET Named(entry) == EqualFold(entry.id, name)
    IN  ValueOr({ContextWindowFromEntry(entry) : entry \in FirstSuch(entries, Named)}, 0)

\* discoverContextWindow: a server is asked once for a model, whatever it says.
DiscoverContextWindow(provider, name, known, entries) ==
    LET key == <<provider.id, Fold(name)>>
    IN  IF ~provider.discovers \/ provider.host = "" THEN [window |-> 0, known |-> known]
        ELSE IF key \in DOMAIN known THEN [window |-> known[key], known |-> known]
        ELSE LET window == FetchContextWindow(entries, name)
             IN  [window |-> window, known |-> (key :> window) @@ known]

\* The windows of well-known models.  A prefix is its length and the names that
\* begin with it; the longest decides.
PresetContextWindow(cfg, name) ==
    LET matching == {prefix \in cfg.windows : Fold(name) \in prefix.names}
    IN  ValueOr({p.window : p \in {q \in matching : \A r \in matching : r.length <= q.length}}, 0)

\* The window, and what the executor knows of servers afterwards.
ContextWindow(cfg, ref, known, entries) ==
    IF ~Resolves(cfg, ref, FALSE) THEN [window |-> 0, known |-> known]
    ELSE LET provider == CHOOSE p \in ProviderOf(cfg, ref) : TRUE
             stated   == FirstPositive(SetToSeq({m.window : m \in ResolveModel(provider, Tail(ref))})
                                       \o <<provider.window, PresetContextWindow(cfg, Tail(ref))>>)
         IN  IF stated > 0 THEN [window |-> stated, known |-> known]
             ELSE DiscoverContextWindow(provider, Tail(ref), known, entries)
=============================================================================

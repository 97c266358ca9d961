--------------------------- MODULE ApplianceConfig ---------------------------
(***************************************************************************)
(* What an appliance.yaml holds, and the edits the web handlers make to an *)
(* in-memory copy of it (webui/config_store.py, domain_logic.py and the    *)
(* twin handlers of webui/app.py and msp_console/app.py).  No state here:  *)
(* ConfigStore says when a copy is loaded, edited and written back.        *)
(*                                                                         *)
(* Data abstracted: connection settings, e-mail addresses and the order of *)
(* the domain list are left out.  A DNS provider instance is Absent, Direct*)
(* (it writes TXT records itself) or an alias, written as the name of its  *)
(* target_provider.                                                        *)
(***************************************************************************)
CONSTANTS
    Names,          \* names of domain entries
    DnsProviders,   \* names of DNS provider instances
    DeployTargets,  \* names of deploy provider instances
    Absent,         \* no instance of that name is configured
    Direct          \* an instance of a type that is not a CNAME alias

ASSUME SentinelAssumption == Absent # Direct /\ {Absent, Direct} \cap DnsProviders = {}

ProviderState == {Absent, Direct} \cup DnsProviders

(* One element of domains[].  overrides: the dns_provider values of its    *)
(* additional_names; legacy: its targets still sit in panos_targets[].     *)
Entry == [name : Names, dns : DnsProviders, overrides : SUBSET DnsProviders,
          targets : SUBSET DeployTargets, legacy : BOOLEAN]

(* firewalls: the keys of the pre-migration panos_firewalls map.           *)
Config == [dns : [DnsProviders -> ProviderState], deploy : SUBSET DeployTargets,
           firewalls : SUBSET DeployTargets, domains : SUBSET Entry]

(* DEFAULT_CONFIG, what load_config returns while there is no file.        *)
DefaultConfig == [dns |-> [p \in DnsProviders |-> Absent], deploy |-> {},
                  firewalls |-> {}, domains |-> {}]

Configured(cfg) == {p \in DnsProviders : cfg.dns[p] # Absent}
Named(cfg, n) == {d \in cfg.domains : d.name = n}
-----------------------------------------------------------------------------
(* _migrate_legacy_config: panos_firewalls[] joins deploy_providers[], each*)
(* panos_targets[] becomes deploy_targets[].                               *)
NeedsMigration(cfg) == cfg.firewalls # {} \/ \E d \in cfg.domains : d.legacy

Migrated(cfg) ==
    [cfg EXCEPT !.deploy    = @ \cup cfg.firewalls,
                !.firewalls = {},
                !.domains   = {[d EXCEPT !.legacy = FALSE] : d \in @}]
-----------------------------------------------------------------------------
(* domain_from_form: the entry a submitted form parses to.  An override    *)
(* equal to the primary provider is not stored as one.                     *)
FormEntry == {d \in Entry : d.dns \notin d.overrides /\ ~d.legacy}

ValidForm(cfg, d) ==
    /\ d.dns \in Configured(cfg)
    /\ d.overrides \subseteq Configured(cfg)
    /\ d.targets \subseteq cfg.deploy
    /\ d.targets # {}

(* upsert_domain overwrites the entry it finds under that name, or appends.*)
UpsertDomain(cfg, d) ==
    [cfg EXCEPT !.domains =
        IF Named(cfg, d.name) = {} THEN @ \cup {d}
        ELSE (@ \ {CHOOSE old \in Named(cfg, d.name) : TRUE}) \cup {d}]

DeleteDomain(cfg, n) == [cfg EXCEPT !.domains = @ \ Named(cfg, n)]

(* Mutants of the next definition: without the overrides, and without the  *)
(* aliases.                                                                *)
InUseAsPrimaryOnly(cfg, p) ==
    \/ \E d \in cfg.domains : p = d.dns
    \/ \E a \in DnsProviders : cfg.dns[a] = p
InUseByDomainsOnly(cfg, p) == \E d \in cfg.domains : p = d.dns \/ p \in d.overrides

DnsProviderInUse(cfg, p) ==
    \/ \E d \in cfg.domains : p = d.dns \/ p \in d.overrides
    \/ \E a \in DnsProviders : cfg.dns[a] = p

SetDnsProvider(cfg, p, state) == [cfg EXCEPT !.dns[p] = state]

(* A mutant of the next definition: deletion is never refused.             *)
NeverInUse(cfg, t) == FALSE

DeployProviderInUse(cfg, t) == \E d \in cfg.domains : ~d.legacy /\ t \in d.targets
-----------------------------------------------------------------------------
(* The handlers, each as the set of configurations that one accepted POST  *)
(* may make of the copy it loaded.  A refused form makes none.             *)
DomainNew(cfg) ==
    {UpsertDomain(cfg, d) : d \in {e \in FormEntry : ValidForm(cfg, e)
                                                     /\ Named(cfg, e.name) = {}}}

DomainEdit(cfg) ==
    {UpsertDomain(DeleteDomain(cfg, n), d) :
        n \in {m \in Names : Named(cfg, m) # {}}, d \in {e \in FormEntry : ValidForm(cfg, e)}}

DomainDelete(cfg) == {DeleteDomain(cfg, n) : n \in Names}

DnsProviderNew(cfg) ==
    {SetDnsProvider(cfg, p, s) :
        p \in DnsProviders \ Configured(cfg), s \in ProviderState \ {Absent}}

(* The type is kept, so an alias stays an alias; its target may change.    *)
DnsProviderEdit(cfg) ==
    {SetDnsProvider(cfg, p, Direct) : p \in {q \in DnsProviders : cfg.dns[q] = Direct}}
    \cup {SetDnsProvider(cfg, p, s) :
            p \in {q \in DnsProviders : cfg.dns[q] \in DnsProviders}, s \in DnsProviders}

DnsProviderDelete(cfg) ==
    {SetDnsProvider(cfg, p, Absent) : p \in {q \in DnsProviders : ~DnsProviderInUse(cfg, q)}}

DeployProviderNew(cfg) ==
    {[cfg EXCEPT !.deploy = @ \cup {t}] : t \in DeployTargets \ cfg.deploy}

DeployProviderDelete(cfg) ==
    {[cfg EXCEPT !.deploy = @ \ {t}] : t \in {u \in DeployTargets : ~DeployProviderInUse(cfg, u)}}

(* ACME settings, notification settings, and the settings of an existing   *)
(* deploy target: saved, with no effect on what is modelled here.          *)
SettingsEdit(cfg) == {cfg}

Edits(cfg) ==
    DomainNew(cfg) \cup DomainEdit(cfg) \cup DomainDelete(cfg)
    \cup DnsProviderNew(cfg) \cup DnsProviderEdit(cfg) \cup DnsProviderDelete(cfg)
    \cup DeployProviderNew(cfg) \cup DeployProviderDelete(cfg) \cup SettingsEdit(cfg)
-----------------------------------------------------------------------------
(* What a renewal relies on: every provider and every target an entry names*)
(* exists.  A legacy entry names firewalls, which migration turns into     *)
(* deploy targets.                                                         *)
RefsResolve(cfg) ==
    \A d \in cfg.domains :
        /\ d.dns \in Configured(cfg)
        /\ d.overrides \subseteq Configured(cfg)
        /\ d.targets \subseteq cfg.deploy \cup (IF d.legacy THEN cfg.firewalls ELSE {})

NamesUnique(cfg) == \A d, e \in cfg.domains : d.name = e.name => d = e

WellFormed(cfg) == RefsResolve(cfg) /\ NamesUnique(cfg)
=============================================================================

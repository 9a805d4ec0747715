----------------------------- MODULE StaticScan -----------------------------
(***************************************************************************)
(* What Tier-2 reads in a clone and what it concludes: the three pattern   *)
(* scanners, the constructs they forgive, and analyze_repo's two-tier rule *)
(* for calling a repo malicious.  No state: Campaign applies these         *)
(* operators to the repos a hunt scans.                                    *)
(*                                                                         *)
(* A line is a place where a pattern matches.  The patterns themselves are *)
(* kept by name only, <<category, rule>>; what surrounds the match and     *)
(* decides on it is kept as marks:                                         *)
(*   comment    the line is a comment                                      *)
(*   detector   it defines, tests for or searches a pattern                *)
(*   staged     the /etc/shadow of an image, or a write to it              *)
(*   static     a POST whose body is a fixed, harmless literal             *)
(*   hidden     an embedded literal that decodes to an active payload      *)
(*   tame       node -e without fetch, decode or spawn                     *)
(*   editor     the editor's own reading of the login environment          *)
(*   pinned     the dependency names one exact version                     *)
(*   stage2     the decoded payload unpacks another stage                  *)
(*   family     it loads modules the way the known malware family does     *)
(*   dropper    a URL path of the operator's known shape                   *)
(***************************************************************************)

CONSTANTS
  Files,       \* the paths of a clone
  Ignored,     \* vendored, generated, test and security-data paths
  ReadBy,      \* ReadBy[f]: the scanners that open f
  Hosts,       \* the hosts URLs point at
  HostClass,   \* HostClass[h]: what the lists of hosts make of h
  Packages,    \* package@version
  Stubs        \* loader stubs, by the prefix campaigns share

Scanners == {"bash", "manifest", "content"}

\* reputable and vendor are installers (vendor: unknown to the C2 list),
\* platform is a service like github.com, plain a name on no list.
Classes == {"reputable", "vendor", "platform", "local", "ip", "paste",
            "throwaway", "service", "plain"}

Marks == {"comment", "detector", "staged", "static", "hidden", "tame",
          "editor", "pinned", "stage2", "family", "dropper"}

ASSUME CloneAssumption ==
  /\ Ignored \subseteq Files
  /\ ReadBy \in [Files -> SUBSET Scanners]
  /\ HostClass \in [Hosts -> Classes]

-----------------------------------------------------------------------------
(***************************************************************************)
(* The rules.                                                              *)
(***************************************************************************)
Rules(category, names) == {<<category, n>> : n \in names}

BashRules ==
  UNION {
    Rules("reverse_shell", {"dev-tcp-redirect", "nc-exec", "bash-i-socket",
                            "mkfifo-shell", "python-reverse"}),
    Rules("download_exec", {"curl-pipe-shell", "fetch-then-exec"}),
    Rules("exfiltration", {"discord-webhook", "telegram-bot", "secret-exfil",
                           "curl-post-data", "archive-then-send"}),
    Rules("persistence", {"cron", "rc-files", "systemd", "authorized-keys", "rc-local"}),
    Rules("credential_harvest", {"ssh-keys", "cloud-creds", "shadow-read",
                                 "env-token-grab"}),
    Rules("process_injection", {"ld-preload", "ptrace-mem", "gdb-attach"}),
    Rules("lateral_movement", {"sshpass", "remote-exec"}),
    Rules("network_scan", {"scanner", "port-sweep"}),
    Rules("enumeration", {"host-recon", "net-recon"}),
    Rules("obfuscation", {"base64-decode-exec", "eval-base64", "hex-escapes",
                          "ifs-obfuscation", "eval-subshell"})}

ContentRules ==
  UNION {
    Rules("obfuscation", {"eval-decoded", "base64-buffer", "atob",
                          "fromcharcode-blob", "py-decode-exec", "hex-blob"}),
    Rules("code_execution", {"node-child-process", "js-exec", "py-system", "py-dyn"}),
    Rules("network_exfil", {"discord-webhook", "telegram-bot", "paste-exfil"}),
    Rules("credential_access", {"env-dump", "keyfiles"})}

HookRules ==
  Rules("install_hook", {"npm-preinstall", "npm-install", "npm-postinstall",
                         "npm-prepare", "npm-preuninstall", "vscode-autorun"})

SetupRule == <<"install_hook", "py-setup-exec">>

DependencyRule == <<"malicious_dependency", "osm-listed">>

Line == [file  : Files,
         rule  : BashRules \cup ContentRules \cup HookRules
                 \cup {SetupRule, DependencyRule},
         hosts : SUBSET Hosts,
         marks : SUBSET Marks,
         pkg   : Packages \cup {"none"},
         stub  : Stubs \cup {"none"}]

Category(l) == l.rule[1]

Name(l) == l.rule[2]

-----------------------------------------------------------------------------
(***************************************************************************)
(* What the scanners report.                                               *)
(***************************************************************************)
Reputable(h) == HostClass[h] \in {"reputable", "vendor"}

\* _all_hosts_reputable and _only_reputable_install.
OnlyReputable(l) == l.hosts # {} /\ \A h \in l.hosts : Reputable(h)

Opens(scanner, f) == f \notin Ignored /\ scanner \in ReadBy[f]

\* is_benign_construct.
Benign(l) ==
  \/ "detector" \in l.marks
  \/ Name(l) = "curl-pipe-shell" /\ OnlyReputable(l)
  \/ Name(l) = "shadow-read" /\ "staged" \in l.marks
  \/ Name(l) = "curl-post-data" /\ "static" \in l.marks

BashHits(lines) ==
  {l \in lines : l.rule \in BashRules /\ Opens("bash", l.file) /\ ~Benign(l)}

\* _verify_decode_exec: decode-and-execute counts only if the literal is
\* there to decode and decodes to something active.
ContentHits(lines) ==
  {l \in lines : /\ l.rule \in ContentRules
                 /\ Opens("content", l.file)
                 /\ ~Benign(l)
                 /\ Name(l) \in {"eval-decoded", "py-decode-exec"} =>
                      "hidden" \in l.marks}

\* "listed": the package versions the scan was told are compromised.
ManifestHits(lines, listed) ==
  {l \in lines :
     /\ Opens("manifest", l.file)
     /\ \/ l.rule = SetupRule
        \/ l.rule \in HookRules /\ ~OnlyReputable(l) /\ "tame" \notin l.marks
        \/ l.rule = DependencyRule /\ "pinned" \in l.marks /\ l.pkg \in listed}

Hits(lines, listed) ==
  BashHits(lines) \cup ManifestHits(lines, listed) \cup ContentHits(lines)

-----------------------------------------------------------------------------
(***************************************************************************)
(* analyze_repo.                                                           *)
(***************************************************************************)
ConfirmAloneRules ==
  UNION {
    Rules("reverse_shell", {"nc-exec", "bash-i-socket"}),
    Rules("obfuscation", {"base64-decode-exec", "eval-decoded", "py-decode-exec"}),
    {<<"credential_access", "env-dump">>, <<"credential_harvest", "shadow-read">>,
     <<"exfiltration", "secret-exfil">>, DependencyRule, SetupRule},
    HookRules}

HostGatedRules ==
  UNION {
    Rules("download_exec", {"curl-pipe-shell", "fetch-then-exec"}),
    Rules("exfiltration", {"curl-post-data", "archive-then-send"})}

CredentialRules ==
  UNION {
    Rules("credential_harvest", {"ssh-keys", "cloud-creds"}),
    Rules("credential_access", {"keyfiles"})}

ExfilRules ==
  UNION {
    Rules("exfiltration", {"discord-webhook", "telegram-bot"}),
    Rules("network_exfil", {"discord-webhook", "telegram-bot", "paste-exfil"})}

WeaponizationCategories ==
  {"install_hook", "network_exfil", "obfuscation", "download_exec",
   "exfiltration", "credential_access", "credential_harvest"}

AutoCategories ==
  {"install_hook", "download_exec", "reverse_shell", "malicious_dependency",
   "exfiltration", "network_exfil"}

AllCategories == {r[1] : r \in BashRules \cup ContentRules \cup HookRules}
                 \cup {"malicious_dependency"}

\* _fetch_target_suspicious.
Suspicious(l) == \E h \in l.hosts : HostClass[h] \in {"ip", "paste", "throwaway"}

\* A hit that may count at all, within the files and categories at issue.
Counts(l, files, categories) ==
  /\ l.file \in files
  /\ Category(l) \in categories
  /\ "comment" \notin l.marks
  /\ ~(l.rule = <<"credential_access", "env-dump">> /\ "editor" \in l.marks)

ConfirmsAlone(l) ==
  \/ l.rule \in ConfirmAloneRules
  \/ l.rule \in HostGatedRules /\ Suspicious(l)

\* Tier B: a secret is read and something is sent in one file.  The code
\* lists the first hit of each kind, all of them confirm.
StealsAndSends(l, counted) ==
  \/ /\ l.rule \in CredentialRules
     /\ \E m \in counted : m.file = l.file /\ m.rule \in ExfilRules
  \/ /\ l.rule \in ExfilRules
     /\ \E m \in counted : m.file = l.file /\ m.rule \in CredentialRules

Confirming(hits, files, categories) ==
  LET counted == {l \in hits : Counts(l, files, categories)}
  IN {l \in counted : ConfirmsAlone(l) \/ StealsAndSends(l, counted)}

\* _confidence_tier.
Confidence(confirming, flagged) ==
  IF flagged \/ \E l \in confirming : Category(l) \in AutoCategories
  THEN "auto"
  ELSE IF confirming # {} THEN "review" ELSE "none"

\* flagged: GuardDog is installed and flags the tree, whatever the files and
\* categories the caller asked about.
Analyze(lines, files, categories, listed, flagged) ==
  LET hits       == Hits(lines, listed)
      confirming == Confirming(hits, files, categories)
  IN [hits       |-> {l \in hits : l.file \in files},
      confirming |-> confirming,
      confirmed  |-> confirming # {} \/ flagged,
      confidence |-> Confidence(confirming, flagged)]

\* analyze_spread: the compromised versions a repo publishes, and whether it
\* pins one of them.
SpreadSource(published, intel) == published \cap intel # {}

SpreadVector(lines, intel) ==
  \E l \in lines : /\ l.rule = DependencyRule
                   /\ Opens("manifest", l.file)
                   /\ "pinned" \in l.marks
                   /\ l.pkg \in intel

=============================================================================

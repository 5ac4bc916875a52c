---------------------------- MODULE Permissions ----------------------------
(* The authority of a run (crates/harness-core/src/permissions.rs) and how   *)
(* spawn_child narrows it for a child run, and the child's for a grandchild. *)
(* A policy belongs to one run: the host configures the root's before it     *)
(* starts, a child's is made in one piece from its parent's and a grant.     *)
EXTENDS Integers, Sequences, FiniteSets

CONSTANTS
    Programs,      \* executables
    DefaultShell,  \* the programs a default policy lists: cat, echo, ls, ...
    Arguments,     \* arguments of a program
    Names,         \* environment variables
    Hosts,         \* network hosts
    Dirs,          \* path components a scope may have
    MaxDepth,      \* bound: runs below one another
    MaxWords,      \* bound: arguments of a call, components of a path
    MaxAllowances  \* bound: things the host allows the root beyond its default

ASSUME DefaultAssumption == DefaultShell \subseteq Programs
ASSUME BoundAssumption == MaxWords \in Nat /\ MaxDepth \in Nat /\ MaxAllowances \in Nat

VARIABLE policies  \* the policies of the runs under way, the root's first

Capabilities == {"read", "write", "shell", "fetch"}
Words(S) == UNION {[1..n -> S] : n \in 0..MaxWords}
Covers(prefix, words) ==
    Len(prefix) <= Len(words) /\ \A i \in 1..Len(prefix) : prefix[i] = words[i]

\* prefixes[p] = {}: no entry, any arguments.
Policy == [root : Seq(Dirs), capabilities : SUBSET Capabilities, shell : SUBSET Programs,
           prefixes : [Programs -> SUBSET Seq(Arguments)], env : SUBSET Names,
           hosts : SUBSET Hosts]
Grant == [subdir : Words(Dirs), read_only : BOOLEAN, env : SUBSET Names,
          shell : SUBSET (Programs \X Words(Arguments))]

----------------------------------------------------------------------------
\* check(): what a policy lets its run do.
AllowsPath(policy, capability, path) ==
    capability \in policy.capabilities /\ Covers(policy.root, path)
AllowsShell(policy, program, args) ==
    /\ "shell" \in policy.capabilities
    /\ program \in policy.shell
    /\ policy.prefixes[program] = {}
         \/ \E prefix \in policy.prefixes[program] : Covers(prefix, args)
AllowsFetch(policy, host) == "fetch" \in policy.capabilities /\ host \in policy.hosts

milestone_default ==
    [root |-> <<>>, capabilities |-> {"read", "write"}, shell |-> DefaultShell,
     prefixes |-> [p \in Programs |-> {}], env |-> {}, hosts |-> {}]

\* narrow_to_subdir(): shell, environment and network start over from nothing.
Narrow(parent, subdir) ==
    [root |-> parent.root \o subdir, capabilities |-> parent.capabilities \ {"shell"},
     shell |-> {}, prefixes |-> [p \in Programs |-> {}], env |-> {}, hosts |-> {}]

Grantable_Any(parent, program, prefix) ==
    "shell" \in parent.capabilities /\ program \in parent.shell
Grantable(parent, program, prefix) ==
    /\ "shell" \in parent.capabilities
    /\ program \in parent.shell
    /\ parent.prefixes[program] = {}
         \/ \E held \in parent.prefixes[program] : Covers(held, prefix)

\* The policy spawn_child builds: narrowed, then read-only, then the grants.
ChildPolicy(parent, grant) ==
    LET narrowed == Narrow(parent, grant.subdir)
        kept == narrowed.capabilities \ (IF grant.read_only THEN {"write"} ELSE {})
    IN  [narrowed EXCEPT
           !.capabilities = IF grant.shell = {} THEN kept ELSE kept \cup {"shell"},
           !.shell = @ \cup {p \in Programs : \E g \in grant.shell : g[1] = p},
           !.prefixes = [p \in Programs |-> {g[2] : g \in {h \in grant.shell : h[1] = p}}],
           !.env = grant.env]

----------------------------------------------------------------------------
PermInit == policies = <<milestone_default>>

Root == policies[1]
Configure(policy) == Len(policies) = 1 /\ policies' = <<policy>>
Allowances == Cardinality(Root.shell \ DefaultShell) + Cardinality(Root.env)
              + Cardinality(Root.hosts)
              + Cardinality(UNION {{p} \X Root.prefixes[p] : p \in Programs})

AllowShellProgram(program) ==
    Configure([Root EXCEPT !.capabilities = @ \cup {"shell"}, !.shell = @ \cup {program}])
AllowShellPrefix(program, prefix) ==
    Configure([Root EXCEPT !.capabilities = @ \cup {"shell"}, !.shell = @ \cup {program},
                           !.prefixes[program] = @ \cup {prefix}])
AllowEnv(name) == Configure([Root EXCEPT !.env = @ \cup {name}])
AllowNetworkDomain(host) ==
    Configure([Root EXCEPT !.capabilities = @ \cup {"fetch"}, !.hosts = @ \cup {host}])
RevokeCapability(capability) ==
    Configure([Root EXCEPT
        !.capabilities = @ \ {capability},
        !.shell = IF capability = "shell" THEN {} ELSE @,
        !.prefixes = IF capability = "shell" THEN [p \in Programs |-> {}] ELSE @])

\* All checks pass before the child runs: a refused grant leaves no child.
SpawnChild(grant) ==
    LET parent == policies[Len(policies)]
    IN  /\ Len(policies) < MaxDepth
        /\ grant.read_only => grant.shell = {}
        /\ "read" \in parent.capabilities
        /\ \A g \in grant.shell : Grantable(parent, g[1], g[2])
        /\ grant.env \subseteq parent.env
        /\ policies' = Append(policies, ChildPolicy(parent, grant))

ChildReturns ==
    /\ Len(policies) > 1
    /\ policies' = SubSeq(policies, 1, Len(policies) - 1)

PermNext ==
    \/ /\ Allowances < MaxAllowances
       /\ \/ \E p \in Programs : AllowShellProgram(p)
          \/ \E p \in Programs, prefix \in Words(Arguments) : AllowShellPrefix(p, prefix)
          \/ \E name \in Names : AllowEnv(name)
          \/ \E host \in Hosts : AllowNetworkDomain(host)
    \/ \E c \in Capabilities : RevokeCapability(c)
    \/ \E grant \in Grant : SpawnChild(grant)
    \/ ChildReturns

PermSpec == PermInit /\ [][PermNext]_policies

----------------------------------------------------------------------------
\* child may do nothing parent may not.
Within(child, parent) ==
    /\ \A capability \in {"read", "write"}, path \in Words(Dirs) :
         AllowsPath(child, capability, path) => AllowsPath(parent, capability, path)
    /\ \A program \in Programs, args \in Words(Arguments) :
         AllowsShell(child, program, args) => AllowsShell(parent, program, args)
    /\ \A host \in Hosts : AllowsFetch(child, host) => AllowsFetch(parent, host)
    /\ child.env \subseteq parent.env

(* "Privilege shrinks down the delegation chain, never grows"                *)
(* (permissions.rs:368-372): no run may do what a run above it may not,      *)
(* however the grants of the levels between combine.                         *)
NeverGrows ==
    \A low, high \in DOMAIN policies : low > high => Within(policies[low], policies[high])
=============================================================================

--------------------------- MODULE RemediateProofs ----------------------------
(***************************************************************************)
(* Proofs about Remediate for any things, whitelists and bounds: type      *)
(* correctness; a handler touches nothing but what its finding names; a    *)
(* finding is silenced only when what it was about is gone; a rewritten    *)
(* file keeps the rules of its owner.                                      *)
(***************************************************************************)
EXTENDS Remediate, TLAPS

RulesType == {"own", "old", "none"}
RunType == [pc : {"idle", "handle", "truncate", "write"}, at : SUBSET Finding,
            todo : SUBSET Finding, open : SUBSET Finding, resolved : SUBSET Finding,
            failed : SUBSET Finding, changed : SUBSET Thing, read : RulesType,
            held : BOOLEAN]

Types ==
  /\ place \in [Thing -> Place] /\ place \in Where /\ whitelist \in Whitelists
  /\ there \subseteq Thing /\ bad \in [Thing -> SUBSET Check]
  /\ rules \in [Thing -> RulesType] /\ excused \subseteq Thing
  /\ run \in RunType /\ alerted \subseteq Finding
  /\ changes \in 0..MaxChanges /\ faults \in 0..MaxFaults

(* What is found of a thing is what can be found at such a place, with a   *)
(* key found as one; only files of sudoers.d are rewritten.                *)
Sound(t, bads) ==
  /\ bads \subseteq Finds[place[t]]
  /\ bads = Seen(place[t], bads)

HostInv ==
  \A t \in Thing : /\ t \in there => Sound(t, bad[t])
                   /\ t \notin there => bad[t] = {}
                   /\ rules[t] # "own" => t \in there /\ place[t] = "sudoersd"

(* A check stays possible where it was found, and what a handler removes   *)
(* is what was found unless that changed.                                  *)
TodoInv ==
  \A f \in run.todo :
    /\ f[1] \in Finds[place[f[2]]]
    /\ run.pc # "idle" /\ f[1] \in Removing /\ f[2] \in there /\ f[2] \notin run.changed
         => f[1] \in bad[f[2]]

(* What is being rewritten is one file of sudoers.d, which is there unless *)
(* it changed, and once opened has no such rule any more.                  *)
RewriteInv ==
  run.pc \in {"truncate", "write"} =>
    \E f \in run.todo :
      /\ run.at = {f} /\ f[1] = "nopasswd" /\ f[1] \in whitelist /\ place[f[2]] = "sudoersd"
      /\ f[2] \in there \/ f[2] \in run.changed
      /\ run.pc = "write" /\ run.held => f[2] \in there /\ f[1] \notin bad[f[2]]

IInv == Types /\ HostInv /\ TodoInv /\ RewriteInv

-----------------------------------------------------------------------------
(* Lemmas *)

(* What a finding is made of.                                              *)
LEMMA Findings ==
  ASSUME NEW f \in Finding
  PROVE  f[1] \in Check /\ f[2] \in Thing /\ f = <<f[1], f[2]>>
BY DEF Finding

(* What can be found in a place.                                           *)
LEMMA Places ==
  ASSUME NEW p \in Place
  PROVE  /\ Finds[p] \subseteq Check
         /\ "unattended" \in Finds[p] => Finds[p] = {"unattended"}
         /\ p = "tmpdir" => Finds[p] = {"hidden_tmp"}
         /\ p \in {"tmpkey", "otherkey"} <=> "secret_key_tmp" \in Finds[p]
<1>1. p \in {"tmp", "tmpkey", "tmpdir", "othertmp", "otherkey", "rootdir", "web", "etc",
             "foreign", "sudoersd", "sudoers", "home", "elsewhere", "shadowed", "package",
             "unit"}
  BY DEF Place, Finds
<1> QED
  BY <1>1 DEF Finds, Check

(* What is found of flaws that can be found.                               *)
LEMMA SeenIsSound ==
  ASSUME NEW p \in Place, NEW cs, cs \subseteq Finds[p]
  PROVE  /\ Seen(p, cs) \subseteq Finds[p]
         /\ Seen(p, cs) = Seen(p, Seen(p, cs))
<1>1. p \in {"tmpkey", "otherkey"} <=> "secret_key_tmp" \in Finds[p]
  BY Places
<1> QED
  BY <1>1 DEF Seen

(* What the run becomes when a handler returns.                            *)
LEMMA Returned ==
  ASSUME Types, NEW f \in run.todo, NEW as \in {"open", "resolved", "failed"}, Return(f, as)
  PROVE  /\ run' \in RunType /\ run'.pc = "handle" /\ run'.changed = run.changed
         /\ run'.todo = run.todo \ {f}
         /\ run'.resolved = IF as = "resolved" THEN run.resolved \cup {f} ELSE run.resolved
<1> DEFINE to(what, set) == IF as = what THEN set \cup {f} ELSE set
<1>1. run \in RunType /\ f \in Finding
  BY DEF Types, RunType
<1>2. \A what, set : set \in SUBSET Finding => to(what, set) \in SUBSET Finding
  BY <1>1
<1>3. run' = [run EXCEPT !.pc = "handle", !.at = {}, !.todo = @ \ {f}, !.read = "own",
                        !.held = TRUE, !.open = to("open", @),
                        !.resolved = to("resolved", @), !.failed = to("failed", @)]
  BY DEF Return
<1> HIDE DEF to
<1>4. /\ run' \in RunType /\ run'.pc = "handle" /\ run'.changed = run.changed
      /\ run'.todo = run.todo \ {f} /\ run'.resolved = to("resolved", run.resolved)
  BY <1>1, <1>2, <1>3 DEF RunType, RulesType
<1> QED
  BY <1>4 DEF to

(* What one handler does: to the run, to the thing f[2], and to nothing    *)
(* else.                                                                   *)
Untouched(t) == bad'[t] = bad[t] /\ (t \in there' <=> t \in there)

Does(f) ==
  /\ run' \in RunType /\ run'.todo \subseteq run.todo /\ run'.changed = run.changed
  /\ faults' \in 0..MaxFaults /\ there' \subseteq Thing /\ excused' \subseteq Thing
  /\ bad' \in [Thing -> SUBSET Check] /\ rules' \in [Thing -> RulesType]
  /\ \A t \in Thing \ {f[2]} : Untouched(t) /\ rules'[t] = rules[t]
  /\ \A c \in Removing : c \in bad[f[2]] /\ f[2] \in there' => c \in bad'[f[2]]
  /\ f[2] \in there' => f[2] \in there \/ f[2] \in run.changed
  /\ \A g \in run'.resolved \ run.resolved :
       g = f /\ (f[1] \notin bad'[f[2]] \/ Misnamed(f) \/ (f[1] = "nopasswd" /\ ~run.held))

Protects(f) ==
  \/ Untouched(f[2])
  \/ /\ f[1] \in whitelist
     /\ \/ /\ f[2] \notin there' /\ place[f[2]] \in {"tmp", "tmpkey"}
           /\ f[1] \in bad[f[2]] \/ f[2] \in run.changed
        \/ f[2] \in there' /\ f[2] \in there /\ bad[f[2]] \ bad'[f[2]] \subseteq Ends(f[1])
        \/ f[2] \in there' /\ f[1] = "nopasswd" /\ f[2] \in run.changed

Step(f) ==
  \/ run.pc = "handle" /\ (\/ Skip(f) \/ Cannot(f) \/ Remove(f) \/ Chmod(f)
                           \/ ReadRules(f) \/ Install(f))
  \/ run.pc = "truncate" /\ f \in run.at /\ TruncateRules(f)
  \/ run.pc = "write" /\ f \in run.at /\ WriteRules(f)

(* What a step of a handler does to the host and to its finding.           *)
LEMMA HandlerEffect ==
  ASSUME IInv, NEW f \in run.todo, UNCHANGED <<place, whitelist>>, Step(f)
  PROVE  Does(f) /\ HostInv' /\ RewriteInv' /\ Protects(f)
<1> USE DEF IInv
<1>0. f \in Finding /\ f[1] \in Check /\ f[2] \in Thing
  BY Findings DEF Types, RunType
<1>1. place[f[2]] \in Place /\ f[1] \in Finds[place[f[2]]]
  BY <1>0 DEF Types, TodoInv
<1>2. /\ Finds[place[f[2]]] \subseteq Check
      /\ "unattended" \in Finds[place[f[2]]] => Finds[place[f[2]]] = {"unattended"}
      /\ place[f[2]] = "tmpdir" => Finds[place[f[2]]] = {"hidden_tmp"}
  BY <1>1, Places
<1>3. faults \in 0..MaxFaults /\ (Fault => faults' \in 0..MaxFaults)
  BY BoundAssumption DEF Types, Fault
<1>4. /\ bad \in [Thing -> SUBSET Check] /\ there \subseteq Thing /\ excused \subseteq Thing
      /\ rules \in [Thing -> RulesType] /\ run \in RunType
  BY DEF Types
<1>5. /\ f[2] \in there => Sound(f[2], bad[f[2]])
      /\ rules[f[2]] # "own" => f[2] \in there /\ place[f[2]] = "sudoersd"
  BY <1>0 DEF HostInv
<1>18. run.pc # "idle"
  BY DEF Step
<1>6. ASSUME run'.pc = "handle" PROVE RewriteInv'
  BY <1>6 DEF RewriteInv
<1>7. Cut \subseteq Thing
  BY <1>4, Findings DEF Cut, RunType
<1>8. ASSUME NEW as \in {"open", "failed"}, Return(f, as), UNCHANGED host,
             excused' \subseteq Thing, faults' \in 0..MaxFaults
      PROVE  Does(f) /\ HostInv' /\ RewriteInv' /\ Protects(f)
  <2>1. /\ run' \in RunType /\ run'.pc = "handle" /\ run'.changed = run.changed
        /\ run'.todo = run.todo \ {f} /\ run'.resolved = run.resolved
    BY <1>8, Returned
  <2>2. UNCHANGED <<there, bad, rules>>
    BY <1>8 DEF host
  <2>3. HostInv'
    BY <2>2 DEF HostInv, Sound
  <2> QED
    BY <1>4, <1>6, <1>8, <2>1, <2>2, <2>3 DEF Does, Untouched, Protects
<1>9. CASE Skip(f)
  BY <1>3, <1>4, <1>8, <1>9 DEF Skip
<1>10. CASE Cannot(f)
  BY <1>3, <1>4, <1>8, <1>10 DEF Cannot
<1>11. CASE Remove(f)
  <2>1. /\ run' \in RunType /\ run'.pc = "handle" /\ run'.changed = run.changed
        /\ run'.todo = run.todo \ {f} /\ run'.resolved = run.resolved \cup {f}
    BY <1>11, Returned DEF Remove
  <2>2. /\ there' = there \ {f[2]} /\ bad' = [bad EXCEPT ![f[2]] = {}]
        /\ UNCHANGED <<rules, excused, faults>> /\ f[1] \in Removing
        /\ f[1] \in whitelist /\ place[f[2]] \in {"tmp", "tmpkey", "tmpdir"}
        /\ ~(f[1] = "hidden_tmp" /\ place[f[2]] = "tmpdir") /\ f[2] \in there
    BY <1>11 DEF Remove, Skips, Impossible
  <2>3. place[f[2]] \in {"tmp", "tmpkey"}
    BY <1>1, <1>2, <2>2
  <2>4. Does(f)
    BY <1>0, <1>3, <1>4, <2>1, <2>2 DEF Does, Untouched
  <2>5. HostInv'
    BY <1>0, <1>4, <1>5, <2>2, <2>3 DEF HostInv, Sound
  <2>6. f[1] \in bad[f[2]] \/ f[2] \in run.changed
    BY <2>2, <1>18 DEF TodoInv
  <2> QED
    BY <1>6, <2>1, <2>2, <2>3, <2>4, <2>5, <2>6 DEF Protects
<1>12. CASE Chmod(f)
  <2>1. /\ run' \in RunType /\ run'.pc = "handle" /\ run'.changed = run.changed
        /\ run'.todo = run.todo \ {f} /\ run'.resolved = run.resolved \cup {f}
    BY <1>12, Returned DEF Chmod
  <2>2. /\ UNCHANGED <<there, rules, excused, faults>> /\ f[1] \in whitelist
        /\ f[1] \in {"world_writable", "secret_world_readable", "secret_authkeys_perm",
                     "tmp_executable"}
        /\ f[2] \in there \/ place[f[2]] = "shadowed"
    BY <1>12 DEF Chmod, Skips, Impossible
  <2>3. CASE Misnamed(f)
    <3>1. bad' = bad
      BY <1>12, <2>3 DEF Chmod
    <3>2. HostInv'
      BY <2>2, <3>1 DEF HostInv, Sound
    <3> QED
      BY <1>3, <1>4, <1>6, <2>1, <2>2, <2>3, <3>1, <3>2 DEF Does, Untouched, Protects
  <2>4. CASE ~Misnamed(f)
    <3> DEFINE now == Seen(place[f[2]], bad[f[2]] \ Ends(f[1]))
    <3>1. bad' = [bad EXCEPT ![f[2]] = now]
      BY <1>12, <2>4 DEF Chmod
    <3>2. CASE f[2] \in there
      <4>1. /\ bad[f[2]] \cap Removing \subseteq now /\ f[1] \notin now
            /\ bad[f[2]] \ now \subseteq Ends(f[1])
        <5>1. bad[f[2]] = Seen(place[f[2]], bad[f[2]])
          BY <1>5, <3>2 DEF Sound
        <5> DEFINE p == place[f[2]]
                   b == bad[f[2]]
                   c == f[1]
        <5>2. p \in Place /\ b = Seen(p, b)
              /\ c \in {"world_writable", "secret_world_readable", "secret_authkeys_perm",
                        "tmp_executable"}
          BY <1>1, <2>2, <5>1
        <5> HIDE DEF p, b, c
        <5>3. /\ b \cap Removing \subseteq Seen(p, b \ Ends(c)) /\ c \notin Seen(p, b \ Ends(c))
              /\ b \ Seen(p, b \ Ends(c)) \subseteq Ends(c)
          BY <5>2 DEF Seen, Ends, Removing
        <5> QED
          BY <5>3 DEF p, b, c
      <4>2. now \subseteq Finds[place[f[2]]] /\ now = Seen(place[f[2]], now)
        BY <1>1, <1>5, <3>2, SeenIsSound DEF Sound
      <4> HIDE DEF now
      <4>3. /\ bad' \in [Thing -> SUBSET Check] /\ bad'[f[2]] = now
            /\ \A t \in Thing \ {f[2]} : bad'[t] = bad[t]
        BY <1>0, <1>2, <1>4, <3>1, <4>2
      <4>4. Does(f)
        BY <1>3, <1>4, <2>1, <2>2, <3>2, <4>1, <4>3 DEF Does, Untouched
      <4>5. HostInv'
        BY <1>0, <2>2, <3>2, <4>2, <4>3 DEF HostInv, Sound
      <4> QED
        BY <1>6, <2>1, <2>2, <3>2, <4>1, <4>3, <4>4, <4>5 DEF Protects
    <3>3. CASE f[2] \notin there
      <4>1. place[f[2]] = "shadowed" /\ f[1] # "secret_authkeys_perm"
        BY <2>2, <2>4, <3>3 DEF Misnamed
      <4>2. Finds["shadowed"] = {"secret_authkeys_perm", "secret_pattern"}
        BY DEF Finds
      <4> QED
        BY <1>1, <2>2, <4>1, <4>2
    <3> QED
      BY <3>2, <3>3
  <2> QED
    BY <2>3, <2>4
<1>13. CASE ReadRules(f)
  <2>1. /\ run' \in RunType /\ run'.pc = "truncate" /\ run'.at = {f}
        /\ run'.todo = run.todo /\ run'.resolved = run.resolved /\ run'.changed = run.changed
    BY <1>0, <1>4, <1>13 DEF ReadRules, RunType
  <2>2. /\ f[1] = "nopasswd" /\ f[1] \in whitelist /\ f[2] \in there
        /\ place[f[2]] = "sudoersd" /\ UNCHANGED <<there, bad, rules, excused, faults>>
    BY <1>13 DEF ReadRules, Skips, Impossible, host
  <2>3. HostInv'
    BY <2>2 DEF HostInv, Sound
  <2>4. RewriteInv'
    BY <2>1, <2>2 DEF RewriteInv
  <2> QED
    BY <1>3, <1>4, <2>1, <2>2, <2>3, <2>4 DEF Does, Untouched, Protects
<1>14. CASE Install(f)
  <2>1. /\ f[1] = "unattended" /\ f[1] \in whitelist /\ UNCHANGED <<there, rules, excused>>
        /\ bad' \in {bad, [bad EXCEPT ![f[2]] = {}]} /\ faults' \in 0..MaxFaults
    BY <1>3, <1>14 DEF Install, Skips
  <2>2. \/ Return(f, "resolved") /\ bad' = [bad EXCEPT ![f[2]] = {}]
        \/ \E as \in {"failed", "open"} : Return(f, as)
    BY <1>14 DEF Install
  <2>3. /\ run' \in RunType /\ run'.pc = "handle" /\ run'.changed = run.changed
        /\ run'.todo = run.todo \ {f}
        /\ \/ run'.resolved = run.resolved
           \/ run'.resolved = run.resolved \cup {f} /\ bad'[f[2]] = {}
    BY <1>0, <1>4, <2>2, Returned
  <2>4. bad[f[2]] \subseteq {"unattended"} /\ "unattended" \in Ends(f[1])
        /\ "unattended" \notin Removing
    BY <1>0, <1>1, <1>2, <2>1 DEF HostInv, Sound, Ends, Removing
  <2>5. Does(f)
    BY <1>0, <1>4, <2>1, <2>3, <2>4 DEF Does, Untouched
  <2>6. place[f[2]] \notin {"tmpkey", "otherkey"}
    BY <1>1, <1>2, <2>1, Places
  <2>7. Sound(f[2], {})
    BY <2>6 DEF Sound, Seen
  <2>8. HostInv'
    <3>1. CASE bad' = bad
      BY <1>4, <2>1, <3>1 DEF HostInv, Sound
    <3>2. CASE bad' = [bad EXCEPT ![f[2]] = {}]
      <4>1. /\ bad'[f[2]] = {}
            /\ \A t \in Thing : t # f[2] => bad'[t] = bad[t]
        BY <1>0, <1>4, <3>2
      <4>2. ASSUME NEW t \in Thing, t \in there' PROVE Sound(t, bad'[t])
        <5>1. t \in there
          BY <2>1, <4>2
        <5>2. Sound(t, bad[t])
          BY <4>2, <5>1 DEF HostInv
        <5>3. CASE t = f[2]
          BY <2>7, <4>1, <5>3
        <5>4. CASE t # f[2]
          BY <4>1, <4>2, <5>2, <5>4 DEF Sound
        <5> QED
          BY <5>3, <5>4
      <4>3. ASSUME NEW t \in Thing, t \notin there' PROVE bad'[t] = {}
        BY <2>1, <4>1, <4>3 DEF HostInv
      <4>4. ASSUME NEW t \in Thing, rules'[t] # "own"
            PROVE  t \in there' /\ place'[t] = "sudoersd"
        BY <2>1, <4>4 DEF HostInv
      <4> QED
        BY <4>2, <4>3, <4>4 DEF HostInv, Sound
    <3> QED
      BY <2>1, <3>1, <3>2
  <2>9. Protects(f)
    <3>1. bad'[f[2]] = bad[f[2]] \/ bad'[f[2]] = {}
      BY <1>0, <1>4, <2>1
    <3>2. CASE f[2] \in there
      <4>1. f[2] \in there'
        BY <2>1, <3>2
      <4>2. bad[f[2]] \ bad'[f[2]] \subseteq Ends(f[1])
        BY <2>4, <3>1
      <4> QED
        BY <2>1, <3>2, <4>1, <4>2 DEF Protects
    <3>3. CASE f[2] \notin there
      BY <1>0, <2>1, <3>1, <3>3 DEF Protects, Untouched, HostInv
    <3> QED
      BY <3>2, <3>3
  <2> QED
    BY <1>6, <2>3, <2>5, <2>8, <2>9
<1>15. ASSUME run.pc \in {"truncate", "write"}, f \in run.at
       PROVE  /\ run.at = {f} /\ f[1] = "nopasswd" /\ f[1] \in whitelist
              /\ place[f[2]] = "sudoersd" /\ (f[2] \in there \/ f[2] \in run.changed)
              /\ run.pc = "write" /\ run.held => f[2] \in there /\ f[1] \notin bad[f[2]]
  BY <1>15 DEF RewriteInv
<1>16. CASE run.pc = "truncate" /\ f \in run.at /\ TruncateRules(f)
  <2>1. CASE Fault /\ Return(f, "failed") /\ UNCHANGED <<host, excused>>
    BY <1>3, <1>4, <1>8, <2>1
  <2>2. CASE /\ there' = there \cup {f[2]} /\ rules' = [rules EXCEPT ![f[2]] = "none"]
             /\ bad' = [bad EXCEPT ![f[2]] = @ \ {"nopasswd"}]
             /\ excused' = IF run.held THEN excused ELSE excused \cup {f[2]}
             /\ run' = [run EXCEPT !.pc = "write", !.held = TRUE] /\ UNCHANGED faults
    <3>1. /\ run.at = {f} /\ f[1] = "nopasswd" /\ f[1] \in whitelist
          /\ place[f[2]] = "sudoersd" /\ (f[2] \in there \/ f[2] \in run.changed)
      BY <1>15, <1>16
    <3>2. /\ run' \in RunType /\ run'.pc = "write" /\ run'.at = {f}
          /\ run'.todo = run.todo /\ run'.resolved = run.resolved
          /\ run'.changed = run.changed
      BY <1>4, <2>2, <3>1 DEF RunType
    <3>3. "nopasswd" \notin Removing /\ "nopasswd" \in Ends(f[1])
      BY <3>1 DEF Removing, Ends
    <3>4. Does(f)
      BY <1>0, <1>3, <1>4, <2>2, <3>1, <3>2, <3>3 DEF Does, Untouched, RulesType
    <3>5. Sound(f[2], bad[f[2]] \ {"nopasswd"})
      <4>1. bad[f[2]] \subseteq Finds["sudoersd"]
        BY <1>0, <3>1 DEF HostInv, Sound
      <4>2. "secret_key_tmp" \notin Finds["sudoersd"]
        BY DEF Finds
      <4> QED
        BY <3>1, <4>1, <4>2 DEF Sound, Seen
    <3>6. HostInv'
      BY <1>0, <1>4, <2>2, <3>1, <3>5 DEF HostInv, Sound
    <3>7. RewriteInv'
      BY <1>0, <1>4, <2>2, <3>1, <3>2 DEF RewriteInv
    <3>8. Protects(f)
      BY <1>0, <1>4, <2>2, <3>1, <3>3 DEF Protects
    <3> QED
      BY <3>4, <3>6, <3>7, <3>8
  <2> QED
    BY <1>16, <2>1, <2>2 DEF TruncateRules
<1>17. CASE run.pc = "write" /\ f \in run.at /\ WriteRules(f)
  <2>1. /\ f[1] = "nopasswd" /\ place[f[2]] = "sudoersd"
        /\ run.held => f[2] \in there /\ f[1] \notin bad[f[2]]
    BY <1>15, <1>17
  <2>2. CASE /\ rules' = IF run.held THEN [rules EXCEPT ![f[2]] = run.read] ELSE rules
             /\ Return(f, "resolved") /\ UNCHANGED <<there, bad, excused, faults>>
    <3>1. /\ run' \in RunType /\ run'.pc = "handle" /\ run'.changed = run.changed
          /\ run'.todo = run.todo \ {f} /\ run'.resolved = run.resolved \cup {f}
      BY <2>2, Returned
    <3>2. run.read \in RulesType /\ run.held \in BOOLEAN
      BY <1>4 DEF RunType
    <3>3. rules' \in [Thing -> RulesType] /\ \A t \in Thing \ {f[2]} : rules'[t] = rules[t]
      BY <1>0, <1>4, <2>2, <3>2
    <3>4. HostInv'
      <4>1. rules'[f[2]] # "own" => f[2] \in there /\ place[f[2]] = "sudoersd"
        BY <1>0, <1>4, <1>5, <2>1, <2>2, <3>2
      <4> QED
        BY <1>0, <2>2, <3>3, <4>1 DEF HostInv, Sound
    <3>5. Does(f)
      BY <1>3, <1>4, <2>1, <2>2, <3>1, <3>2, <3>3 DEF Does, Untouched
    <3> QED
      BY <1>6, <2>2, <3>1, <3>4, <3>5 DEF Protects, Untouched
  <2>3. CASE Fault /\ Return(f, "failed") /\ excused' = Cut /\ UNCHANGED host
    BY <1>3, <1>7, <1>8, <2>3
  <2> QED
    BY <1>17, <2>2, <2>3 DEF WriteRules
<1> QED
  BY <1>9, <1>10, <1>11, <1>12, <1>13, <1>14, <1>16, <1>17 DEF Step

(* Every action of a handler is one of them.                               *)
LEMMA Handled ==
  ASSUME IInv, Handle
  PROVE  \E f \in run.todo : Does(f) /\ HostInv' /\ RewriteInv' /\ Protects(f)
<1>1. PICK f \in run.todo : Step(f)
  BY DEF Handle, Step
<1>2. UNCHANGED <<place, whitelist>>
  BY DEF Handle
<1> QED
  BY <1>1, <1>2, HandlerEffect

-----------------------------------------------------------------------------
(* The invariant *)

(* The invariant holds initially.                                          *)
LEMMA AtFirst == Init => IInv
<1> SUFFICES ASSUME Init PROVE IInv
  OBVIOUS
<1>1. /\ place \in [Thing -> Place] /\ there = Thing /\ run = Idle
      /\ bad = [t \in Thing |-> Seen(place[t], {})] /\ rules = [t \in Thing |-> "own"]
  BY WhereAssumption DEF Init
<1>2. \A t \in Thing : Sound(t, bad[t]) /\ Finds[place[t]] \subseteq Check
  BY <1>1, SeenIsSound, Places DEF Sound
<1>3. bad \in [Thing -> SUBSET Check]
  <2>1. \A t \in Thing : bad[t] \in SUBSET Check
    BY <1>2 DEF Sound
  <2> QED
    BY <1>1, <2>1
<1>4. HostInv
  BY <1>1, <1>2 DEF HostInv
<1>5. Types
  BY <1>1, <1>3, BoundAssumption DEF Init, Types, RunType, RulesType, Idle
<1> QED
  BY <1>1, <1>4, <1>5 DEF IInv, TodoInv, RewriteInv, Idle

(* What a change of the host does to the run.                              *)
LEMMA Changed ==
  ASSUME IInv, NEW t \in Thing, Other(t)
  PROVE  /\ UNCHANGED <<place, whitelist, alerted, faults>> /\ changes' \in 0..MaxChanges
         /\ rules' = [rules EXCEPT ![t] = "own"] /\ excused' = excused \ {t}
         /\ run' \in RunType /\ run'.pc = run.pc /\ run'.at = run.at /\ run'.todo = run.todo
         /\ run.todo # {} => run.changed \subseteq run'.changed
         /\ run.pc # "idle" => run'.changed = run.changed \cup {t}
         /\ run'.held => run.held
         /\ run.pc # "idle" /\ Rewritten(t) => ~run'.held
         /\ run.pc # "idle" /\ ~Rewritten(t) => run'.read = run.read /\ run'.held = run.held
<1>1. run \in RunType /\ changes \in 0..MaxChanges
  BY DEF IInv, Types
<1>2. changes < MaxChanges => changes + 1 \in 0..MaxChanges
  BY <1>1, BoundAssumption
<1>3. CASE run.pc = "idle"
  BY <1>1, <1>2, <1>3 DEF Other, Happens
<1>4. CASE run.pc # "idle"
  <2>1. run' = [run EXCEPT !.changed = @ \cup {t},
                           !.read = IF Rewritten(t) THEN "old" ELSE @,
                           !.held = @ /\ ~Rewritten(t)]
    BY <1>4 DEF Other
  <2>2. (run.held /\ ~Rewritten(t)) \in BOOLEAN
    OBVIOUS
  <2>3. /\ run' \in RunType /\ run'.pc = run.pc /\ run'.at = run.at /\ run'.todo = run.todo
        /\ run'.changed = run.changed \cup {t}
        /\ run'.held = (run.held /\ ~Rewritten(t))
        /\ run'.read = IF Rewritten(t) THEN "old" ELSE run.read
    BY <1>1, <2>1, <2>2 DEF RunType, RulesType
  <2>4. /\ UNCHANGED <<place, whitelist, alerted, faults>> /\ changes' \in 0..MaxChanges
        /\ rules' = [rules EXCEPT ![t] = "own"] /\ excused' = excused \ {t}
    BY <1>2 DEF Other, Happens
  <2>5. run'.held => run.held
    BY <2>3
  <2>6. CASE Rewritten(t)
    BY <1>4, <2>3, <2>4, <2>5, <2>6
  <2>7. CASE ~Rewritten(t)
    <3>1. run'.read = run.read
      BY <2>3, <2>7
    <3>2. run'.held = run.held
      <4>1. run.held \in BOOLEAN
        BY <1>1 DEF RunType
      <4> QED
        BY <2>3, <2>7, <4>1
    <3> QED
      BY <1>4, <2>3, <2>4, <2>5, <2>7, <3>1, <3>2
  <2> QED
    BY <2>6, <2>7
<1> QED
  BY <1>3, <1>4

(* Every step preserves the invariant.                                     *)
LEMMA NextStep == IInv /\ [Next]_vars => IInv'
<1> SUFFICES ASSUME IInv, [Next]_vars PROVE IInv'
  OBVIOUS
<1> USE DEF IInv
<1>1. changes \in 0..MaxChanges /\ (changes < MaxChanges => changes + 1 \in 0..MaxChanges)
  BY BoundAssumption DEF Types
<1>2. Idle \in RunType /\ Idle.pc = "idle" /\ Idle.todo = {}
  BY DEF Idle, RunType, RulesType
<1>3. run \in RunType /\ bad \in [Thing -> SUBSET Check] /\ there \subseteq Thing
      /\ rules \in [Thing -> RulesType]
  BY DEF Types
<1>4. \A t \in Thing : place[t] \in Place /\ Finds[place[t]] \subseteq Check
  BY Places DEF Types
<1>5. \A f \in run.todo : f[1] \in Check /\ f[2] \in Thing
  BY <1>3, Findings DEF RunType
<1>6. ASSUME NEW t \in Thing, NEW b, Sound(t, b)
      PROVE  b \in SUBSET Check
  BY <1>4, <1>6 DEF Sound
<1>7. ASSUME NEW t \in Thing, NEW c \in Check, Spoil(t, c) PROVE IInv'
  <2> DEFINE b == Seen(place[t], bad[t] \cup {c})
  <2>1. /\ UNCHANGED <<place, whitelist, alerted, faults, there, rules, excused>>
        /\ changes' \in 0..MaxChanges /\ t \in there
        /\ bad' = [bad EXCEPT ![t] = b] /\ c \in Finds[place[t]] /\ c # "nopasswd"
        /\ run' = IF run.pc = "idle" THEN run ELSE [run EXCEPT !.changed = @ \cup {t}]
    BY <1>1, <1>7 DEF Spoil, Happens
  <2>2. Sound(t, bad[t])
    BY <2>1 DEF HostInv
  <2>3. b \subseteq Finds[place[t]] /\ b = Seen(place[t], b)
    <3>1. bad[t] \cup {c} \subseteq Finds[place[t]]
      BY <2>1, <2>2 DEF Sound
    <3> QED
      BY <1>4, <3>1, SeenIsSound
  <2>4. "nopasswd" \in b => "nopasswd" \in bad[t]
    BY <2>1 DEF Seen
  <2> HIDE DEF b
  <2>5. /\ run' \in RunType /\ run'.pc = run.pc /\ run'.at = run.at /\ run'.todo = run.todo
        /\ run'.held = run.held /\ run.changed \subseteq run'.changed
        /\ run.pc # "idle" => t \in run'.changed
    BY <1>3, <2>1 DEF RunType
  <2>6. b \in SUBSET Check
    BY <1>4, <2>3
  <2>7. /\ bad' \in [Thing -> SUBSET Check] /\ bad'[t] = b
        /\ \A u \in Thing \ {t} : bad'[u] = bad[u]
    BY <1>3, <2>1, <2>6
  <2>8. Types'
    BY <2>1, <2>5, <2>7 DEF Types
  <2>9. HostInv'
    BY <2>1, <2>3, <2>7 DEF HostInv, Sound
  <2>10. TodoInv'
    BY <1>5, <2>1, <2>5, <2>7 DEF TodoInv
  <2>11. RewriteInv'
    BY <1>5, <2>1, <2>4, <2>5, <2>7 DEF RewriteInv
  <2> QED
    BY <2>8, <2>9, <2>10, <2>11
<1>8. ASSUME NEW t \in Thing, NEW b, Other(t), bad' = [bad EXCEPT ![t] = b],
             there' \subseteq Thing, \A u \in Thing \ {t} : u \in there' <=> u \in there,
             t \in there' => Sound(t, b), t \notin there' => b = {}
      PROVE  IInv'
  <2>1. /\ UNCHANGED <<place, whitelist, alerted, faults>> /\ changes' \in 0..MaxChanges
        /\ rules' = [rules EXCEPT ![t] = "own"] /\ excused' = excused \ {t}
        /\ run' \in RunType /\ run'.pc = run.pc /\ run'.at = run.at /\ run'.todo = run.todo
        /\ run.todo # {} => run.changed \subseteq run'.changed
        /\ run.pc # "idle" => run'.changed = run.changed \cup {t}
        /\ run'.held => run.held
        /\ run.pc # "idle" /\ Rewritten(t) => ~run'.held
    BY <1>8, Changed
  <2>2. b \in SUBSET Check
    BY <1>4, <1>8 DEF Sound
  <2>3. /\ bad' \in [Thing -> SUBSET Check] /\ bad'[t] = b
        /\ \A u \in Thing \ {t} : bad'[u] = bad[u] /\ (u \in there' <=> u \in there)
    BY <1>3, <1>8, <2>2
  <2>4. /\ rules' \in [Thing -> RulesType] /\ rules'[t] = "own"
        /\ \A u \in Thing \ {t} : rules'[u] = rules[u]
    BY <1>3, <2>1 DEF RulesType
  <2>5. Types'
    BY <1>8, <2>1, <2>3, <2>4 DEF Types
  <2>6. HostInv'
    BY <1>8, <2>1, <2>3, <2>4 DEF HostInv, Sound
  <2>7. TodoInv'
    BY <1>5, <2>1, <2>3 DEF TodoInv
  <2>8. RewriteInv'
    <3> SUFFICES ASSUME run.pc \in {"truncate", "write"} PROVE RewriteInv'
      BY <2>1 DEF RewriteInv
    <3>1. PICK f \in run.todo :
            /\ run.at = {f} /\ f[1] = "nopasswd" /\ f[1] \in whitelist /\ place[f[2]] = "sudoersd"
            /\ f[2] \in there \/ f[2] \in run.changed
            /\ run.pc = "write" /\ run.held => f[2] \in there /\ f[1] \notin bad[f[2]]
      BY DEF RewriteInv
    <3>2. Rewritten(t) <=> t = f[2]
      BY <3>1 DEF Rewritten
    <3>3. f[2] \in there' \/ f[2] \in run'.changed
      BY <1>5, <2>1, <2>3, <3>1
    <3>4. run'.pc = "write" /\ run'.held => f[2] \in there' /\ f[1] \notin bad'[f[2]]
      BY <1>5, <2>1, <2>3, <3>1, <3>2
    <3> QED
      BY <2>1, <3>1, <3>3, <3>4 DEF RewriteInv
  <2> QED
    BY <2>5, <2>6, <2>7, <2>8
<1>9. ASSUME NEW t \in Thing, NEW cs, Appear(t, cs) PROVE IInv'
  <2>1. Seen(place[t], cs) \subseteq Finds[place[t]]
        /\ Seen(place[t], cs) = Seen(place[t], Seen(place[t], cs))
    BY <1>4, <1>9, SeenIsSound DEF Appear
  <2>2. Sound(t, Seen(place[t], cs))
    BY <2>1 DEF Sound
  <2>3. /\ Other(t) /\ bad' = [bad EXCEPT ![t] = Seen(place[t], cs)]
        /\ there' \subseteq Thing /\ t \in there'
        /\ \A u \in Thing \ {t} : u \in there' <=> u \in there
    BY <1>3, <1>9 DEF Appear
  <2> DEFINE b == Seen(place[t], cs)
  <2> HIDE DEF IInv, b
  <2> QED
    BY <1>8, <2>2, <2>3 DEF b
<1>10. ASSUME NEW t \in Thing, Vanish(t) PROVE IInv'
  <2>1. /\ Other(t) /\ bad' = [bad EXCEPT ![t] = {}]
        /\ there' \subseteq Thing /\ t \notin there'
        /\ \A u \in Thing \ {t} : u \in there' <=> u \in there
    BY <1>3, <1>10 DEF Vanish
  <2> HIDE DEF IInv
  <2> QED
    BY <1>8, <2>1
<1>11. CASE Audit
  <2>1. /\ run' = [Idle EXCEPT !.pc = "handle", !.todo = {f \in Finding : f[1] \in bad[f[2]]}]
        /\ UNCHANGED <<place, whitelist, there, bad, rules, excused, alerted, changes, faults>>
    BY <1>11 DEF Audit, host
  <2>2. /\ run' \in RunType /\ run'.pc = "handle"
        /\ run'.todo = {f \in Finding : f[1] \in bad[f[2]]}
    BY <2>1 DEF Idle, RunType, RulesType
  <2>3. \A f \in run'.todo : f[2] \in Thing /\ f[1] \in bad[f[2]]
    BY <2>2, Findings
  <2>4. \A f \in run'.todo : f[1] \in Finds[place[f[2]]]
    BY <2>3 DEF HostInv, Sound
  <2> QED
    BY <2>1, <2>2, <2>3, <2>4 DEF Types, HostInv, Sound, TodoInv, RewriteInv
<1>12. CASE Handle
  <2>1. PICK f \in run.todo : Does(f) /\ HostInv' /\ RewriteInv'
    BY <1>12, Handled
  <2>2. run.pc # "idle" /\ UNCHANGED <<place, whitelist, alerted, changes>>
    BY <1>12 DEF Handle
  <2>3. Types'
    BY <2>1, <2>2 DEF Does, Types
  <2>4. TodoInv'
    BY <1>5, <2>1, <2>2 DEF Does, Untouched, TodoInv
  <2> QED
    BY <2>1, <2>3, <2>4
<1>13. CASE Finish
  <2>1. Alerts \subseteq Finding
    BY <1>3 DEF Alerts, RunType
  <2> QED
    BY <1>2, <1>13, <2>1 DEF Finish, host, Types, HostInv, Sound, TodoInv, RewriteInv
<1>14. CASE Kill
  <2>1. Cut \subseteq Thing
    BY <1>3, Findings DEF Cut, Types, RunType
  <2>2. faults' \in 0..MaxFaults
    BY <1>14, BoundAssumption DEF Kill, Fault, Types
  <2> QED
    BY <1>2, <1>14, <2>1, <2>2 DEF Kill, host, Types, HostInv, Sound, TodoInv, RewriteInv
<1>15. CASE UNCHANGED vars
  BY <1>15 DEF vars, host, Types, HostInv, Sound, TodoInv, RewriteInv
<1> QED
  BY <1>7, <1>9, <1>10, <1>11, <1>12, <1>13, <1>14, <1>15 DEF Next

-----------------------------------------------------------------------------
(* The rules of sudoers.d *)

(* The rules that will be written are those of the owner, unless the file  *)
(* was excused before or changed since it was read.                        *)
RulesInv ==
  /\ RulesKept
  /\ run.pc \in {"truncate", "write"} /\ run.held =>
       \A f \in run.at : run.read = "own" \/ f[2] \in excused

(* Every step preserves it.                                                *)
LEMMA RulesStep == IInv /\ RulesInv /\ [Next]_vars => RulesInv'
<1> SUFFICES ASSUME IInv, RulesInv, [Next]_vars PROVE RulesInv'
  OBVIOUS
<1>0. /\ run \in RunType /\ rules \in [Thing -> RulesType]
      /\ \A f \in run.at : f[2] \in Thing
  BY Findings DEF IInv, Types, RunType
<1>1. ASSUME rules' = rules, excused' = excused, run'.pc = run.pc, run'.held = run.held,
             run'.at = run.at, run'.read = run.read
      PROVE  RulesInv'
  BY <1>1 DEF RulesInv, RulesKept, Rewritten
<1>2. ASSUME rules' = rules, excused \subseteq excused', run.pc # "write",
             run'.pc \notin {"truncate", "write"}
      PROVE  RulesInv'
  BY <1>2 DEF RulesInv, RulesKept
<1>3. ASSUME rules' = rules, excused' = Cut, run'.pc \notin {"truncate", "write"}
      PROVE  RulesInv'
  BY <1>3 DEF RulesInv, RulesKept, Cut, Rewritten
<1>4. ASSUME NEW t \in Thing, NEW c \in Check, Spoil(t, c) PROVE RulesInv'
  BY <1>0, <1>1, <1>4 DEF Spoil, RunType
<1>5. ASSUME NEW t \in Thing, Other(t) PROVE RulesInv'
  <2>1. /\ rules' = [rules EXCEPT ![t] = "own"] /\ excused' = excused \ {t}
        /\ run'.pc = run.pc /\ run'.at = run.at /\ (run'.held => run.held)
        /\ run.pc # "idle" /\ Rewritten(t) => ~run'.held
        /\ run.pc # "idle" /\ ~Rewritten(t) => run'.read = run.read /\ run'.held = run.held
    BY <1>5, Changed
  <2>2. rules'[t] = "own" /\ \A u \in Thing \ {t} : rules'[u] = rules[u]
    BY <1>0, <2>1
  <2>3. RulesKept'
    <3> SUFFICES ASSUME NEW u \in Thing, rules'[u] # "own"
                 PROVE  u \in excused' \/ (run'.pc = "write" /\ run'.held /\ Rewritten(u)')
      BY DEF RulesKept
    <3>1. u # t /\ rules[u] # "own"
      BY <2>2
    <3>2. u \in excused \/ (run.pc = "write" /\ run.held /\ Rewritten(u))
      BY <3>1 DEF RulesInv, RulesKept
    <3>3. CASE run.pc = "write" /\ run.held /\ Rewritten(u)
      <4>1. PICK f \in run.todo : run.at = {f}
        BY <3>3 DEF IInv, RewriteInv
      <4>2. ~Rewritten(t)
        BY <3>1, <3>3, <4>1 DEF Rewritten
      <4> QED
        BY <2>1, <3>3, <4>2 DEF Rewritten
    <3> QED
      BY <2>1, <3>1, <3>2, <3>3
  <2>4. run'.pc \in {"truncate", "write"} /\ run'.held =>
          \A f \in run'.at : run'.read = "own" \/ f[2] \in excused'
    BY <2>1 DEF RulesInv, Rewritten
  <2> QED
    BY <2>3, <2>4 DEF RulesInv
<1>6. CASE Audit \/ Finish
  <2>1. run'.pc \in {"handle", "idle"}
    <3>1. CASE Audit
      BY <3>1 DEF Audit, Idle
    <3>2. CASE Finish
      BY <3>2 DEF Finish, Idle
    <3> QED
      BY <1>6, <3>1, <3>2
  <2>2. run.pc # "write" /\ rules' = rules /\ excused' = excused
    BY <1>6 DEF Audit, Finish, host
  <2> QED
    BY <1>2, <2>1, <2>2
<1>7. CASE Kill
  BY <1>3, <1>7 DEF Kill, Idle, host
<1>8. CASE Handle
  <2>1. PICK f \in run.todo : Step(f)
    BY <1>8 DEF Handle, Step
  <2>2. f \in Finding /\ f[2] \in Thing
    BY <1>0, Findings DEF RunType
  <2>3. ASSUME NEW as \in {"open", "resolved", "failed"}, Return(f, as) PROVE run'.pc = "handle"
    BY <2>3, Returned DEF IInv
  <2>4. CASE run.pc = "handle" /\ (Skip(f) \/ Cannot(f) \/ Remove(f) \/ Chmod(f) \/ Install(f))
    <3>1. rules' = rules /\ excused' = excused
      BY <2>4 DEF Skip, Cannot, Remove, Chmod, Install, host
    <3>2. \E as \in {"open", "resolved", "failed"} : Return(f, as)
      BY <2>4 DEF Skip, Cannot, Remove, Chmod, Install
    <3>3. run'.pc = "handle"
      BY <2>3, <3>2
    <3> QED
      BY <1>2, <2>4, <3>1, <3>3
  <2>5. CASE run.pc = "handle" /\ ReadRules(f)
    <3>1. run'.pc = "truncate" /\ run'.at = {f} /\ run'.read = rules[f[2]]
      BY <1>0, <2>5 DEF ReadRules, RunType
    <3>2. rules' = rules /\ excused' = excused
      BY <2>5 DEF ReadRules, host
    <3>3. \A t \in Thing : rules[t] # "own" => t \in excused
      BY <2>5 DEF RulesInv, RulesKept
    <3>4. RulesKept'
      BY <3>2, <3>3 DEF RulesKept
    <3> QED
      BY <2>2, <3>1, <3>2, <3>3, <3>4 DEF RulesInv
  <2>6. ASSUME run.pc \in {"truncate", "write"}, f \in run.at PROVE run.at = {f}
    BY <2>6 DEF IInv, RewriteInv
  <2>7. CASE run.pc = "truncate" /\ f \in run.at /\ TruncateRules(f)
    <3>1. CASE Fault /\ Return(f, "failed") /\ UNCHANGED <<host, excused>>
      BY <1>2, <2>3, <2>7, <3>1 DEF host
    <3>2. CASE /\ rules' = [rules EXCEPT ![f[2]] = "none"]
               /\ excused' = IF run.held THEN excused ELSE excused \cup {f[2]}
               /\ run' = [run EXCEPT !.pc = "write", !.held = TRUE]
      <4>1. /\ run'.pc = "write" /\ run'.at = {f} /\ run'.held /\ run'.read = run.read
            /\ run.at = {f}
        BY <1>0, <2>6, <2>7, <3>2 DEF RunType
      <4>2. \A t \in Thing : rules[t] # "own" => t \in excused
        BY <2>7 DEF RulesInv, RulesKept
      <4>3. RulesKept'
        BY <1>0, <3>2, <4>1, <4>2 DEF RulesKept, Rewritten
      <4>4. run.read = "own" \/ f[2] \in excused'
        BY <2>7, <3>2 DEF RulesInv
      <4> QED
        BY <4>1, <4>3, <4>4 DEF RulesInv
    <3> QED
      BY <2>7, <3>1, <3>2 DEF TruncateRules
  <2>8. CASE run.pc = "write" /\ f \in run.at /\ WriteRules(f)
    <3>1. run.at = {f}
      BY <2>6, <2>8
    <3>2. CASE /\ rules' = IF run.held THEN [rules EXCEPT ![f[2]] = run.read] ELSE rules
               /\ Return(f, "resolved") /\ UNCHANGED <<there, bad, excused, faults>>
      <4>1. run'.pc = "handle"
        BY <2>3, <3>2
      <4>2. \A t \in Thing : rules[t] # "own" => t \in excused \/ (run.held /\ t = f[2])
        BY <3>1 DEF RulesInv, RulesKept, Rewritten
      <4>3. run.held => run.read = "own" \/ f[2] \in excused
        BY <2>8 DEF RulesInv
      <4> QED
        BY <1>0, <2>2, <3>2, <4>1, <4>2, <4>3 DEF RulesInv, RulesKept
    <3>3. CASE Fault /\ Return(f, "failed") /\ excused' = Cut /\ UNCHANGED host
      BY <1>3, <2>3, <3>3 DEF host
    <3> QED
      BY <2>8, <3>2, <3>3 DEF WriteRules
  <2> QED
    BY <2>1, <2>4, <2>5, <2>7, <2>8 DEF Step
<1>9. CASE UNCHANGED vars
  BY <1>1, <1>9 DEF vars, host
<1> QED
  BY <1>4, <1>5, <1>6, <1>7, <1>8, <1>9 DEF Next, Appear, Vanish

-----------------------------------------------------------------------------
(* The theorems *)

(* The invariant holds in every reachable state.                           *)
LEMMA Invariant == Spec => []IInv
BY AtFirst, NextStep, PTL DEF Spec

(* Every behaviour of the handlers is well typed.                          *)
THEOREM TypeCorrect == Spec => []TypeOK
<1>1. IInv => TypeOK
  BY DEF IInv, Types, HostInv, Sound, RunType, RulesType, TypeOK
<1> QED
  BY <1>1, Invariant, PTL

(* remediate.py: a handler changes nothing but what its finding names,     *)
(* removes only from /tmp, and what is still what was found there unless   *)
(* it changed since the audit, and takes away only what a new mode ends.   *)
THEOREM HostIsProtected == Spec => HostProtected
<1> DEFINE Spared(t) ==
      \/ bad'[t] = bad[t] /\ (t \in there' <=> t \in there)
      \/ \E f \in run.todo :
           /\ f[2] = t /\ f[1] \in whitelist
           /\ \/ /\ t \notin there' /\ place[t] \in {"tmp", "tmpkey"}
                 /\ f[1] \in bad[t] \/ t \in run.changed
              \/ t \in there' /\ t \in there /\ bad[t] \ bad'[t] \subseteq Ends(f[1])
              \/ t \in there' /\ f[1] = "nopasswd" /\ t \in run.changed
<1>1. ASSUME IInv, Handle, NEW t \in Thing PROVE Spared(t)
  <2>1. PICK f \in run.todo : Does(f) /\ Protects(f)
    BY <1>1, Handled
  <2>2. CASE t # f[2]
    BY <2>1, <2>2 DEF Does, Untouched
  <2>3. CASE t = f[2]
    BY <2>1, <2>3 DEF Protects, Untouched
  <2> QED
    BY <2>2, <2>3
<1>2. IInv => [Handle => \A t \in Thing : Spared(t)]_vars
  BY <1>1
<1> QED
  BY <1>2, Invariant, PTL DEF HostProtected

(* remediate.py, with the alerts of modes/audit_mode.py: when a finding is *)
(* taken for resolved, what it was about is gone, but for a file that the  *)
(* finding does not name and one that was replaced while it was written.   *)
THEOREM SilencedAreFixed == Spec => SilencedIsFixed
<1> DEFINE Fixed(f) ==
      \/ f[1] \notin bad'[f[2]]
      \/ Misnamed(f)
      \/ f[1] = "nopasswd" /\ ~run.held
<1>1. ASSUME IInv, Handle, NEW g \in run'.resolved \ run.resolved PROVE Fixed(g)
  <2>1. PICK f \in run.todo : Does(f)
    BY <1>1, Handled
  <2> QED
    BY <1>1, <2>1 DEF Does
<1>2. IInv => [Handle => \A f \in run'.resolved \ run.resolved : Fixed(f)]_vars
  BY <1>1
<1> QED
  BY <1>2, Invariant, PTL DEF SilencedIsFixed

(* remediate.py, nopasswd: whatever the host does, a file of sudoers.d has *)
(* the rules of its owner unless it is being written, or its last rewrite  *)
(* was cut short after opening it or overwrote a change since the reading. *)
THEOREM RulesAreKept == Spec => []RulesKept
<1>1. Init => RulesInv
  BY DEF Init, RulesInv, RulesKept, Idle
<1>2. RulesInv => RulesKept
  BY DEF RulesInv
<1> QED
  BY <1>1, <1>2, RulesStep, Invariant, PTL DEF Spec
=============================================================================

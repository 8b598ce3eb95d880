----------------------------- MODULE MCCapture -----------------------------
EXTENDS Capture

CONSTANTS www, cdn, a1, a2, web, tls, px,
          PortFirst, Shadowed, Unshadowed, SomePorts

Domain(h, ns) == [host |-> h, names |-> ns]
To1(target) == [domains |-> {}, prefixes |-> {}, outer |-> {}, ports |-> {}, target |-> target, final |-> FALSE]

AllEngines == {PortFirst, Shadowed, Unshadowed, SomePorts}

\* PortFirst: www on the web port is direct, on every other port it goes out.
\* Shadowed: www is direct on every port, though a rule below routes it, and a
\* prefix.  Unshadowed: the same without the direct rule.  SomePorts: a prefix
\* is direct, then one port of everything goes out, and the rest is direct.
Out == [To1(px) EXCEPT !.domains = {Domain(www, {www}), Domain(cdn, {cdn})}, !.prefixes = {{a2}}]
AllRules ==
  [e \in AllEngines |->
     CASE e = PortFirst -> << [To1(Direct) EXCEPT !.domains = {Domain(www, {www})}, !.ports = {web}],
                              [To1(px) EXCEPT !.domains = {Domain(NoName, {www, cdn})}] >>
       [] e = Shadowed -> << [To1(Direct) EXCEPT !.domains = {Domain(www, {www})}], Out >>
       [] e = Unshadowed -> << Out >>
       [] e = SomePorts -> << [To1(Direct) EXCEPT !.prefixes = {{a1}}],
                              [To1(px) EXCEPT !.ports = {tls}],
                              [To1(Direct) EXCEPT !.final = TRUE] >>]

AllLists == {{}, {cdn}}


Calm == [engines |-> {PortFirst}, edits |-> 0, sources |-> {"dns"}, entries |-> 2, news |-> 2,
         fakeip |-> FALSE, lists |-> {{}}, faults |-> {}, failures |-> 0, ends |-> FALSE, starts |-> 0]

\* Rules change while names are learned, without FakeIPs and with them, from
\* DNS and from hosts, with room for two addresses and for one; lists change;
\* calls fail; the daemon is killed or stops, and starts again.
AllEnvs ==
  { [Calm EXCEPT !.engines = {PortFirst, Shadowed, SomePorts}, !.edits = 1, !.entries = 1],
    [Calm EXCEPT !.engines = {Shadowed, Unshadowed}, !.edits = 2, !.sources = {"hosts"}, !.news = 1],
    [Calm EXCEPT !.engines = AllEngines, !.edits = 2, !.fakeip = TRUE],
    [Calm EXCEPT !.lists = AllLists, !.news = 1],
    [Calm EXCEPT !.lists = AllLists, !.sources = {}, !.faults = {"install", "cache"}, !.failures = 2],
    [Calm EXCEPT !.lists = AllLists, !.sources = {}, !.faults = {"kill"}, !.failures = 1,
                 !.ends = TRUE, !.starts = 1],
    [Calm EXCEPT !.engines = {PortFirst, Shadowed}, !.edits = 1, !.news = 1, !.faults = {"install"}, !.failures = 2],
    [Calm EXCEPT !.sources = {"hosts"}, !.engines = {Unshadowed}, !.news = 1,
                 !.faults = {"install", "kill"}, !.failures = 1, !.ends = TRUE, !.starts = 1] }

\* The daemon is stopped while the rules change.
StopEnvs == { [Calm EXCEPT !.engines = {PortFirst, Shadowed}, !.edits = 1, !.ends = TRUE] }
=============================================================================

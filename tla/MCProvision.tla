------------------------------ MODULE MCProvision ------------------------------
(***************************************************************************)
(* A small instance of Provision.  28.3.3 is the version provision assumes *)
(* when it finds none; 30.0.0 may also be written 30, and 28.4.0 is never  *)
(* installed.  The ABI map knows these two major versions, or is missing;  *)
(* 33.1.0 may be installed and has no known ABI.                           *)
(***************************************************************************)
EXTENDS Provision

v28 == <<28, 3, 3>>
v30 == <<30, 0, 0>>
v30short == <<30>>
v284 == <<28, 4, 0>>
v33 == <<33, 1, 0>>

MCVersions == {v28, v30, v30short, v284, v33}
MCInstallable == {v28, v30, v30short, v33}
Abi28And30 == [m \in {28, 30} |-> IF m = 28 THEN 119 ELSE 123]

World(reap, url, map) == [auto_reap |-> reap, headers_url |-> url, abi_map |-> map]

\* The usual one; SIGCHLD ignored; an URL for the headers and no ABI map.
MCWorlds == {World(FALSE, FALSE, Abi28And30), World(TRUE, FALSE, Abi28And30),
             World(FALSE, TRUE, [m \in {} |-> Unknown])}

Node(from, elf, test, size) == [from |-> from, elf |-> elf, test |-> test, size |-> size]
built == Node("compiler", TRUE, FALSE, 2)
builtTest == Node("compiler", TRUE, TRUE, 3)
darwin == Node("tarball", FALSE, FALSE, 4)
prebuilt == Node("tarball", TRUE, FALSE, 1)
large == Node("tarball", TRUE, FALSE, 4)

MCOutputs == {built, builtTest}

\* A module with nothing around it, and one with a dependency and a patch.
Plain == [NoOrder EXCEPT !.shipped = {darwin}]
Patched == [electron |-> AutoVersion, sha256 |-> TRUE, dependencies |-> <<"addon-api">>,
            patches |-> <<"v8.patch">>, shipped |-> {prebuilt}, carried |-> {large}]

MCOrders == {[o EXCEPT !.electron = v] : o \in {Plain, Patched}, v \in MCVersions \cup {AutoVersion}}

Version(electrons, bad, nmv, npm, shim, spec) ==
  [electrons |-> electrons, bad |-> bad, nmv |-> nmv, npm |-> npm, shim |-> shim, spec |-> spec]

\* sqlite has a version tested with 28 and one that is bad on it; pty none that
\* is tested with either, one without a known ABI and two at a distance.
MCRegistry ==
  [m \in {"sqlite", "pty"} |->
     IF m = "sqlite"
     THEN <<Version({30}, {28}, 123, "9.6.0", FALSE, Plain),
            Version({28}, {}, 119, "12.10.0", FALSE, Patched)>>
     ELSE <<Version({}, {}, 0, "0.9.0", FALSE, Plain),
            Version({25}, {30}, 120, "1.0.0", TRUE, Plain),
            Version({27}, {}, 117, "1.1.0", FALSE, Plain)>>]

Case(modules, packed, shims, env, flag, detected, force) ==
  [modules |-> modules, packed |-> packed, stubs |-> {"fonts"} \cap {modules[i] : i \in DOMAIN modules},
   shims |-> shims, registry |-> MCRegistry, env |-> env, flag |-> flag,
   detected |-> detected, force |-> force]

\* The same module twice, one inside the asar, one behind a shim, stubs and
\* unknown modules; versions from every source there is.
MCSituations ==
  {Case(<<"sqlite">>, {}, {}, NotSet, NotSet, AutoVersion, FALSE),
   Case(<<"sqlite">>, {}, {}, NotSet, v30, v28, FALSE),
   Case(<<"sqlite", "sqlite">>, {}, {}, NotSet, NotSet, v28, FALSE),
   Case(<<"pty", "fonts", "pty">>, {}, {"pty"}, v30, v28, v28, TRUE),
   Case(<<"pty">>, {}, {"pty"}, NotSet, NotSet, v284, FALSE),
   Case(<<"fsevents">>, {"sqlite"}, {}, AutoVersion, NotSet, v30, FALSE),
   Case(<<"sqlite">>, {}, {}, NotSet, v30short, AutoVersion, FALSE)}

===============================================================================

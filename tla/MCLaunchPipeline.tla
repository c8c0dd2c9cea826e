---------------------------- MODULE MCLaunchPipeline ---------------------------
(***************************************************************************)
(* Bundles of every category of the strategy matrix, alone and with the    *)
(* dependencies that change the verdict, and every answer of the database  *)
(* that the decision tells apart.                                          *)
(***************************************************************************)
EXTENDS LaunchPipeline

App(id, keys, libs, entitlements, arch) ==
  [id |-> id, keys |-> keys, libs |-> libs, entitlements |-> entitlements, arch |-> arch]

MCApps ==
  {App(id, {}, libs, {}, "x86_64") :
     id \in {"plain", "com.tauri"},
     libs \in {{}, {"Electron"}, {"Electron", "Metal", "Sparkle"}, {"AppKit"},
              {"AppKit", "Metal"}, {"SwiftUI"}, {"Electron", "Accessibility"},
              {"Electron", "Hypervisor"}}}
  \cup {App("tauri", {}, {"WebKit"}, {}, "universal"),
        App("com.wails", {}, {"WebKit", "Sparkle"}, {"accessibility"}, "arm64"),
        App("com.github.electron", {}, {}, {"hypervisor"}, "x86_64"),
        App("plain", {"ElectronAsarIntegrity"}, {"Metal"}, {}, "arm64"),
        App("plain", {"NSPrincipalClass"}, {}, {}, "x86_64"),
        App("plain", {}, {}, {}, "arm64"),
        App("", {}, {"Electron"}, {}, "x86_64")}

Record(tier, state) == [kind |-> "record", tier |-> tier, state |-> state]

MCMatches ==
  {NoMatch, Throws,
   Record("native-substitution", "verified"), Record("native-substitution", "broken"),
   Record("darling-compatible", "partial"), Record("vm-recommended", "degraded"),
   Record("unsupported", "functional"), Record("native-substitution", "unsupported")}

MCDisks ==
  {[plist |-> TRUE, exe |-> TRUE, code |-> c] : c \in {{}, {"app.asar"}, {"default_app.asar", "app"}}}
  \cup {[plist |-> TRUE, exe |-> FALSE, code |-> {"app"}],
        [plist |-> FALSE, exe |-> FALSE, code |-> {}]}

MCSettings ==
  {{}, {"launch"}, {"launch", "wait"}, {"launch", "wait", "MACRUN_FALLBACK_VM"},
   {"launch", "MACRUN_SHIM_DISABLE_GPU"}}

===============================================================================

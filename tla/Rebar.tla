------------------------------- MODULE Rebar --------------------------------
(***************************************************************************)
(* 03-cmp50-rebar.patch: nv_pci_probe of the patched driver for one CMP    *)
(* 50HX, with nv_cmp50_unlock_bar1_resize access by access. XVE's cfg can  *)
(* be written only while cya holds the unlock value: that is why each      *)
(* error path writes cfg back before cya.                                  *)
(***************************************************************************)
EXTENDS Board

VARIABLES
  place,     \* where the module or its probe is
  selector,  \* cmp50_rebar_size
  NVreg_EnableResizableBar,
  saved,     \* cya and cfg as the probe read them
  rearmed,   \* the readback after re-arming was as written
  found      \* ghost: cya and cfg when the probe began

module == <<selector, NVreg_EnableResizableBar>>
rebar == <<place, module, saved, rearmed, found>>

Window == {"rearm", "readback", "decode_on"}
Probing == {"save", "cya", "cfg", "check_cfg", "check_sizes", "find_entry",
            "decode_off", "restore_cfg", "restore_cya", "enable", "resize"}
           \cup Window
Places == {"unloaded", "idle", "failed", "bound"} \cup Probing

Goes(from, to) ==
  place = from /\ place' = to

requested_size == selector + 6

NotRead == [cya |-> "locked", cfg |-> 0]

\* modprobe: a module parameter is read once, and the switch is off by default.
Load(s) ==
  /\ Goes("unloaded", "idle")
  /\ selector' = s
  /\ UNCHANGED <<board, NVreg_EnableResizableBar, saved, rearmed, found>>

Unloaded ==
  selector' = 0 /\ NVreg_EnableResizableBar' = FALSE

Unload ==
  /\ Goes("idle", "unloaded")
  /\ Unloaded
  /\ UNCHANGED <<board, saved, rearmed, found>>

\* Up to the mapping of XVE: nothing to do, a bad selector, BAR0 too small or
\* not mapped.
BeginProbe ==
  /\ place = "idle"
  /\ place' \in CASE selector = 0 -> {"resize"}
                  [] selector > 8 -> {"failed"}
                  [] OTHER -> {"save", "failed"}
  /\ found' = [cya |-> cya, cfg |-> cfg]
  /\ UNCHANGED <<board, module, saved, rearmed>>

Save ==
  /\ Goes("save", "cya")
  /\ saved' = [cya |-> Seen(cya, Ones), cfg |-> Seen(cfg, Ones)]
  /\ UNCHANGED <<board, module, rearmed, found>>

UnlockCya ==
  /\ Goes("cya", "cfg")
  /\ cya' = Written(cya, "unlock")
  /\ UNCHANGED <<alive, decode, cfg, control, resource, pl, link_rate, link,
                 module, saved, rearmed, found>>

\* A board may ignore the new size.
WriteCfg ==
  /\ Goes("cfg", "check_cfg")
  /\ cfg' \in IF cya = "unlock" THEN {cfg, Written(cfg, selector)} ELSE {cfg}
  /\ UNCHANGED <<alive, decode, cya, control, resource, pl, link_rate, link,
                 module, saved, rearmed, found>>

CheckCfg ==
  /\ place = "check_cfg"
  /\ place' = IF Seen(cfg, Ones) = selector THEN "check_sizes" ELSE "restore_cfg"
  /\ UNCHANGED <<board, module, saved, rearmed, found>>

\* pci_rebar_get_possible_sizes: the size is not among them, or is.
CheckSizes ==
  /\ place = "check_sizes"
  /\ place' \in {"restore_cfg"} \cup (IF alive THEN {"find_entry"} ELSE {})
  /\ UNCHANGED <<board, module, saved, rearmed, found>>

\* The capability, BAR1's entry in it, and whether the resource already has
\* the requested size and the register has not.
NeverRearms == FALSE
NeedsRearm == resource = requested_size /\ control # requested_size

FindEntry ==
  /\ place = "find_entry"
  /\ place' \in
       {"restore_cfg"}
       \cup (IF alive THEN {IF NeedsRearm THEN "decode_off" ELSE "enable"} ELSE {})
  /\ UNCHANGED <<board, module, saved, rearmed, found>>

-----------------------------------------------------------------------------
(* Re-arming after an FLR, with memory decoding off. *)

SetDecode(on) ==
  /\ decode' = IF alive THEN on ELSE decode
  /\ UNCHANGED <<alive, cya, cfg, control, resource, pl, link_rate, link>>

DecodeOff ==
  /\ Goes("decode_off", "rearm")
  /\ SetDecode(FALSE)
  /\ UNCHANGED <<module, saved, rearmed, found>>

WriteControl ==
  /\ Goes("rearm", "readback")
  /\ control' \in IF alive THEN {control, requested_size} ELSE {control}
  /\ UNCHANGED <<alive, decode, cya, cfg, resource, pl, link_rate, link, module,
                 saved, rearmed, found>>

ReadControl ==
  /\ Goes("readback", "decode_on")
  /\ rearmed' = (alive /\ control = requested_size)
  /\ UNCHANGED <<board, module, saved, found>>

DecodeOn ==
  /\ Goes("decode_on", IF rearmed THEN "enable" ELSE "restore_cfg")
  /\ SetDecode(TRUE)
  /\ UNCHANGED <<module, saved, rearmed, found>>

-----------------------------------------------------------------------------
(* The common tail of the error paths, and success. *)

RestoreNothing ==
  /\ Goes("restore_cfg", "restore_cya")
  /\ UNCHANGED <<board, module, saved, rearmed, found>>

RestoreCfg ==
  /\ Goes("restore_cfg", "restore_cya")
  /\ cfg' = IF cya = "unlock" THEN Written(cfg, saved.cfg) ELSE cfg
  /\ UNCHANGED <<alive, decode, cya, control, resource, pl, link_rate, link,
                 module, saved, rearmed, found>>

RestoreCya ==
  /\ Goes("restore_cya", "failed")
  /\ cya' = Written(cya, saved.cya)
  /\ UNCHANGED <<alive, decode, cfg, control, resource, pl, link_rate, link,
                 module, saved, rearmed, found>>

\* The function's own variables end with it.
Forget ==
  saved' = NotRead /\ found' = NotRead /\ rearmed' = FALSE

Enable ==
  /\ Goes("enable", "resize")
  /\ NVreg_EnableResizableBar' = TRUE
  /\ Forget
  /\ UNCHANGED <<board, selector>>

\* The driver's own nv_resize_pcie_bars: it does nothing for a resource that
\* is large already; else it may give both the register and the resource any
\* size there is room for. A later step of the probe may fail.
Resize ==
  /\ place = "resize" /\ place' \in {"bound", "idle"}
  /\ \/ UNCHANGED <<control, resource>>
     \/ /\ NVreg_EnableResizableBar /\ alive /\ resource # requested_size
        /\ \E size \in Sizes : control' = size /\ resource' = size
  /\ UNCHANGED <<alive, decode, cya, cfg, pl, link_rate, link, module, saved,
                 rearmed, found>>

Returns ==
  /\ Goes("failed", "idle")
  /\ Forget
  /\ UNCHANGED <<board, module>>

Remove ==
  /\ Goes("bound", "idle")
  /\ UNCHANGED <<board, module, saved, rearmed, found>>

ProbeStep ==
  \/ BeginProbe \/ Save \/ UnlockCya \/ WriteCfg \/ CheckCfg \/ CheckSizes
  \/ FindEntry \/ DecodeOff \/ WriteControl \/ ReadControl \/ DecodeOn
  \/ RestoreCfg \/ RestoreCya \/ Enable \/ Resize \/ Returns

RebarInit ==
  /\ place = "unloaded" /\ selector = 0
  /\ NVreg_EnableResizableBar = FALSE /\ rearmed = FALSE
  /\ saved = NotRead /\ found = NotRead

RebarTypeOK ==
  /\ place \in Places /\ selector \in Selectors \cup {0}
  /\ NVreg_EnableResizableBar \in BOOLEAN /\ rearmed \in BOOLEAN
  /\ saved \in [cya : {"locked", "unlock", Ones}, cfg : Nat \cup {Ones}]
  /\ found \in [cya : {"locked", "unlock"}, cfg : Nat]
=============================================================================

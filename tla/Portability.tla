------------------------------ MODULE Portability ------------------------------
(***************************************************************************)
(* The Portability context: its imports (ImportFlow) beside its exports    *)
(* (ExportFlow).  The two share no state of their own: to an export an     *)
(* import is nothing but inserted rows, and an import reads a bundle whose *)
(* export has ended.                                                       *)
(***************************************************************************)
EXTENDS ImportFlow

CONSTANTS
    ExportRows,     \* the rows of the user who asks for a bundle
    RowKind,        \* the kind of each
    RowParent,      \* its todo or session, or None
    RowPosition,    \* its place among those of its kind
    PageSize,       \* rows the export asks for at a time
    ListLimit,      \* rows a query returns at most
    MaxChanges      \* bound: changes made while one export runs

VARIABLES
    stored, export, before, gone    \* ExportFlow's

Exports == INSTANCE ExportFlow WITH
    Records <- ExportRows, Kind <- RowKind, Parent <- RowParent, Position <- RowPosition

ASSUME RowAssumption == Exports!ExportAssumption

(* A bundle holds the full history (ExportFlow's property of the instance  *)
(* above).                                                                 *)
BundleFaithful == Exports!BundleFaithful

===============================================================================

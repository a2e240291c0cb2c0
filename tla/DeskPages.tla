------------------------------ MODULE DeskPages -----------------------------
(***************************************************************************)
(* The pages of the dashboard that show a list: what each handler, dialog  *)
(* and page does, in the terms of Desk.                                    *)
(***************************************************************************)
EXTENDS Desk

-----------------------------------------------------------------------------
\* The finance section.

\* AP invoices.  An invoice that waits for its match is approved or cancelled; the
\* payment dialog keeps its invoice, the payment run its selection.
ApproveAp == [RowCall EXCEPT !.name = "approve", !.unless = {"approve", "cancel"}, !.then = "starts"]
CancelAp == [DialogCall EXCEPT !.name = "cancel", !.dialog = "cancel", !.clears = "success"]
UploadAp == [DialogCall EXCEPT !.name = "upload", !.flag = "uploading", !.dialog = "upload", !.closes = "reload"]
CreateAp == [DialogCall EXCEPT !.name = "create", !.dialog = "create", !.clears = "success"]
PayAp == [DialogCall EXCEPT !.name = "pay", !.dialog = "pay", !.clears = "success"]
RunPayments == [DialogCall EXCEPT !.name = "run", !.dialog = "run", !.closes = "never", !.clears = "success"]

ApCancelDialog == [RowDialog EXCEPT !.name = "cancel", !.unless = {"approve", "cancel"}]
ApUploadDialog == [BlankDialog EXCEPT !.name = "upload"]
ApCreateDialog == [Dialog EXCEPT !.name = "create"]
ApPaymentDialog == [Dialog EXCEPT !.name = "pay"]
ApRunDialog == [Dialog EXCEPT !.name = "run"]

ApPage ==
  [Page EXCEPT !.name = "ap", !.veils = TRUE,
     !.calls = {ApproveAp, CancelAp, UploadAp, CreateAp, PayAp, RunPayments},
     !.dialogs = {ApCancelDialog, ApUploadDialog, ApCreateDialog, ApPaymentDialog, ApRunDialog}]

\* AR invoices.  The invoice of a new customer takes two calls.
CreateAr == [DialogCall EXCEPT !.name = "create", !.dialog = "create", !.first = TRUE, !.clears = "success"]
PayAr == [DialogCall EXCEPT !.name = "pay", !.dialog = "pay", !.clears = "success"]

ArCreateDialog == [Dialog EXCEPT !.name = "create"]
ArPaymentDialog == [Dialog EXCEPT !.name = "pay"]

ArPage ==
  [Page EXCEPT !.name = "ar", !.veils = TRUE, !.calls = {CreateAr, PayAr},
     !.dialogs = {ArCreateDialog, ArPaymentDialog}]

\* Sales orders.
CreateSalesOrder == [DialogCall EXCEPT !.name = "create", !.dialog = "create", !.clears = "success"]
GenerateInvoice == [RowCall EXCEPT !.name = "invoice", !.flag = "invoicingId", !.unless = {"invoice"}]

SalesOrderDialog == [Dialog EXCEPT !.name = "create"]

SalesOrdersPage ==
  [Page EXCEPT !.name = "sales", !.veils = TRUE, !.calls = {CreateSalesOrder, GenerateInvoice},
     !.dialogs = {SalesOrderDialog}]

\* Accounts, fiscal periods, transfers and journal entries.
CreateAccount == [DialogCall EXCEPT !.name = "create", !.dialog = "create", !.closes = "reload"]
AccountDialog == [BlankDialog EXCEPT !.name = "create"]
AccountsPage == [Page EXCEPT !.name = "accounts", !.calls = {CreateAccount}, !.dialogs = {AccountDialog}]

OpenPeriod == [DialogCall EXCEPT !.name = "open", !.dialog = "open", !.clears = "success"]
CloseFiscalPeriod == [RowCall EXCEPT !.name = "close", !.unless = {"close"}]
PeriodDialog == [Dialog EXCEPT !.name = "open"]
PeriodsPage == [Page EXCEPT !.name = "periods", !.calls = {OpenPeriod, CloseFiscalPeriod}, !.dialogs = {PeriodDialog}]

CreateTransfer == [DialogCall EXCEPT !.name = "create", !.dialog = "create", !.clears = "success"]
TransferDialog == [Dialog EXCEPT !.name = "create"]
TransfersPage ==
  [Page EXCEPT !.name = "transfers", !.veils = TRUE, !.calls = {CreateTransfer}, !.dialogs = {TransferDialog}]

\* The entry's form stays open until the reload.
SaveEntry ==
  [DialogCall EXCEPT !.name = "save", !.dialog = "entry", !.closes = "reload", !.clears = "reload"]
EntryForm == [Dialog EXCEPT !.name = "entry"]
JournalPage == [Page EXCEPT !.name = "journal", !.calls = {SaveEntry}, !.dialogs = {EntryForm}]

FinancePages ==
  {ApPage, ArPage, SalesOrdersPage, AccountsPage, PeriodsPage, TransfersPage, JournalPage}

-----------------------------------------------------------------------------
\* The supply chain section and the supplier portal.

\* Inventory.  Its three modals close on success and let the page reload; a raised
\* requisition is noted beside the list.
CreateWarehouse ==
  [DialogCall EXCEPT !.name = "warehouse", !.flag = "warehouse", !.dialog = "warehouse", !.then = "starts"]
RecordMovement ==
  [DialogCall EXCEPT !.name = "movement", !.flag = "movement", !.dialog = "movement", !.then = "starts"]
SaveReorderRule ==
  [DialogCall EXCEPT !.name = "rule", !.flag = "rule", !.dialog = "rule", !.then = "starts"]
RunReorder == [PageCall EXCEPT !.name = "reorder", !.flag = "runningAutomation"]
RaisePr == [RowCall EXCEPT !.name = "raise", !.flag = "raising", !.unless = {"raise"}, !.then = "notes"]

WarehouseModal == [BlankDialog EXCEPT !.name = "warehouse"]
MovementModal == [BlankDialog EXCEPT !.name = "movement"]
ReorderRuleModal == [BlankDialog EXCEPT !.name = "rule"]

InventoryPage ==
  [Page EXCEPT !.name = "inventory",
     !.calls = {CreateWarehouse, RecordMovement, SaveReorderRule, RunReorder, RaisePr},
     !.dialogs = {WarehouseModal, MovementModal, ReorderRuleModal}]

\* The forecast of one product.
TrainProduct == [PageCall EXCEPT !.name = "train", !.flag = "training", !.then = "patches"]
ForecastPanel == [Page EXCEPT !.name = "panel", !.calls = {TrainProduct}]

\* Purchase orders.  `advance` approves an order, or opens the dialog that receives it.
AdvanceOrder ==
  [RowCall EXCEPT !.name = "approve", !.unless = {"approve", "cancel"}, !.then = "starts"]
ReceiveOrder ==
  [DialogCall EXCEPT !.name = "receive", !.flag = "receiving", !.dialog = "receive", !.then = "starts"]
CancelOrder ==
  [DialogCall EXCEPT !.name = "cancel", !.flag = "cancelling", !.dialog = "cancel", !.then = "starts",
     !.clears = "success"]
CreateFromRequisition ==
  [RowCall EXCEPT !.name = "order", !.flag = "creatingPo", !.unless = {"order"}, !.then = "starts"]

ReceiveDialog == [RowDialog EXCEPT !.name = "receive", !.needs = {"approve"}, !.unless = {"receive", "cancel"}]
CancelDialog == [RowDialog EXCEPT !.name = "cancel", !.unless = {"receive", "cancel"}]

OrdersPage ==
  [Page EXCEPT !.name = "orders",
     !.calls = {AdvanceOrder, ReceiveOrder, CancelOrder, CreateFromRequisition},
     !.dialogs = {ReceiveDialog, CancelDialog}]

\* Goods receipts and the invoices of vendors.
ReceiveAll == [RowCall EXCEPT !.name = "receive", !.flag = "receivingId", !.unless = {"receive"}]
ReceiptsPage == [Page EXCEPT !.name = "receipts", !.veils = TRUE, !.calls = {ReceiveAll}]

ApproveVendorInvoice == [RowCall EXCEPT !.name = "approve", !.unless = {"approve"}, !.then = "starts"]
VendorInvoicesPage == [Page EXCEPT !.name = "vendor invoices", !.calls = {ApproveVendorInvoice}]

\* Vendors and products.  Issuing a key changes nothing the list shows.
SaveVendor == [DialogCall EXCEPT !.name = "save", !.dialog = "vendor", !.closes = "reload"]
DeleteVendor == [RowCall EXCEPT !.name = "delete", !.unless = {"delete"}]
IssueKey == [RowCall EXCEPT !.name = "key", !.flag = "issuingKeyFor", !.unless = {"delete"}, !.then = "notes"]
VendorDialog == [RecordDialog EXCEPT !.name = "vendor", !.unless = {"delete"}]
VendorsPage ==
  [Page EXCEPT !.name = "vendors", !.calls = {SaveVendor, DeleteVendor, IssueKey}, !.dialogs = {VendorDialog}]

SaveProduct == [DialogCall EXCEPT !.name = "save", !.dialog = "product", !.closes = "reload"]
DeleteProduct == [RowCall EXCEPT !.name = "delete", !.unless = {"delete"}]
ProductDialog == [RecordDialog EXCEPT !.name = "product", !.unless = {"delete"}]
ProductsPage ==
  [Page EXCEPT !.name = "products", !.calls = {SaveProduct, DeleteProduct}, !.dialogs = {ProductDialog}]

\* The supplier portal: any acknowledgement under way disables them all.
Acknowledge == [RowCall EXCEPT !.name = "acknowledge", !.flag = "loading", !.wide = TRUE, !.unless = {"acknowledge"}]
PortalPage == [Page EXCEPT !.name = "portal", !.calls = {Acknowledge}]

SupplyPages ==
  {InventoryPage, ForecastPanel, OrdersPage, ReceiptsPage, VendorInvoicesPage, VendorsPage, ProductsPage,
   PortalPage}

-----------------------------------------------------------------------------
\* The people section, the home page and the list of identity providers in the
\* settings.

\* Departments and employees.
SaveDepartment ==
  [DialogCall EXCEPT !.name = "save", !.flag = "loading", !.dialog = "department", !.closes = "reload"]
DeleteDepartment == [RowCall EXCEPT !.name = "delete", !.unless = {"delete"}]
DepartmentDialog == [RecordDialog EXCEPT !.name = "department", !.unless = {"delete"}]
DepartmentsPage ==
  [Page EXCEPT !.name = "departments", !.calls = {SaveDepartment, DeleteDepartment},
     !.dialogs = {DepartmentDialog}]

DeactivateEmployee == [RowCall EXCEPT !.name = "deactivate", !.unless = {"deactivate"}]
RestoreEmployee == [RowCall EXCEPT !.name = "restore", !.needs = {"deactivate"}, !.unless = {"restore"}]
EmployeesPage ==
  [Page EXCEPT !.name = "employees", !.renews = TRUE, !.calls = {DeactivateEmployee, RestoreEmployee}]

\* Payroll is shown for one period; a run is only queued.
RunPayroll == [PageCall EXCEPT !.name = "run", !.flag = "isRunning", !.queues = TRUE]
PayrollPage ==
  [Page EXCEPT !.name = "payroll", !.keyed = TRUE, !.renews = TRUE, !.calls = {RunPayroll}]

\* Attendance is only shown.
AttendancePage == [Page EXCEPT !.name = "attendance", !.renews = TRUE]

\* Leave requests: a decision patches the list.
ApproveLeaveRow ==
  [RowCall EXCEPT !.name = "approve", !.unless = {"approve", "reject"}, !.then = "patches"]
RejectLeaveRow ==
  [RowCall EXCEPT !.name = "reject", !.unless = {"approve", "reject"}, !.then = "patches"]
LeaveRequestsPage ==
  [Page EXCEPT !.name = "leave", !.renews = TRUE, !.veils = TRUE, !.calls = {ApproveLeaveRow, RejectLeaveRow}]

\* Compliance: the rates are a form of the page, and so is a new tax slab.
SaveStatutory == [PageCall EXCEPT !.name = "statutory", !.flag = "saving", !.then = "patches"]
AddSlab == [DialogCall EXCEPT !.name = "slab", !.flag = "", !.dialog = "slab", !.closes = "never", !.clears = "success"]
DeleteSlab == [RowCall EXCEPT !.name = "delete", !.unless = {"delete"}]
SlabForm == [Dialog EXCEPT !.name = "slab"]
CompliancePage ==
  [Page EXCEPT !.name = "compliance", !.renews = TRUE, !.calls = {SaveStatutory, AddSlab, DeleteSlab},
     !.dialogs = {SlabForm}]

\* Home: clocking in and out, and a leave request.
HandleClockIn == [PageCall EXCEPT !.name = "clock in", !.unless = {"clock in"}, !.then = "patches"]
HandleClockOut ==
  [PageCall EXCEPT !.name = "clock out", !.needs = {"clock in"}, !.unless = {"clock out"}, !.then = "patches"]
SubmitLeave ==
  [DialogCall EXCEPT !.name = "leave", !.flag = "isSubmitting", !.dialog = "leave", !.clears = "success"]
ApplyForLeave == [Dialog EXCEPT !.name = "leave"]
HomePage ==
  [Page EXCEPT !.name = "home", !.renews = TRUE, !.calls = {HandleClockIn, HandleClockOut, SubmitLeave},
     !.dialogs = {ApplyForLeave}]

\* Identity providers.  The form of a kind is blank whenever it is chosen, and closes
\* once the list was loaded again, which is tried once.
AddProvider == [DialogCall EXCEPT !.name = "add", !.flag = "loading", !.dialog = "provider", !.closes = "reload"]
DeleteProvider == [RowCall EXCEPT !.name = "delete", !.unless = {"delete"}]
ProviderForm == [BlankDialog EXCEPT !.name = "provider"]
ProvidersPage ==
  [Page EXCEPT !.name = "providers", !.renews = TRUE, !.calls = {AddProvider, DeleteProvider},
     !.dialogs = {ProviderForm}]

\* Notifications, and beside them the preferences.  No flag disables a row's click.
MarkRead == [RowCall EXCEPT !.name = "read", !.unless = {"read", "delete"}, !.then = "patches"]
DeleteNotification ==
  [RowCall EXCEPT !.name = "delete", !.flag = "deletingId", !.unless = {"delete"}, !.then = "patches"]
TogglePref == [RowCall EXCEPT !.name = "toggle", !.flag = "savingKey", !.then = "notes"]
NotificationsPage ==
  [Page EXCEPT !.name = "notifications", !.veils = TRUE, !.streams = TRUE,
     !.calls = {MarkRead, DeleteNotification, TogglePref}]

PeoplePages ==
  {DepartmentsPage, EmployeesPage, PayrollPage, AttendancePage, LeaveRequestsPage, CompliancePage, HomePage,
   ProvidersPage, NotificationsPage}

-----------------------------------------------------------------------------
\* The projects section.  Nearly all of its handlers start a reload and do not
\* wait for it.

\* One project.  A title is edited in place: its row is then a dialog without a flag.
StartsReload == [RowCall EXCEPT !.then = "starts"]
EditInPlace == [DialogCall EXCEPT !.flag = "", !.then = "starts"]

OnStatusChange == [StartsReload EXCEPT !.name = "status"]
OnAchieve == [StartsReload EXCEPT !.name = "achieve", !.unless = {"achieve", "delete milestone"}]
SaveProject == [DialogCall EXCEPT !.name = "save", !.dialog = "edit", !.then = "starts"]
CloseProjectPage == [PageCall EXCEPT !.name = "close", !.unless = {"close"}, !.then = "starts"]
DeleteProjectPage == [PageCall EXCEPT !.name = "delete", !.then = "leaves"]
SaveMilestone == [EditInPlace EXCEPT !.name = "save milestone", !.dialog = "milestone"]
DeleteMilestone == [StartsReload EXCEPT !.name = "delete milestone", !.unless = {"delete milestone"}]
SaveTask == [EditInPlace EXCEPT !.name = "save task", !.dialog = "task"]
DeleteTask == [StartsReload EXCEPT !.name = "delete task", !.unless = {"delete task"}]
DeleteResource == [StartsReload EXCEPT !.name = "delete resource", !.unless = {"delete resource"}]

EditProjectDialog == [Dialog EXCEPT !.name = "edit", !.opens = "filled"]
MilestoneInPlace == [RowDialog EXCEPT !.name = "milestone", !.unless = {"delete milestone"}]
TaskInPlace == [RowDialog EXCEPT !.name = "task", !.unless = {"delete task"}]

ProjectPage ==
  [Page EXCEPT !.name = "project",
     !.calls = {OnStatusChange, OnAchieve, SaveProject, CloseProjectPage, DeleteProjectPage, SaveMilestone,
                DeleteMilestone, SaveTask, DeleteTask, DeleteResource},
     !.dialogs = {EditProjectDialog, MilestoneInPlace, TaskInPlace}]

\* The tasks of one project, or of none.
OnTaskStatus == [StartsReload EXCEPT !.name = "status"]
OnReschedule == [StartsReload EXCEPT !.name = "reschedule"]
SaveTitle == [EditInPlace EXCEPT !.name = "title", !.dialog = "title"]
DeleteTaskRow == [StartsReload EXCEPT !.name = "delete", !.unless = {"delete"}]
TitleInPlace == [RowDialog EXCEPT !.name = "title", !.unless = {"delete"}]
TasksPage ==
  [Page EXCEPT !.name = "tasks", !.keyed = TRUE, !.veils = TRUE,
     !.calls = {OnTaskStatus, OnReschedule, SaveTitle, DeleteTaskRow}, !.dialogs = {TitleInPlace}]

\* The milestones of one project.
CreateMilestoneRow ==
  [DialogCall EXCEPT !.name = "create", !.flag = "creating", !.dialog = "create", !.then = "starts",
     !.closes = "never", !.clears = "success"]
DueDateChange == [StartsReload EXCEPT !.name = "due", !.flag = "savingDueId", !.unless = {"delete"}]
AchieveRow == [StartsReload EXCEPT !.name = "achieve", !.unless = {"achieve", "delete"}]
SaveName == [EditInPlace EXCEPT !.name = "name", !.dialog = "name"]
DeleteMilestoneRow == [StartsReload EXCEPT !.name = "delete", !.unless = {"delete"}]
NewMilestoneForm == [Dialog EXCEPT !.name = "create"]
NameInPlace == [RowDialog EXCEPT !.name = "name", !.unless = {"delete"}]
MilestonesPage ==
  [Page EXCEPT !.name = "milestones", !.keyed = TRUE, !.veils = TRUE,
     !.calls = {CreateMilestoneRow, DueDateChange, AchieveRow, SaveName, DeleteMilestoneRow},
     !.dialogs = {NewMilestoneForm, NameInPlace}]

\* A dialog that is mounted anew each time, with its flag.
LocalCall == [DialogCall EXCEPT !.flag = None, !.local = TRUE]

\* Allocations.
Allocate == [LocalCall EXCEPT !.name = "allocate", !.dialog = "allocate", !.then = "starts"]
DeleteAllocation == [RowCall EXCEPT !.name = "delete", !.unless = {"delete"}]
AllocateModal == [Dialog EXCEPT !.name = "allocate", !.opens = "filled"]
ResourcesPage ==
  [Page EXCEPT !.name = "resources", !.calls = {Allocate, DeleteAllocation}, !.dialogs = {AllocateModal}]

\* All projects: closing and deleting share a flag; a material request changes no row.
CloseRow ==
  [StartsReload EXCEPT !.name = "close", !.flag = "actionId", !.unless = {"close", "delete"}]
DeleteRow == [StartsReload EXCEPT !.name = "delete", !.flag = "actionId", !.unless = {"delete"}]
RequestMaterial == [LocalCall EXCEPT !.name = "request", !.dialog = "material", !.then = "notes"]
MaterialDialog == [RowDialog EXCEPT !.name = "material", !.unless = {"close", "delete"}]
OverviewPage ==
  [Page EXCEPT !.name = "overview", !.veils = TRUE, !.calls = {CloseRow, DeleteRow, RequestMaterial},
     !.dialogs = {MaterialDialog}]

ProjectPages == {ProjectPage, TasksPage, MilestonesPage, ResourcesPage, OverviewPage}
=============================================================================

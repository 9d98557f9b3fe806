CONSTANTS
  Parts = {"e820", "ticks", "nvme", "xhci", "ehci", "uhci", "ohci", "companions",
           "virtio", "disks", "floppy", "modes", "cpus", "boot", "pci", "hid", "sercon",
           "vga", "tpm", "loader", "ahci", "ata", "sdcard", "scsi", "chip",
           "slots", "roms", "restart"}
  PciMachines <- MCMachines
  UsbThreads = {t1, t2}
  Cmds = "cmds"
  Intr = "intr"
  XHCI_RING_ITEMS = 4
  XhciWorlds <- MCXhciWorlds
  Top = 5
  Type = {RAM, RESERVED, ACPI}
  E820_HOLE = E820_HOLE
  BUILD_MAX_E820 = 4
  TICKS_PER_DAY = 8
  RolloverWord = 4
  Settings = {0, 7, 10}
  Counts = {0, 1, 3}
  MaxTicks = 17
  BSP = b
  APs = {a1, a2, a3}
  MsrSize = 2
  MaxWrites = 3
  MaxResumes = 2
  Granules = 4
  Unit = 2
  MaxResets = 3
  num = 4
  IdxWord = 8
  Lists <- VirtioLists
  MaxRequests = 9
  FloppyDrives = {0, 1}
  Cylinders = {0, 1}
  FloppyCommands = {"reset", "verify", "transfer"}
  PIO_TIMEOUT = 1
  IRQ_TIMEOUT = 2
  MOTOR_TICKS = 1
  MOTOR_MAX = 4
  MediaTypes = 2
  MaxOps = 2
  EXTRA_STACK_SIZE = 8
  DISABLE_A20 = FALSE
  Environments <- ModeEnvironments
  MaxDepth = 6
SPECIFICATION MCSpec
INVARIANTS
  MemoryMapExact
  TimeKept
  RequestsDelivered
  RequestsAnswered
  ScheduleSafe
  RequestHandedOver
  CallsHonest
  FloppyInStep
  ModesRestored
  CPUsStarted
  RestartTrue
  BootOrderKept
  DevicesReachable
  ReportsFollowed
  ScreenTrue
  LogTellsPcrs
  TablesLinked
SYMMETRY UsbSymmetry
CHECK_DEADLOCK FALSE

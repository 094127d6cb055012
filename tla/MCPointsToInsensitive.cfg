CONSTANTS
  main = main
  id = id
  mk = mk
  cb = cb
  fin = fin
  dtor = dtor
  atexit_func = atexit_func
  cxa_atexit_func = cxa_atexit_func
  c1 = c1
  c2 = c2
  c3 = c3
  c4 = c4
  c5 = c5
  c6 = c6
  c7 = c7
  c8 = c8
  Function <- MCFunction
  CallBase <- MCCallBase
  instr_func <- MCInstrFunc
  OneCallsite <- MCOneCallsite
  NoPointers <- MCNoPointers
  Variable <- MCVariable
  variable_in_func <- MCVariableInFunc
  Constant <- MCConstant
  Allocation <- MCAllocation
  Roots <- MCRoots
  argv_var_points_to <- MCArgv
  argv_ptr_points_to <- MCArgvPtr
  alloca_or_malloc <- MCAllocs
  assign_instr <- MCAssign
  inttoptr_instr <- MCIntToPtr
  store_instr <- MCStore
  load_instr <- MCLoad
  call_instr_fn_target <- MCDirect
  func_operand <- MCFuncOperand
  type_compatible <- MCTypeCompatible
  call_instr_arg <- MCCallArg
  invoke_instr_arg <- MCInvokeArg
  func_param <- MCFuncParam
  func_returns_value <- MCReturns
  call_assigns_to <- MCCallAssigns
  func_by_location <- MCFuncByLocation
  constant_in_func <- MCConstantInFunc
  constant_points_to <- MCConstantPointsTo
  constant_ptr_points_to <- MCConstantPtr
  ptr_compatible_allocation <- MCPtrCompatible
  alloc_aliases <- MCAliases
  alloc_matches <- MCMatches
  dtor_receiver <- MCDtorReceiver
  atexit = {atexit_func}
  cxa_atexit = {cxa_atexit_func}
  unknown_location = "*unknown*"
  Sensitivities = {"insensitive"}
  MaxContextDepths = {1}
SPECIFICATION Spec
CHECK_DEADLOCK FALSE
INVARIANTS
  VarPointsToImpliesReachable
